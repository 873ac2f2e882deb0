------------------------------ MODULE RamDisk ------------------------------
(***************************************************************************)
(* The block drivers blk_simp, blk_mid and blk_hard: a disk in memory that *)
(* a request queue is emptied into (blk_simp, a whole request under the    *)
(* queue's lock) or that every process copies to and from itself, segment  *)
(* by segment and without a lock (blk_mid, blk_hard).  One segment is one  *)
(* sector; the pages of a request are cells of the machine's memory, which *)
(* need not lie next to each other.                                        *)
(***************************************************************************)
EXTENDS Integers, Sequences, FiniteSets

CONSTANTS Sectors,      \* number of sectors
          Cells,        \* number of memory cells
          Users,        \* processes
          Pages,        \* Pages[u]: the lists of cells u may do I/O with
          DiskCalls,    \* bound on the requests
          DiskLoads     \* bound on how often a driver is loaded

ASSUME DiskAssumption ==
  /\ Sectors \in Nat \ {0} /\ Cells \in Nat \ {0}
  /\ \A u \in Users : Pages[u] \subseteq Seq(1..Cells)
  /\ DiskCalls \in Nat /\ DiskLoads \in Nat

\* A request has at least one segment, behind its first page there is memory, and
\* no page is in two requests: the kernel locks the pages it does I/O with.
ASSUME PagesAssumption ==
  /\ \A u \in Users : \A pages \in Pages[u] :
       /\ Len(pages) > 0 /\ pages[1] + Len(pages) - 1 <= Cells
       /\ \A i, j \in DOMAIN pages : i # j => pages[i] # pages[j]
  /\ \A u, v \in Users : u # v =>
       \A p \in Pages[u], q \in Pages[v] :
         \A i \in DOMAIN p, j \in DOMAIN q : p[i] # q[j]

VARIABLES blkDriver,    \* the driver loaded, or "none"
          my_diskbuffer,
          cells,
          bio,          \* the request of each user
          diskCalls, diskLoads,
          leftover,     \* what unloaded drivers have left behind
          hadBioDriver, \* blk_mid or blk_hard has been loaded
          stored,       \* stored[i]: what the last write of sector i handed over
          scattered     \* blk_simp was given pages that do not adjoin

diskVars == <<blkDriver, my_diskbuffer, cells, bio, diskCalls, diskLoads, leftover,
              hadBioDriver, stored, scattered>>

Drivers == {"blk_simp", "blk_mid", "blk_hard"}
Zeroes == [i \in 1..Sectors |-> 0]
NoBio == [at |-> "none", rw |-> "READ", sector |-> 1, pages |-> <<>>, data |-> <<>>,
          next |-> 1, during |-> {}]

\* The content of the sectors of request b, of disk content d.
SectorsOf(b, d) == [j \in DOMAIN b.pages |-> d[b.sector + j - 1]]

\* Requests under way have seen the disk as it is now.
Witnessed(bios, d) ==
  [u \in Users |-> IF bios[u].at = "sent"
                   THEN [bios[u] EXCEPT !.during = @ \cup {SectorsOf(bios[u], d)}]
                   ELSE bios[u]]

-----------------------------------------------------------------------------
(* The kernel hands over a request inside the disk's capacity.             *)
SendBio(u, rw, sector, pages) ==
  /\ blkDriver # "none" /\ bio[u].at # "sent" /\ diskCalls < DiskCalls
  /\ sector + Len(pages) - 1 <= Sectors
  /\ diskCalls' = diskCalls + 1
  /\ LET b == [at |-> "sent", rw |-> rw, sector |-> sector, pages |-> pages,
               data |-> [j \in DOMAIN pages |-> cells[pages[j]]],
               next |-> 1, during |-> {}]
     IN  bio' = [bio EXCEPT ![u] = [b EXCEPT !.during = {SectorsOf(b, my_diskbuffer)}]]
  /\ UNCHANGED <<blkDriver, my_diskbuffer, cells, diskLoads, leftover, hadBioDriver,
                 stored, scattered>>

Done(u, bios, result) ==
  [bios EXCEPT ![u].at = result]

\* What a write of request b leaves in stored, segments j0 to j1 of it.
Noted(b, j0, j1) ==
  [i \in 1..Sectors |-> IF i - b.sector + 1 \in j0..j1
                        THEN b.data[i - b.sector + 1] ELSE stored[i]]

-----------------------------------------------------------------------------
(* blk_simp                                                                *)

\* Mutation of AtSector: the position is taken for a number of bytes.
AtByte(b, j) == j

\* my_diskbuffer+(blk_rq_pos(req)<<9), and my_base_addr of segment j
AtSector(b, j) == b.sector + j - 1

Adjoining(pages) == \A j \in DOMAIN pages : pages[j] = pages[1] + j - 1

\* One request of my_do_queue.  The elevator chooses which; all its bytes are
\* copied from or to the memory that begins with its first segment.
my_do_queue(u) ==
  LET b == bio[u]
      n == Len(b.pages)
  IN
  /\ blkDriver = "blk_simp" /\ b.at = "sent"
  /\ IF b.rw = "WRITE"
     THEN /\ my_diskbuffer' = [i \in 1..Sectors |->
               IF \E j \in 1..n : AtSector(b, j) = i
               THEN cells[b.pages[1] + (CHOOSE j \in 1..n : AtSector(b, j) = i) - 1]
               ELSE my_diskbuffer[i]]
          /\ stored' = Noted(b, 1, n)
          /\ UNCHANGED cells
     ELSE /\ cells' = [c \in 1..Cells |->
               IF c - b.pages[1] + 1 \in 1..n
               THEN my_diskbuffer[AtSector(b, c - b.pages[1] + 1)] ELSE cells[c]]
          /\ UNCHANGED <<my_diskbuffer, stored>>
  /\ bio' = Witnessed(Done(u, bio, "done"), my_diskbuffer')
  /\ scattered' = (scattered \/ ~Adjoining(b.pages))
  /\ UNCHANGED <<blkDriver, diskCalls, diskLoads, leftover, hadBioDriver>>

-----------------------------------------------------------------------------
(* blk_mid and blk_hard                                                    *)

\* bio_rw(bio): read-ahead is a case of its own that blk_mid does not have.
Supported(b) == b.rw # "READA" \/ blkDriver = "blk_hard"

\* One round of the loop of my_make_queue, and bio_endio after the last.
my_make_queue(u) ==
  LET b == bio[u]
      i == AtSector(b, b.next)
      c == b.pages[b.next]
      bios == [bio EXCEPT ![u].next = @ + 1,
                          ![u].at = IF b.next = Len(b.pages) THEN "done" ELSE "sent"]
  IN
  /\ blkDriver \in {"blk_mid", "blk_hard"} /\ b.at = "sent" /\ Supported(b)
  /\ IF b.rw = "WRITE"
     THEN /\ my_diskbuffer' = [my_diskbuffer EXCEPT ![i] = cells[c]]
          /\ stored' = Noted(b, b.next, b.next)
          /\ UNCHANGED cells
     ELSE /\ cells' = [cells EXCEPT ![c] = my_diskbuffer[i]]
          /\ UNCHANGED <<my_diskbuffer, stored>>
  /\ bio' = Witnessed(bios, my_diskbuffer')
  /\ UNCHANGED <<blkDriver, diskCalls, diskLoads, leftover, hadBioDriver, scattered>>

\* The default of the switch: the page stays mapped.
MakeQueueFails(u) ==
  /\ blkDriver \in {"blk_mid", "blk_hard"} /\ bio[u].at = "sent" /\ ~Supported(bio[u])
  /\ bio' = Done(u, bio, "EIO")
  /\ leftover' = leftover \cup {"page mapped"}
  /\ UNCHANGED <<blkDriver, my_diskbuffer, cells, diskCalls, diskLoads, hadBioDriver,
                 stored, scattered>>

-----------------------------------------------------------------------------
(* Module init and exit.                                                   *)

my_blk_init(d) ==
  /\ blkDriver = "none" /\ diskLoads < DiskLoads
  /\ blkDriver' = d
  /\ diskLoads' = diskLoads + 1
  /\ my_diskbuffer' = Zeroes /\ stored' = Zeroes
  /\ hadBioDriver' = (hadBioDriver \/ d # "blk_simp")
  /\ UNCHANGED <<cells, bio, diskCalls, leftover, scattered>>

\* The disk is in use while a request is; blk_mid and blk_hard register the
\* major number again instead of giving it back and keep their queue.
my_blk_exit ==
  /\ blkDriver # "none" /\ \A u \in Users : bio[u].at # "sent"
  /\ blkDriver' = "none"
  /\ leftover' = IF blkDriver = "blk_simp" THEN leftover
                 ELSE leftover \cup {"major", "queue"}
  /\ bio' = [u \in Users |-> NoBio]
  /\ UNCHANGED <<my_diskbuffer, cells, diskCalls, diskLoads, hadBioDriver, stored,
                 scattered>>

-----------------------------------------------------------------------------
DiskInit ==
  /\ blkDriver = "none" /\ my_diskbuffer = Zeroes /\ stored = Zeroes
  /\ cells = [c \in 1..Cells |-> c]
  /\ bio = [u \in Users |-> NoBio]
  /\ diskCalls = 0 /\ diskLoads = 0
  /\ leftover = {} /\ hadBioDriver = FALSE /\ scattered = FALSE

DiskNext ==
  \/ \E u \in Users :
       \/ \E rw \in {"READ", "READA", "WRITE"}, i \in 1..Sectors, pages \in Pages[u] :
             SendBio(u, rw, i, pages)
       \/ my_do_queue(u) \/ my_make_queue(u) \/ MakeQueueFails(u)
  \/ \E d \in Drivers : my_blk_init(d)
  \/ my_blk_exit

-----------------------------------------------------------------------------
DiskTypeOK ==
  /\ blkDriver \in Drivers \cup {"none"}
  /\ my_diskbuffer \in [1..Sectors -> 0..Cells] /\ cells \in [1..Cells -> 0..Cells]
  /\ \A u \in Users : /\ bio[u].at \in {"none", "sent", "done", "EIO"}
                      /\ bio[u].next \in 1 .. Len(bio[u].pages) + 1
  /\ diskCalls \in 0..DiskCalls /\ diskLoads \in 0..DiskLoads
  /\ leftover \subseteq {"page mapped", "major", "queue"}
  /\ hadBioDriver \in BOOLEAN /\ scattered \in BOOLEAN

\* Every sector holds what the last request that wrote it handed over when it
\* was sent, and what is nobody's page keeps its content, as long as blk_simp,
\* which copies a whole request from or to its first page, is given pages that
\* adjoin.
WritesHold == ~scattered => my_diskbuffer = stored

OthersKept ==
  ~scattered => \A c \in 1..Cells :
    (\A u \in Users : \A pages \in Pages[u] : \A j \in DOMAIN pages : pages[j] # c)
      => cells[c] = c

\* What a read has brought is what its sectors held while it was under way: all
\* at one moment in blk_simp, each at a moment of its own in the others, which
\* copy segment by segment between the segments of others.
ReadsHold ==
  ~scattered => \A u \in Users :
    LET b == bio[u]
        got == [j \in DOMAIN b.pages |-> cells[b.pages[j]]]
    IN  b.at = "done" /\ b.rw # "WRITE" =>
          IF blkDriver = "blk_simp"
          THEN got \in b.during
          ELSE \A j \in DOMAIN got : \E seen \in b.during : got[j] = seen[j]

\* Only blk_mid and blk_hard leave anything behind.
LeftByBioDrivers == leftover # {} => hadBioDriver

DiskKeepsData == WritesHold /\ OthersKept /\ ReadsHold /\ LeftByBioDrivers
=============================================================================
