----------------------------- MODULE MCStorage ------------------------------
(***************************************************************************)
(* The layers of the file system (log.c, bio.c, ide.c, fs.c, sysfile.c,    *)
(* file.c), each on instances of its own.  The modules share no state: a   *)
(* behaviour is that of one unit, chosen at the start, while the others    *)
(* rest.  The constants of the configuration are those of the unit "log".  *)
(***************************************************************************)
EXTENDS Log, TLC

CONSTANTS p1, p2, b1, b2, b3, b4, x, y, f1, f2

VARIABLES
  unit,
  list, blockno, flags, refcnt, owner, data, idequeue, command, bdisk, bpc, bbuf, bpanicked,
  dinode, entry, dotdot, ref, icache, iowner, fd, cwd, todo, ipanicked, raced,
  bitmap, inode, saved, fdata, a, fowner, fpc, ip, off, src, tot, logged, bytes, fpanicked

bvars == <<list, blockno, flags, refcnt, owner, data, idequeue, command, bdisk, bpc, bbuf,
           bpanicked>>
ivars == <<dinode, entry, dotdot, ref, icache, iowner, fd, cwd, todo, ipanicked, raced>>
fvars == <<bitmap, inode, saved, fdata, a, fowner, fpc, ip, off, src, tot, logged, bytes,
           fpanicked>>

(* Fewer buffers than the processes and a pinned block need; and as many.  *)
(* What is put into a block differs from what is there at first (Initial). *)
Kind == b1 :> "indirect" @@ b2 :> "bitmap" @@ b3 :> "log" @@ b4 :> "data"
Few == INSTANCE BufferCache WITH
  Proc <- {p1, p2}, NBUF <- 2, Block <- {b1, b2, b3}, Data <- {1}, MaxPinned <- 1,
  disk <- bdisk, pc <- bpc, buf <- bbuf, panicked <- bpanicked
Enough == INSTANCE BufferCache WITH
  Proc <- {p1}, NBUF <- 3, Block <- {b1, b2, b3, b4}, Data <- {0}, MaxPinned <- 1,
  disk <- bdisk, pc <- bpc, buf <- bbuf, panicked <- bpanicked

(* Two names for files; one name for directories; files that are opened.   *)
Links == INSTANCE Files WITH
  Proc <- {p1, p2}, Inum <- {1, 2, 3}, Name <- {x, y}, NFILE <- 1,
  Calls <- {"creat", "unlink", "link"},
  cache <- icache, owner <- iowner, panicked <- ipanicked
Dirs == INSTANCE Files WITH
  Proc <- {p1, p2}, Inum <- {1, 2, 3}, Name <- {x}, NFILE <- 1,
  Calls <- {"mkdir", "unlink", "chdir"},
  cache <- icache, owner <- iowner, panicked <- ipanicked
Opens == INSTANCE Files WITH
  Proc <- {p1, p2}, Inum <- {1, 2, 3}, Name <- {x, y}, NFILE <- 1,
  Calls <- {"mknod", "unlink", "open"},
  cache <- icache, owner <- iowner, panicked <- ipanicked

(* A disk that one file can fill.                                          *)
D == INSTANCE FileData WITH
  Proc <- {p1, p2}, File <- {f1, f2}, Block <- 1 .. 5, BSIZE <- 2, NDIRECT <- 1, NINDIRECT <- 3,
  MAXOPBLOCKS <- 6, UINT <- 10, Writes <- {<<1, 2, 3, 1, 2, 3, 1, 2>>}, Offsets <- {0, 3},
  dinode <- saved, data <- fdata, owner <- fowner, pc <- fpc, panicked <- fpanicked
-----------------------------------------------------------------------------
(* A unit that rests; the log rests in its initial state.                  *)
CacheRests ==
  /\ list = NoData /\ blockno = NoData /\ flags = NoData /\ refcnt = NoData /\ owner = NoData
  /\ data = NoData /\ idequeue = NoData /\ command = NoData /\ bdisk = NoData /\ bpc = NoData
  /\ bbuf = NoData /\ bpanicked = NoData

NamesRest ==
  /\ dinode = NoData /\ entry = NoData /\ dotdot = NoData /\ ref = NoData /\ icache = NoData
  /\ iowner = NoData /\ fd = NoData /\ cwd = NoData /\ todo = NoData /\ ipanicked = NoData
  /\ raced = NoData

DataRests ==
  /\ bitmap = NoData /\ inode = NoData /\ saved = NoData /\ fdata = NoData /\ a = NoData
  /\ fowner = NoData /\ fpc = NoData /\ ip = NoData /\ off = NoData /\ src = NoData
  /\ tot = NoData /\ logged = NoData /\ bytes = NoData /\ fpanicked = NoData

AllInit ==
  /\ Init
  /\ \/ unit = "log" /\ CacheRests /\ NamesRest /\ DataRests
     \/ unit = "few" /\ Few!Init /\ NamesRest /\ DataRests
     \/ unit = "enough" /\ Enough!Init /\ NamesRest /\ DataRests
     \/ unit = "links" /\ Links!Init /\ CacheRests /\ DataRests
     \/ unit = "dirs" /\ Dirs!Init /\ CacheRests /\ DataRests
     \/ unit = "opens" /\ Opens!Init /\ CacheRests /\ DataRests
     \/ unit = "data" /\ D!Init /\ CacheRests /\ NamesRest

AllNext ==
  \/ unit = "log" /\ Next /\ UNCHANGED <<unit, bvars, ivars, fvars>>
  \/ unit = "few" /\ Few!Next /\ UNCHANGED <<unit, vars, ivars, fvars>>
  \/ unit = "enough" /\ Enough!Next /\ UNCHANGED <<unit, vars, ivars, fvars>>
  \/ unit = "links" /\ Links!Next /\ UNCHANGED <<unit, vars, bvars, fvars>>
  \/ unit = "dirs" /\ Dirs!Next /\ UNCHANGED <<unit, vars, bvars, fvars>>
  \/ unit = "opens" /\ Opens!Next /\ UNCHANGED <<unit, vars, bvars, fvars>>
  \/ unit = "data" /\ D!Next /\ UNCHANGED <<unit, vars, bvars, ivars>>

AllSpec == AllInit /\ [][AllNext]_<<unit, vars, bvars, ivars, fvars>>

Symmetry == Permutations({p1, p2})
-----------------------------------------------------------------------------
(* QuietDurable, NoPanic and ImplementsAtomicDisk are those of Log.        *)

(* Whoever sleeps for the lock of a buffer or for the disk will be woken,  *)
(* and the disk works on the first request of the queue (sleeplock.c,      *)
(* iderw and ideintr).                                                     *)
SleepersServed ==
  (unit = "few" => Few!SleepersServed) /\ (unit = "enough" => Enough!SleepersServed)

(* No ring of processes waits, each with a buffer that bmap, itrunc,       *)
(* install_trans or write_log holds, for the buffer of the next one.       *)
NoRing == unit = "few" => Few!NoRing

(* bget never panics for want of buffers if there are two for every        *)
(* process beside those that the log has pinned (bio.c:92).                *)
BuffersSuffice == unit = "enough" => Enough!BuffersSuffice

(* Recycling, pinning, the queue and the interrupts cannot be seen: who    *)
(* has a block has it alone and finds there what was last put into it.     *)
ImplementsBlockStore ==
  /\ unit = "few" => Few!S!Init
  /\ [][unit = "few" => UNCHANGED Few!S!vars \/ Few!S!Next]_bvars

(* Whatever calls are under way, no inode is freed that has a name, is     *)
(* open or is a current directory, and links count at least the entries    *)
(* (sys_link, sys_unlink, create, iput).                                   *)
InodesKept ==
  /\ unit = "links" => Links!InodesKept
  /\ unit = "dirs" => Dirs!InodesKept
  /\ unit = "opens" => Opens!InodesKept

(* unlink never finds an inode without links, and ilock finds a freed      *)
(* inode only by the ".." of a removed directory.                          *)
LookupsExplained ==
  /\ unit = "links" => Links!LookupsExplained
  /\ unit = "dirs" => Dirs!LookupsExplained
  /\ unit = "opens" => Opens!LookupsExplained

(* When no call is under way, reference counts are exactly the open files  *)
(* and current directories, and no lock is held: every path through open,  *)
(* create, link and unlink gives back what it took, and iput has freed     *)
(* what nobody can reach (but for fs.c:326).                               *)
NothingLeft ==
  /\ unit = "links" => Links!NothingLeft
  /\ unit = "dirs" => Dirs!NothingLeft
  /\ unit = "opens" => Opens!NothingLeft

(* readi returns the bytes that writei last put there and none beyond the  *)
(* end, for every offset and length, those that overflow together          *)
(* included.                                                               *)
ReadsBack == unit = "data" => D!ReadsBack

(* A block that balloc has given out is named in one place, any other in   *)
(* none, whatever files are written and truncated at a time (bmap and      *)
(* itrunc).                                                                *)
BlocksExact == unit = "data" => D!BlocksExact

(* What bmap and writei changed in an inode is on disk when it is          *)
(* unlocked, though only a file that grows is saved (fs.c:491).            *)
InodesSaved == unit = "data" => D!InodesSaved

(* A part of a filewrite logs fewer blocks than begin_op has reserved      *)
(* (file.c:127).                                                           *)
PartsFit == unit = "data" => D!PartsFit
=============================================================================
