------------------------------- MODULE Files --------------------------------
(***************************************************************************)
(* Inodes and directories (fs.c) and the system calls on them (sysfile.c): *)
(* open, create, mkdir, link, unlink, chdir and close, made by processes   *)
(* that run at the same time.  What a call still has to do is a sequence   *)
(* of steps, todo; a step ends where the code gives up or waits for the    *)
(* sleep lock of an inode.  A path is a name in the root or in the current *)
(* directory; the blocks of files are in FileData.                         *)
(***************************************************************************)
EXTENDS Integers, FiniteSets, Sequences

CONSTANTS Proc, Inum, Name, NFILE,
          Calls          \* bound: the system calls that are made

ROOTINO == 1
NoInum == 0
NoOne == "none"
NoCopy == [type |-> "none", nlink |-> -1]     \* ip->valid = 0

VARIABLES
  dinode,          \* on disk: type ("free", "file", "dir", "dev") and nlink
  entry, dotdot,   \* the contents of directories
  ref, cache,      \* icache: reference counts; type and nlink, if valid
  owner,           \* who has ip->lock
  fd, cwd,         \* a descriptor and the current directory of each process
  todo, panicked,
  raced            \* history: inodes put by two processes at the same time

disk == <<dinode, entry, dotdot>>
vars == <<disk, ref, cache, owner, fd, cwd, todo, panicked, raced>>

Dir(i) == dinode[i].type = "dir"
Least(S) == CHOOSE i \in S : \A j \in S : i <= j

(* mkfs has made the root directory, and every process is in it.           *)
Init ==
  /\ dinode = [i \in Inum |-> [type |-> IF i = ROOTINO THEN "dir" ELSE "free",
                               nlink |-> IF i = ROOTINO THEN 1 ELSE 0]]
  /\ entry = [i \in Inum |-> [m \in Name |-> NoInum]]
  /\ dotdot = [i \in Inum |-> IF i = ROOTINO THEN ROOTINO ELSE NoInum]
  /\ ref = [i \in Inum |-> IF i = ROOTINO THEN Cardinality(Proc) ELSE 0]
  /\ cache = [i \in Inum |-> NoCopy] /\ owner = [i \in Inum |-> NoOne]
  /\ fd = [p \in Proc |-> NoInum] /\ cwd = [p \in Proc |-> ROOTINO]
  /\ todo = [p \in Proc |-> <<>>] /\ panicked = "no" /\ raced = {}
-----------------------------------------------------------------------------
(* The step that process p is at, and the steps after it.                  *)
At(p, step) == panicked = "no" /\ todo[p] # <<>> /\ todo[p][1][1] = step
Arg(p, j) == todo[p][1][j + 1]
Then(p, steps) == todo' = [todo EXCEPT ![p] = steps \o Tail(@)]

(* Steps that several calls are made of.                                   *)
Put(i) == << <<"iput", i>> >>
UnlockPut(i) == << <<"iunlock", i>>, <<"iput", i>> >>
Lock(i) == << <<"ilock", i>> >>

(* iget and idup: an entry that nobody has is made afresh.                 *)
iget(i) ==
  /\ ref' = [ref EXCEPT ![i] = @ + 1]
  /\ cache' = IF ref[i] = 0 THEN [cache EXCEPT ![i] = NoCopy] ELSE cache

(* iupdate: the cache is written through.                                  *)
iupdate(i, d) ==
  dinode' = [dinode EXCEPT ![i] = d] /\ cache' = [cache EXCEPT ![i] = d]

Panic(why) == panicked' = why /\ UNCHANGED todo

(* ilock reads the inode from disk if the copy is not valid.               *)
ilock(p) ==
  /\ At(p, "ilock")
  /\ LET i == Arg(p, 1)
     IN /\ owner[i] = NoOne /\ owner' = [owner EXCEPT ![i] = p]
        /\ cache' = IF cache[i] = NoCopy THEN [cache EXCEPT ![i] = dinode[i]] ELSE cache
        /\ IF cache[i] = NoCopy /\ dinode[i].type = "free" THEN Panic("no type")
           ELSE Then(p, <<>>) /\ UNCHANGED panicked
  /\ UNCHANGED <<disk, ref, fd, cwd, raced>>

iunlock(p) ==
  /\ At(p, "iunlock")
  /\ owner' = [owner EXCEPT ![Arg(p, 1)] = NoOne] /\ Then(p, <<>>)
  /\ UNCHANGED <<disk, ref, cache, fd, cwd, panicked, raced>>

(* The processes that have left the inode to others and will now drop      *)
(* their reference.                                                        *)
Putting(i) == {q \in Proc : At(q, "unref") /\ Arg(q, 1) = i}

Last(i) == cache[i].nlink = 0 /\ ref[i] = 1

(* iput: an inode without links that nobody else refers to is truncated    *)
(* and freed on disk, while its lock is held.                              *)
iput(p) ==
  /\ At(p, "iput")
  /\ LET i == Arg(p, 1)
     IN /\ owner[i] = NoOne
        /\ IF Last(i)
           THEN /\ owner' = [owner EXCEPT ![i] = p]
                /\ entry' = [entry EXCEPT ![i] = [m \in Name |-> NoInum]]
                /\ dotdot' = [dotdot EXCEPT ![i] = NoInum]
                /\ iupdate(i, [type |-> "free", nlink |-> 0])
                /\ Then(p, << <<"freed", i>> >>)
                /\ raced' = raced \ {i}
           ELSE /\ Then(p, << <<"unref", i>> >>)
                /\ raced' = IF cache[i].nlink = 0 /\ Putting(i) # {} /\ ref[i] = 1 + Cardinality(Putting(i))
                            THEN raced \cup {i} ELSE raced
                /\ UNCHANGED <<disk, cache, owner>>
  /\ UNCHANGED <<ref, fd, cwd, panicked>>

(* Faulty variant of freed: the copy stays valid.                          *)
freedStaysValid(p) ==
  /\ At(p, "freed")
  /\ UNCHANGED cache
  /\ owner' = [owner EXCEPT ![Arg(p, 1)] = NoOne]
  /\ Then(p, << <<"unref", Arg(p, 1)>> >>)
  /\ UNCHANGED <<disk, ref, fd, cwd, panicked, raced>>

(* The copy is no longer valid and the lock is given back.  Meanwhile      *)
(* ialloc may have given the inode to somebody else.                       *)
freed(p) ==
  /\ At(p, "freed")
  /\ cache' = [cache EXCEPT ![Arg(p, 1)] = NoCopy]
  /\ owner' = [owner EXCEPT ![Arg(p, 1)] = NoOne]
  /\ Then(p, << <<"unref", Arg(p, 1)>> >>)
  /\ UNCHANGED <<disk, ref, fd, cwd, panicked, raced>>

unref(p) ==
  /\ At(p, "unref")
  /\ ref' = [ref EXCEPT ![Arg(p, 1)] = @ - 1] /\ Then(p, <<>>)
  /\ UNCHANGED <<disk, cache, owner, fd, cwd, panicked, raced>>
-----------------------------------------------------------------------------
(* A call begins: namex takes a reference to the directory it starts from. *)
Start(p) == {ROOTINO, cwd[p]}

Call(p, d, steps) ==
  /\ panicked = "no" /\ todo[p] = <<>>
  /\ iget(d) /\ todo' = [todo EXCEPT ![p] = Lock(d) \o << steps >>]
  /\ UNCHANGED <<disk, owner, fd, cwd, panicked, raced>>

sys_open(p)   == \E d \in Start(p), m \in Name \cup {".."} : Call(p, d, <<"namei", d, m, "open">>)
sys_chdir(p)  == \E d \in Start(p), m \in Name \cup {".."} : Call(p, d, <<"namei", d, m, "chdir">>)
sys_link(p)   == \E d \in Start(p), m \in Name : Call(p, d, <<"namei", d, m, "link">>)
sys_unlink(p) == \E d \in Start(p), m \in Name : Call(p, d, <<"unlink", d, m>>)
sys_creat(p)  == \E d \in Start(p), m \in Name : Call(p, d, <<"create", d, m, "file">>)
sys_mkdir(p)  == \E d \in Start(p), m \in Name : Call(p, d, <<"create", d, m, "dir">>)
sys_mknod(p)  == \E d \in Start(p), m \in Name : Call(p, d, <<"create", d, m, "dev">>)

sys_close(p) ==
  /\ panicked = "no" /\ todo[p] = <<>> /\ fd[p] # NoInum
  /\ fd' = [fd EXCEPT ![p] = NoInum] /\ todo' = [todo EXCEPT ![p] = Put(fd[p])]
  /\ UNCHANGED <<disk, ref, cache, owner, cwd, panicked, raced>>

(* dirlookup                                                               *)
Entry(d, m) == IF m = ".." THEN dotdot[d] ELSE entry[d][m]

(* The rest of namei, with the directory locked.                           *)
namei(p) ==
  /\ At(p, "namei")
  /\ LET d == Arg(p, 1)
         i == Entry(d, Arg(p, 2))
     IN IF i = NoInum THEN Then(p, UnlockPut(d)) /\ UNCHANGED <<ref, cache>>
        ELSE iget(i) /\ Then(p, UnlockPut(d) \o Lock(i) \o << <<Arg(p, 3), i>> >>)
  /\ UNCHANGED <<disk, owner, fd, cwd, panicked, raced>>

(* Faulty variant of open: the reference is kept when there is no file     *)
(* structure.                                                              *)
openKeepsRef(p) ==
  /\ At(p, "open")
  /\ LET i == Arg(p, 1)
     IN IF fd[p] = NoInum /\ Cardinality({q \in Proc : fd[q] # NoInum}) < NFILE
        THEN fd' = [fd EXCEPT ![p] = i] /\ Then(p, << <<"iunlock", i>> >>)
        ELSE Then(p, << <<"iunlock", i>> >>) /\ UNCHANGED fd
  /\ UNCHANGED <<disk, ref, cache, owner, cwd, panicked, raced>>

(* The rest of sys_open: a file structure and a descriptor, if there are.  *)
open(p) ==
  /\ At(p, "open")
  /\ LET i == Arg(p, 1)
     IN IF fd[p] = NoInum /\ Cardinality({q \in Proc : fd[q] # NoInum}) < NFILE
        THEN fd' = [fd EXCEPT ![p] = i] /\ Then(p, << <<"iunlock", i>> >>)
        ELSE Then(p, UnlockPut(i)) /\ UNCHANGED fd
  /\ UNCHANGED <<disk, ref, cache, owner, cwd, panicked, raced>>

chdir(p) ==
  /\ At(p, "chdir")
  /\ LET i == Arg(p, 1)
     IN Then(p, IF cache[i].type # "dir" THEN UnlockPut(i)
                ELSE << <<"iunlock", i>>, <<"iput", cwd[p]>>, <<"cwd", i>> >>)
  /\ UNCHANGED <<disk, ref, cache, owner, fd, cwd, panicked, raced>>

setcwd(p) ==
  /\ At(p, "cwd") /\ cwd' = [cwd EXCEPT ![p] = Arg(p, 1)] /\ Then(p, <<>>)
  /\ UNCHANGED <<disk, ref, cache, owner, fd, panicked, raced>>
-----------------------------------------------------------------------------
AddLinks(i, k) == [cache[i] EXCEPT !.nlink = @ + k]

(* sys_link counts the new link before it makes the entry.                 *)
link(p) ==
  /\ At(p, "link")
  /\ LET i == Arg(p, 1)
     IN IF cache[i].type = "dir"
        THEN Then(p, UnlockPut(i)) /\ UNCHANGED <<dinode, ref, cache>>
        ELSE \E d \in Start(p), m \in Name :
               /\ iupdate(i, AddLinks(i, 1)) /\ ref' = [ref EXCEPT ![d] = @ + 1]
               /\ Then(p, << <<"iunlock", i>>, <<"ilock", d>>, <<"dirlink", d, m, i>> >>)
  /\ UNCHANGED <<entry, dotdot, owner, fd, cwd, panicked, raced>>

(* The entry, or back again: an entry of that name is looked up and put    *)
(* with the directory locked.                                              *)
dirlink(p) ==
  /\ At(p, "dirlink")
  /\ LET d == Arg(p, 1)
         m == Arg(p, 2)
         i == Arg(p, 3)
     IN IF entry[d][m] = NoInum
        THEN /\ entry' = [entry EXCEPT ![d][m] = i]
             /\ Then(p, UnlockPut(d) \o Put(i)) /\ UNCHANGED <<ref, cache>>
        ELSE /\ iget(entry[d][m])
             /\ Then(p, Put(entry[d][m]) \o UnlockPut(d) \o Lock(i)
                          \o << <<"unlinked", i>> >> \o UnlockPut(i))
             /\ UNCHANGED entry
  /\ UNCHANGED <<dinode, dotdot, owner, fd, cwd, panicked, raced>>

(* One link less.                                                          *)
unlinked(p) ==
  /\ At(p, "unlinked")
  /\ iupdate(Arg(p, 1), AddLinks(Arg(p, 1), -1)) /\ Then(p, <<>>)
  /\ UNCHANGED <<entry, dotdot, ref, owner, fd, cwd, panicked, raced>>

(* Faulty variant of unlink: the directory is unlocked in between.         *)
unlinkUnlocks(p) ==
  /\ At(p, "unlink")
  /\ LET d == Arg(p, 1)
         i == entry[d][Arg(p, 2)]
     IN IF i = NoInum THEN Then(p, UnlockPut(d)) /\ UNCHANGED <<ref, cache>>
        ELSE iget(i) /\ Then(p, << <<"iunlock", d>> >> \o Lock(i) \o Lock(d)
                                   \o << <<"remove", d, Arg(p, 2), i>> >>)
  /\ UNCHANGED <<disk, owner, fd, cwd, panicked, raced>>

(* sys_unlink with the directory locked.                                   *)
unlink(p) ==
  /\ At(p, "unlink")
  /\ LET d == Arg(p, 1)
         i == entry[d][Arg(p, 2)]
     IN IF i = NoInum THEN Then(p, UnlockPut(d)) /\ UNCHANGED <<ref, cache>>
        ELSE iget(i) /\ Then(p, Lock(i) \o << <<"remove", d, Arg(p, 2), i>> >>)
  /\ UNCHANGED <<disk, owner, fd, cwd, panicked, raced>>

isdirempty(i) == \A m \in Name : entry[i][m] = NoInum

(* sys_unlink with both inodes locked.  The directory is put before the    *)
(* links are counted, with the inode still locked.                         *)
remove(p) ==
  /\ At(p, "remove")
  /\ LET d == Arg(p, 1)
         i == Arg(p, 3)
     IN IF cache[i].nlink < 1 THEN Panic("nlink") /\ UNCHANGED <<dinode, entry, cache>>
        ELSE IF cache[i].type = "dir" /\ ~ isdirempty(i)
        THEN Then(p, UnlockPut(i) \o UnlockPut(d)) /\ UNCHANGED <<dinode, entry, cache, panicked>>
        ELSE /\ entry' = [entry EXCEPT ![d][Arg(p, 2)] = NoInum]
             /\ Then(p, UnlockPut(d) \o << <<"unlinked", i>> >> \o UnlockPut(i))
             /\ IF cache[i].type = "dir" THEN iupdate(d, AddLinks(d, -1))
                ELSE UNCHANGED <<dinode, cache>>
             /\ UNCHANGED panicked
  /\ UNCHANGED <<dotdot, ref, owner, fd, cwd, raced>>

(* create with the directory locked: the inode of that name, or ialloc.    *)
create(p) ==
  /\ At(p, "create")
  /\ LET d == Arg(p, 1)
         m == Arg(p, 2)
         free == {i \in Inum : dinode[i].type = "free"}
         i == IF entry[d][m] # NoInum THEN entry[d][m] ELSE Least(free)
     IN IF entry[d][m] # NoInum
        THEN /\ iget(i)
             /\ Then(p, UnlockPut(d) \o Lock(i) \o << <<"exists", i, Arg(p, 3)>> >>)
             /\ UNCHANGED <<dinode, panicked>>
        ELSE IF free = {} THEN Panic("no inodes") /\ UNCHANGED <<dinode, ref, cache>>
        ELSE /\ dinode' = [dinode EXCEPT ![i] = [type |-> Arg(p, 3), nlink |-> 0]] /\ iget(i)
             /\ Then(p, Lock(i) \o << <<"new", d, m, i>> >>) /\ UNCHANGED panicked
  /\ UNCHANGED <<entry, dotdot, owner, fd, cwd, raced>>

exists(p) ==
  /\ At(p, "exists")
  /\ LET i == Arg(p, 1)
     IN Then(p, IF Arg(p, 2) = "file" /\ cache[i].type = "file" THEN << <<"open", i>> >>
                ELSE UnlockPut(i))
  /\ UNCHANGED <<disk, ref, cache, owner, fd, cwd, panicked, raced>>

(* A new inode: its link, the links of a directory, and the entry.  The    *)
(* links of the directory itself are not looked at.                        *)
new(p) ==
  /\ At(p, "new")
  /\ LET d == Arg(p, 1)
         i == Arg(p, 3)
         made == [x \in Inum |-> IF x = i THEN AddLinks(i, 1)
                    ELSE IF x = d /\ cache[i].type = "dir" THEN AddLinks(d, 1) ELSE cache[x]]
     IN /\ cache' = made
        /\ dinode' = [dinode EXCEPT ![i] = made[i], ![d] = made[d]]
        /\ dotdot' = IF cache[i].type = "dir" THEN [dotdot EXCEPT ![i] = d] ELSE dotdot
        /\ entry' = [entry EXCEPT ![d][Arg(p, 2)] = i]
        /\ Then(p, UnlockPut(d) \o (IF cache[i].type = "file" THEN << <<"open", i>> >> ELSE UnlockPut(i)))
  /\ UNCHANGED <<ref, owner, fd, cwd, panicked, raced>>

Next ==
  \E p \in Proc :
    \/ ilock(p) \/ iunlock(p) \/ iput(p) \/ freed(p) \/ unref(p)
    \/ namei(p) \/ open(p) \/ chdir(p) \/ setcwd(p) \/ link(p) \/ dirlink(p)
    \/ unlink(p) \/ remove(p) \/ unlinked(p) \/ create(p) \/ exists(p) \/ new(p)
    \/ ("open" \in Calls /\ sys_open(p)) \/ ("creat" \in Calls /\ sys_creat(p))
    \/ ("link" \in Calls /\ sys_link(p)) \/ ("unlink" \in Calls /\ sys_unlink(p))
    \/ ("mkdir" \in Calls /\ sys_mkdir(p)) \/ ("chdir" \in Calls /\ sys_chdir(p))
    \/ ("mknod" \in Calls /\ sys_mknod(p))
    \/ sys_close(p)

Spec == Init /\ [][Next]_vars
-----------------------------------------------------------------------------
InCall(p) == todo[p] # <<>>
Waits(p) ==     \* for the lock of which inode
  IF InCall(p) /\ Head(todo[p])[1] \in {"ilock", "iput"} THEN Head(todo[p])[2] ELSE NoInum

(* "another concurrent link/unlink/create test, to look for deadlocks"     *)
(* (usertests.c:855): no two processes wait for locks that the other has.  *)
NoDeadlock ==
  \A p, q \in Proc : Waits(p) # NoInum /\ Waits(q) # NoInum
                       => ~ (owner[Waits(p)] = q /\ owner[Waits(q)] = p)

Entries(i) == {<<d, m>> \in Inum \X Name : entry[d][m] = i}
Links(i) ==     \* its entries, and the ".." of directories in it
  Cardinality(Entries(i)) + Cardinality({d \in Inum : dotdot[d] = i /\ Entries(d) # {}})

InChdir(p) == \E k \in DOMAIN todo[p] : todo[p][k][1] = "cwd"

(* Whatever calls are under way, nothing that has a name or is in use is   *)
(* freed: every entry of a directory names an inode that exists and counts *)
(* at least as many links as entries; open files and current directories   *)
(* stay though their last name is removed (a process in the middle of      *)
(* chdir has put its old directory).                                       *)
InodesKept ==
  /\ \A i \in Inum : Links(i) > 0 => dinode[i].type # "free" /\ dinode[i].nlink >= Links(i)
  /\ \A p \in Proc : /\ fd[p] # NoInum => dinode[fd[p]].type # "free"
                     /\ Dir(cwd[p]) \/ InChdir(p)

(* However calls overlap, unlink never finds an inode whose links are      *)
(* already gone ("unlink: nlink < 1"), and a lookup comes to a freed inode *)
(* ("ilock: no type") only by the ".." of a directory that was removed     *)
(* while it was somebody's current directory.                              *)
LookupsExplained ==
  /\ panicked # "nlink"
  /\ panicked = "no type" => \E p \in Proc : cwd[p] # ROOTINO /\ Entries(cwd[p]) = {}

Quiet == panicked = "no" /\ \A p \in Proc : ~ InCall(p)

(* When no call is under way the reference counts are exactly the open     *)
(* files and current directories, and no lock is held: whatever failed on  *)
(* the way, every path gives back what it took.  An inode without a name   *)
(* and without a user is freed on disk (fs.c:319), unless two processes    *)
(* put it at the same time: each finds the reference of the other and      *)
(* leaves the inode to it.                                                 *)
NothingLeft ==
  Quiet => \A i \in Inum :
    /\ owner[i] = NoOne
    /\ ref[i] = Cardinality({p \in Proc : fd[p] = i}) + Cardinality({p \in Proc : cwd[p] = i})
    /\ dinode[i].nlink = 0 /\ ref[i] = 0 => dinode[i].type = "free" \/ i \in raced
=============================================================================
