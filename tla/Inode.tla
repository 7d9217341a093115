-------------------------------- MODULE Inode --------------------------------
(***************************************************************************)
(* The inode cache of src/fs/inode.rs and the system calls that open,      *)
(* create, close and unlink files in one directory.                        *)
(*                                                                         *)
(* ICACHE.meta (a spinlock) guards every slot's inum and refs; each slot's *)
(* InodeData (valid, the cached dinode) is under its own sleeplock.  get   *)
(* and dup and the first half of put run under meta.  put of the last      *)
(* reference to an unlinked inode drops meta, frees the inode on disk      *)
(* (itype Empty, truncate, update), clears valid, drops the sleeplock and  *)
(* only then takes meta again to decrement refs: three steps here.         *)
(*                                                                         *)
(* The directory is the root directory; its own cache slot is held by     *)
(* every process's cwd and never recycled, so it is left out of the slots  *)
(* and its data sleeplock is dirLk.  A dinode is [itype, nlink]; data      *)
(* blocks, sizes and the log's transactions are not modelled (Log.tla and  *)
(* Bcache.tla model those layers).  Every file is a regular file, so      *)
(* sys_link's refusal of a directory never fires.                         *)
(***************************************************************************)
EXTENDS Naturals, FiniteSets, FiniteSetsExt

CONSTANTS
  Threads,     \* processes making file system calls
  Names,       \* names in the directory
  Inums,       \* on-disk inode numbers 1 .. n
  NINODE,      \* consts::fs::NINODE, slots of the inode cache
  DebugBuild,  \* TRUE: debug_assert! is compiled in
  None

Slots == 1 .. NINODE
Types == {"empty", "file"}
Dinode == [itype : Types, nlink : 0 .. Cardinality(Names) + Cardinality(Threads)]
ASSUME /\ Inums \subseteq Nat \ {0} /\ NINODE \in Nat \ {0}
       /\ None \notin Slots /\ DebugBuild \in BOOLEAN

VARIABLES
  disk,      \* inum -> the DiskInode on disk (as the buffer cache holds it)
  dir,       \* name -> inum of its DirEntry, 0 when there is none
  dirLk,     \* holder of the directory's data sleeplock
  minum,     \* InodeMeta.inum of each slot
  refs,      \* InodeMeta.refs
  vinum,     \* InodeData.valid: the inum whose dinode is cached, 0 = None
  cdi,       \* InodeData.dinode
  lk,        \* holder of each slot's data sleeplock
  pc,        \* thread -> control location
  fd,        \* thread -> slot of the Inode its open file holds
  tmp,       \* thread -> slot of the Inode an unfinished call holds
  arg,       \* thread -> the name an unfinished create / unlink works on
  panicked

vars == <<disk, dir, dirLk, minum, refs, vinum, cdi, lk, pc, fd, tmp, arg,
          panicked>>

Init ==
  /\ disk = [n \in Inums |-> [itype |-> "empty", nlink |-> 0]]
  /\ dir = [nm \in Names |-> 0]
  /\ dirLk = None
  /\ minum = [i \in Slots |-> 0]
  /\ refs = [i \in Slots |-> 0]
  /\ vinum = [i \in Slots |-> 0]
  /\ cdi = [i \in Slots |-> [itype |-> "empty", nlink |-> 0]]
  /\ lk = [i \in Slots |-> None]
  /\ pc = [t \in Threads |-> "idle"]
  /\ fd = [t \in Threads |-> None]
  /\ tmp = [t \in Threads |-> None]
  /\ arg = [t \in Threads |-> None]
  /\ panicked = "none"

Live == panicked = "none"

\* InodeCache::get: a slot caching inum with refs > 0, else the first slot
\* with refs = 0; either way refs + 1 and inum set.  None: "not enough".
GetSlot(n) ==
  LET hit  == {i \in Slots : minum[i] = n /\ refs[i] > 0}
      free == {i \in Slots : refs[i] = 0}
  IN  IF hit # {} THEN Min(hit) ELSE IF free # {} THEN Min(free) ELSE None

\* Mutants: get forgets refs += 1; get sets refs = 1 as for a new slot.
getNoInc(s, n) ==
  /\ minum' = [minum EXCEPT ![s] = n]
  /\ refs' = refs

getReset(s, n) ==
  /\ minum' = [minum EXCEPT ![s] = n]
  /\ refs' = [refs EXCEPT ![s] = 1]

get(s, n) ==
  /\ minum' = [minum EXCEPT ![s] = n]
  /\ refs' = [refs EXCEPT ![s] = @ + 1]

\* Inode::lock once the sleeplock is free: the dinode read from disk when
\* valid is None (and the panic on an Empty one), else the cached one.
\* Mutant: lock never reads the dinode from disk.
LoadedNoRead(i) == cdi[i]

Loaded(i) == IF vinum[i] = 0 THEN disk[minum[i]] ELSE cdi[i]
LoadedInum(i) == IF vinum[i] = 0 THEN minum[i] ELSE vinum[i]
LockPanics(i) == vinum[i] = 0 /\ disk[minum[i]].itype = "empty"

\* inode_alloc (fs/block.rs): the first inum whose on-disk itype is Empty,
\* claimed by try_alloc (zeroed, itype set) in the same locked buffer.
FreeInums == {n \in Inums : disk[n].itype = "empty"}

\* InodeData::update: the cached dinode written to the inum held in valid.
update(v, d) == disk' = [disk EXCEPT ![v] = d]

\* dir_lookup: the entry's inum (0 when the name is absent).
dir_lookup(nm) == dir[nm]

\* dir_link: a free DirEntry set to the name and inum (the name is absent:
\* the caller looked it up with the directory locked).
dir_link(nm, n) == dir' = [dir EXCEPT ![nm] = n]

Panic(msg) ==
  /\ panicked' = msg
  /\ UNCHANGED <<disk, dir, dirLk, minum, refs, vinum, cdi, lk, pc, fd, tmp,
                 arg>>

\* Mutant: put frees on the last reference without looking at nlink.
FreesInodeNoLinkCheck(valid, d) == valid

\* put's test on the last reference: the cached dinode is valid and has no
\* links left, so the inode is freed.
FreesInode(valid, d) == valid /\ d.nlink = 0

Freed(d) == [d EXCEPT !.itype = "empty"]

\* File::open (fs/file/mod.rs) of an existing name, by ICACHE.namei or by
\* create's lookup (reuse): under the directory's sleeplock dir_lookup finds
\* the entry and takes an Inode for it with get.
OpenLookup(t, nm) ==
  /\ Live /\ pc[t] = "idle" /\ fd[t] = None /\ dirLk = None
  /\ dir_lookup(nm) # 0
  /\ LET s == GetSlot(dir_lookup(nm)) IN
       IF s = None THEN Panic("inode: not enough")
       ELSE /\ get(s, dir_lookup(nm))
            /\ tmp' = [tmp EXCEPT ![t] = s]
            /\ pc' = [pc EXCEPT ![t] = "o_lock"]
            /\ UNCHANGED <<disk, dir, dirLk, vinum, cdi, lk, fd, arg, panicked>>

\* InodeCache::create, name not found: with the directory locked,
\* inode_alloc claims an inum and get takes a slot for it.
CreateAlloc(t, nm) ==
  /\ Live /\ pc[t] = "idle" /\ fd[t] = None /\ dirLk = None
  /\ dir_lookup(nm) = 0
  /\ CASE FreeInums = {} -> Panic("not enough inode to alloc")
       [] GetSlot(Min(FreeInums)) = None -> Panic("inode: not enough")
       [] OTHER ->
            LET n == Min(FreeInums)
                s == GetSlot(n)
            IN  /\ disk' = [disk EXCEPT ![n] = [itype |-> "file", nlink |-> 0]]
                /\ get(s, n)
                /\ dirLk' = t
                /\ tmp' = [tmp EXCEPT ![t] = s]
                /\ arg' = [arg EXCEPT ![t] = nm]
                /\ pc' = [pc EXCEPT ![t] = "c_lock"]
                /\ UNCHANGED <<dir, vinum, cdi, lk, fd, panicked>>

\* The rest of create: lock the new inode, nlink = 1, update (to the inum
\* held in valid), debug_assert on its itype, dir_link the inum inode_alloc
\* returned, then drop the directory's and the inode's sleeplocks.
CreateLink(t) ==
  LET i == tmp[t]
      d == [Loaded(i) EXCEPT !.nlink = 1]
      v == LoadedInum(i)
  IN
  /\ Live /\ pc[t] = "c_lock" /\ lk[i] = None
  /\ CASE LockPanics(i) -> Panic("inode: lock an empty inode")
       [] DebugBuild /\ d.itype # "file" -> Panic("create: itype")
       [] OTHER ->
            /\ vinum' = [vinum EXCEPT ![i] = v]
            /\ cdi' = [cdi EXCEPT ![i] = d]
            /\ update(v, d)
            /\ dir_link(arg[t], minum[i])
            /\ dirLk' = None
            /\ arg' = [arg EXCEPT ![t] = None]
            /\ pc' = [pc EXCEPT ![t] = "o_lock"]
            /\ UNCHANGED <<minum, refs, lk, fd, tmp, panicked>>

\* File::open after the lookup: lock the inode, panic on an Empty itype,
\* drop the lock; the File keeps the Inode (sys_open stores it in a fd).
FileOpenLock(t) ==
  LET i == tmp[t] IN
  /\ Live /\ pc[t] = "o_lock" /\ lk[i] = None
  /\ CASE LockPanics(i) -> Panic("inode: lock an empty inode")
       [] Loaded(i).itype = "empty" -> Panic("empty inode")
       [] OTHER ->
            /\ vinum' = [vinum EXCEPT ![i] = LoadedInum(i)]
            /\ cdi' = [cdi EXCEPT ![i] = Loaded(i)]
            /\ fd' = [fd EXCEPT ![t] = i]
            /\ tmp' = [tmp EXCEPT ![t] = None]
            /\ pc' = [pc EXCEPT ![t] = "idle"]
            /\ UNCHANGED <<disk, dir, dirLk, minum, refs, lk, arg, panicked>>

\* sys_close drops the File and with it the Inode: InodeCache::put under
\* meta.  On the last reference it takes the slot's sleeplock while holding
\* meta (a contended sleeplock would sleep with two locks held, which sched
\* refuses); an inode still linked, or never loaded, is released at once
\* (valid cleared, refs - 1).  An unlinked one is freed: meta dropped,
\* itype Empty, truncate and update write it back, still under the
\* sleeplock.
Close(t) ==
  LET i == fd[t] IN
  /\ Live /\ pc[t] = "idle" /\ fd[t] # None
  /\ CASE refs[i] = 1 /\ lk[i] # None -> Panic("sched(): cpu hold multi locks")
       [] refs[i] = 1 /\ FreesInode(vinum[i] # 0, cdi[i]) ->
            /\ cdi' = [cdi EXCEPT ![i] = Freed(cdi[i])]
            /\ update(vinum[i], Freed(cdi[i]))
            /\ lk' = [lk EXCEPT ![i] = t]
            /\ pc' = [pc EXCEPT ![t] = "put_drop"]
            /\ UNCHANGED <<dir, dirLk, minum, refs, vinum, fd, tmp, arg,
                           panicked>>
       [] refs[i] = 1 ->
            /\ vinum' = [vinum EXCEPT ![i] = 0]
            /\ refs' = [refs EXCEPT ![i] = 0]
            /\ fd' = [fd EXCEPT ![t] = None]
            /\ UNCHANGED <<disk, dir, dirLk, minum, cdi, lk, pc, tmp, arg,
                           panicked>>
       [] OTHER ->
            /\ refs' = [refs EXCEPT ![i] = @ - 1]
            /\ fd' = [fd EXCEPT ![t] = None]
            /\ UNCHANGED <<disk, dir, dirLk, minum, vinum, cdi, lk, pc, tmp,
                           arg, panicked>>

\* Mutant: the freeing path drops the sleeplock without valid.take().
PutDropKeepValid(t) ==
  LET i == fd[t] IN
  /\ Live /\ pc[t] = "put_drop"
  /\ lk' = [lk EXCEPT ![i] = None]
  /\ pc' = [pc EXCEPT ![t] = "put_end"]
  /\ UNCHANGED <<disk, dir, dirLk, minum, refs, vinum, cdi, fd, tmp, arg,
                 panicked>>

\* put, freeing path: valid.take() and drop of the sleeplock.
PutDrop(t) ==
  LET i == fd[t] IN
  /\ Live /\ pc[t] = "put_drop"
  /\ vinum' = [vinum EXCEPT ![i] = 0]
  /\ lk' = [lk EXCEPT ![i] = None]
  /\ pc' = [pc EXCEPT ![t] = "put_end"]
  /\ UNCHANGED <<disk, dir, dirLk, minum, refs, cdi, fd, tmp, arg, panicked>>

\* put, freeing path: meta taken again, refs - 1, debug_assert_eq!(refs, 0).
PutEnd(t) ==
  LET i == fd[t] IN
  /\ Live /\ pc[t] = "put_end"
  /\ IF DebugBuild /\ refs[i] - 1 # 0
       THEN Panic("put: refs not 0")
       ELSE /\ refs' = [refs EXCEPT ![i] = @ - 1]
            /\ fd' = [fd EXCEPT ![t] = None]
            /\ pc' = [pc EXCEPT ![t] = "idle"]
            /\ UNCHANGED <<disk, dir, dirLk, minum, vinum, cdi, lk, tmp, arg,
                           panicked>>

\* sys_unlink: namei_parent, lock the directory, then dir_unlink's
\* dir_lookup takes an Inode for the entry with get.
UnlinkLookup(t, nm) ==
  /\ Live /\ pc[t] = "idle" /\ dirLk = None
  /\ dir_lookup(nm) # 0
  /\ LET s == GetSlot(dir_lookup(nm)) IN
       IF s = None THEN Panic("inode: not enough")
       ELSE /\ get(s, dir_lookup(nm))
            /\ dirLk' = t
            /\ tmp' = [tmp EXCEPT ![t] = s]
            /\ arg' = [arg EXCEPT ![t] = nm]
            /\ pc' = [pc EXCEPT ![t] = "u_lock"]
            /\ UNCHANGED <<disk, dir, vinum, cdi, lk, fd, panicked>>

\* The rest of dir_unlink: lock the entry's inode, the nlink panic, clear
\* the entry, nlink - 1, update; then the Inode is dropped (put, with the
\* directory still locked, so no create can run in its freeing window) and
\* sys_unlink unlocks the directory.
UnlinkEntry(t) ==
  LET i  == tmp[t]
      v  == LoadedInum(i)
      d  == [Loaded(i) EXCEPT !.nlink = @ - 1]
      fr == refs[i] = 1 /\ FreesInode(TRUE, d)
      d2 == IF fr THEN Freed(d) ELSE d
  IN
  /\ Live /\ pc[t] = "u_lock" /\ lk[i] = None
  /\ CASE LockPanics(i) -> Panic("inode: lock an empty inode")
       [] Loaded(i).nlink < 1 -> Panic("entry inode's link is zero")
       [] OTHER ->
            /\ dir' = [dir EXCEPT ![arg[t]] = 0]
            /\ update(v, d2)
            /\ cdi' = [cdi EXCEPT ![i] = d2]
            /\ vinum' = [vinum EXCEPT ![i] = IF refs[i] = 1 THEN 0 ELSE v]
            /\ refs' = [refs EXCEPT ![i] = @ - 1]
            /\ dirLk' = None
            /\ tmp' = [tmp EXCEPT ![t] = None]
            /\ arg' = [arg EXCEPT ![t] = None]
            /\ pc' = [pc EXCEPT ![t] = "idle"]
            /\ UNCHANGED <<minum, lk, fd, panicked>>

\* dir_link's dir_lookup of a name already present: get an Inode for the
\* entry and drop it again (put) before returning Err.  On a slot already
\* referenced that changes nothing; a free slot takes the inum and put,
\* the last reference, releases it (valid cleared) or, on a cached
\* unlinked dinode, frees it.  The directory's sleeplock is held, so no
\* other call can reach the slot in put's window: one step.
LookupPut(n) ==
  LET s == GetSlot(n) IN
  CASE s = None -> Panic("inode: not enough")
    [] refs[s] > 0 -> UNCHANGED <<disk, minum, vinum, cdi, panicked>>
    [] FreesInode(vinum[s] # 0, cdi[s]) ->
         /\ minum' = [minum EXCEPT ![s] = n]
         /\ cdi' = [cdi EXCEPT ![s] = Freed(cdi[s])]
         /\ update(vinum[s], Freed(cdi[s]))
         /\ vinum' = [vinum EXCEPT ![s] = 0]
         /\ UNCHANGED panicked
    [] OTHER -> /\ minum' = [minum EXCEPT ![s] = n]
                /\ vinum' = [vinum EXCEPT ![s] = 0]
                /\ UNCHANGED <<disk, cdi, panicked>>

\* sys_link: namei(old) locks the directory, looks the name up, takes an
\* Inode for it with get and unlocks the directory.  An absent name is an
\* Err with nothing changed.
LinkLookup(t, old, new) ==
  /\ Live /\ pc[t] = "idle" /\ fd[t] = None /\ dirLk = None
  /\ dir_lookup(old) # 0
  /\ LET s == GetSlot(dir_lookup(old)) IN
       IF s = None THEN Panic("inode: not enough")
       ELSE /\ get(s, dir_lookup(old))
            /\ tmp' = [tmp EXCEPT ![t] = s]
            /\ arg' = [arg EXCEPT ![t] = new]
            /\ pc' = [pc EXCEPT ![t] = "l_lock"]
            /\ UNCHANGED <<disk, dir, dirLk, vinum, cdi, lk, fd, panicked>>

\* sys_link: lock the old inode, link (nlink + 1), update, unlock.
LinkInc(t) ==
  LET i == tmp[t]
      d == [Loaded(i) EXCEPT !.nlink = @ + 1]
  IN
  /\ Live /\ pc[t] = "l_lock" /\ lk[i] = None
  /\ IF LockPanics(i) THEN Panic("inode: lock an empty inode")
     ELSE /\ vinum' = [vinum EXCEPT ![i] = LoadedInum(i)]
          /\ cdi' = [cdi EXCEPT ![i] = d]
          /\ update(LoadedInum(i), d)
          /\ pc' = [pc EXCEPT ![t] = "l_dir"]
          /\ UNCHANGED <<dir, dirLk, minum, refs, lk, fd, tmp, arg, panicked>>

\* sys_link: namei_parent(new) is the directory; lock it and dir_link the
\* new name to the old inum.  Done: unlock, drop both Inodes (the old one
\* keeps a link, so put only decrements or releases it).  A name already
\* there is an Err: revert_link follows with the directory still locked.
LinkDir(t) ==
  LET i == tmp[t] IN
  /\ Live /\ pc[t] = "l_dir" /\ dirLk = None
  /\ \/ /\ dir_lookup(arg[t]) = 0
        /\ dir_link(arg[t], minum[i])
        /\ refs' = [refs EXCEPT ![i] = @ - 1]
        /\ vinum' = [vinum EXCEPT ![i] = IF refs[i] = 1 THEN 0 ELSE @]
        /\ tmp' = [tmp EXCEPT ![t] = None]
        /\ arg' = [arg EXCEPT ![t] = None]
        /\ pc' = [pc EXCEPT ![t] = "idle"]
        /\ UNCHANGED <<disk, dirLk, minum, cdi, lk, fd, panicked>>
     \/ /\ dir_lookup(arg[t]) # 0
        /\ LookupPut(dir_lookup(arg[t]))
        /\ dirLk' = t
        /\ pc' = [pc EXCEPT ![t] = "l_revert"]
        /\ UNCHANGED <<dir, refs, lk, fd, tmp, arg>>

\* revert_link, under the directory's sleeplock: lock the old inode,
\* unlink (nlink - 1), update, unlock, drop the Inode (put frees it on the
\* last reference if no link is left); then the directory is unlocked.
LinkRevert(t) ==
  LET i  == tmp[t]
      d  == [cdi[i] EXCEPT !.nlink = @ - 1]
      fr == refs[i] = 1 /\ FreesInode(TRUE, d)
      d2 == IF fr THEN Freed(d) ELSE d
  IN
  /\ Live /\ pc[t] = "l_revert" /\ lk[i] = None
  /\ update(vinum[i], d2)
  /\ cdi' = [cdi EXCEPT ![i] = d2]
  /\ vinum' = [vinum EXCEPT ![i] = IF refs[i] = 1 THEN 0 ELSE @]
  /\ refs' = [refs EXCEPT ![i] = @ - 1]
  /\ dirLk' = None
  /\ tmp' = [tmp EXCEPT ![t] = None]
  /\ arg' = [arg EXCEPT ![t] = None]
  /\ pc' = [pc EXCEPT ![t] = "idle"]
  /\ UNCHANGED <<dir, minum, lk, fd, panicked>>

Next ==
  \E t \in Threads :
    \/ \E nm \in Names : OpenLookup(t, nm) \/ CreateAlloc(t, nm)
                         \/ UnlinkLookup(t, nm)
    \/ CreateLink(t) \/ FileOpenLock(t) \/ Close(t)
    \/ PutDrop(t) \/ PutEnd(t) \/ UnlinkEntry(t)
    \/ \E old, new \in Names : old # new /\ LinkLookup(t, old, new)
    \/ LinkInc(t) \/ LinkDir(t) \/ LinkRevert(t)

Spec == Init /\ [][Next]_vars

-----------------------------------------------------------------------------
TypeOK ==
  /\ disk \in [Inums -> Dinode]
  /\ dir \in [Names -> Inums \cup {0}]
  /\ dirLk \in Threads \cup {None}
  /\ minum \in [Slots -> Inums \cup {0}]
  /\ refs \in [Slots -> 0 .. 2 * Cardinality(Threads)]
  /\ vinum \in [Slots -> Inums \cup {0}]
  /\ cdi \in [Slots -> Dinode]
  /\ lk \in [Slots -> Threads \cup {None}]
  /\ fd \in [Threads -> Slots \cup {None}]
  /\ tmp \in [Threads -> Slots \cup {None}]

\* InodeMeta.refs counts the live Inode handles of its slot: every get,
\* dup, put and put's freeing path (which keeps refs at 1 while it holds
\* the slot's sleeplock and drops it after retaking meta) leaves refs equal
\* to the Inodes and dup'd handles that reference the slot.  Checked in
\* the behaviours where no get takes the slot again inside that freeing
\* path; MCInode_stale.cfg explores those.
RefsAccurate ==
  \A i \in Slots : refs[i] = Cardinality({t \in Threads : fd[t] = i})
                             + Cardinality({t \in Threads : tmp[t] = i})

\* Inode::lock trusts InodeData.valid: a slot that holds a dinode holds the
\* dinode of the inum its InodeMeta names, whatever get reassigned.
ValidMatchesInum ==
  \A i \in Slots : vinum[i] # 0 => vinum[i] = minum[i]

\* A dinode's nlink counts the directory entries naming it plus the
\* sys_link calls that have incremented it and not yet linked the new name
\* or reverted; every entry names an allocated inode (else a later open
\* panics "empty inode", and an nlink that is too low frees an inode a
\* name still reaches).
NlinkAccurate ==
  \A n \in Inums :
    LET links == Cardinality({nm \in Names : dir[nm] = n})
                 + Cardinality({t \in Threads : pc[t] \in {"l_dir", "l_revert"}
                                                /\ minum[tmp[t]] = n})
    IN  IF disk[n].itype = "file" THEN disk[n].nlink = links ELSE links = 0

NoPanic == panicked = "none"
=============================================================================
