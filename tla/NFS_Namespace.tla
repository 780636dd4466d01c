---------------------------- MODULE NFS_Namespace ----------------------------
(***************************************************************************)
(* What the file system promises about the names in the exported tree,     *)
(* seen from the threads that change it and without handles, RPCs or       *)
(* failures: a mutation takes effect at most once and in one step, and     *)
(* nothing else changes the tree.  It does so between the call of its      *)
(* callback and its return, unless it was given up on (a connection broke, *)
(* a client died): then it may still happen later, but no more than once.  *)
(* Whether the caller is told the truth about it is another matter         *)
(* (SuccessIsReal of NFS_Client_FS).                                       *)
(***************************************************************************)
EXTENDS NFS_Proto

VARIABLES
  entry,  \* the inode each file path resolves to
  dirs,   \* the directories that exist
  born,   \* every inode that was ever allocated
  phase,  \* where each thread is with its mutation
  wish,   \* the mutation of a thread that is "pending"
  late    \* the mutations that were given up on, each with its thread

names == <<entry, dirs, born>>
nvars == <<entry, dirs, born, phase, wish, late>>

Mutations == {"create", "unlink", "mkdir", "rmdir", "rename"}
NoWish    == [op |-> "none", path |-> Root, to |-> Root]
Wishes    == [op : Mutations, path : Paths, to : Paths]

NInit ==
  /\ entry \in [Files -> Inodes \cup {NoInode}]
  /\ dirs \in SUBSET Dirs
  /\ born = {entry[f] : f \in Files} \ {NoInode}
  /\ phase = [t \in Threads |-> "idle"]
  /\ wish = [t \in Threads |-> NoWish]
  /\ late = {}

-----------------------------------------------------------------------------
(* The effects, as POSIX has them.                                         *)

Create(f) ==
  /\ f \in Files /\ entry[f] = NoInode
  /\ \E i \in Inodes \ born : /\ entry' = [entry EXCEPT ![f] = i]
                              /\ born' = born \cup {i}
  /\ UNCHANGED dirs

Remove(f) ==
  /\ f \in Files /\ entry[f] # NoInode
  /\ entry' = [entry EXCEPT ![f] = NoInode]
  /\ UNCHANGED <<dirs, born>>

MakeDir(d) ==
  /\ d \in Dirs \ dirs
  /\ dirs' = dirs \cup {d}
  /\ UNCHANGED <<entry, born>>

RemoveDir(d) ==
  /\ d \in dirs
  /\ \A n \in Names : entry[<<d, n>>] = NoInode
  /\ dirs' = dirs \ {d}
  /\ UNCHANGED <<entry, born>>

MoveFile(f, g) ==
  /\ f \in Files /\ g \in Files /\ entry[f] # NoInode
  /\ entry' = [entry EXCEPT ![f] = NoInode, ![g] = entry[f]]
  /\ UNCHANGED <<dirs, born>>

\* Only an empty directory is replaced: a rename of a directory loses no file.
MoveDir(d, e) ==
  /\ d \in dirs /\ e \in Dirs
  /\ \A n \in Names : entry[<<e, n>>] = NoInode
  /\ entry' = [f \in Files |-> IF Dir(f) = e THEN entry[<<d, f[2]>>]
                               ELSE IF Dir(f) = d THEN NoInode
                               ELSE entry[f]]
  /\ dirs' = (dirs \ {d}) \cup {e}
  /\ UNCHANGED born

Effect(m) ==
  \/ m.op = "create" /\ Create(m.path)
  \/ m.op = "unlink" /\ Remove(m.path)
  \/ m.op = "mkdir"  /\ MakeDir(m.path)
  \/ m.op = "rmdir"  /\ RemoveDir(m.path)
  \/ m.op = "rename" /\ (MoveFile(m.path, m.to) \/ MoveDir(m.path, m.to))

-----------------------------------------------------------------------------
Ask(t) ==
  /\ phase[t] = "idle"
  /\ phase' = [phase EXCEPT ![t] = "pending"]
  /\ \E m \in Wishes : wish' = [wish EXCEPT ![t] = m]
  /\ UNCHANGED <<names, late>>

\* From here on the mutation is over, with or without its effect.
Settle(T) ==
  /\ \A t \in T : phase[t] = "pending"
  /\ phase' = [t \in Threads |-> IF t \in T THEN "over" ELSE phase[t]]
  /\ wish' = [t \in Threads |-> IF t \in T THEN NoWish ELSE wish[t]]

TakeEffect(t) == Settle({t}) /\ Effect(wish[t]) /\ UNCHANGED late

Pending(T) == {<<t, wish[t]>> : t \in {u \in T : phase[u] = "pending"}}

\* What was given up on, before or now, may come to nothing.
GiveUp(T) == late' \subseteq late \cup Pending(T) /\ UNCHANGED names

\* The mutations of several threads can be lost at once, with their connection.
Abandon(T) == Settle(T) /\ GiveUp(T)

TakeEffectLate(m) ==
  /\ Effect(m[2])
  /\ late' = late \ {m}
  /\ UNCHANGED <<phase, wish>>

Answer(t) ==
  /\ phase[t] = "over"
  /\ phase' = [phase EXCEPT ![t] = "idle"]
  /\ UNCHANGED <<names, wish, late>>

\* The threads of a client process die with it.
Vanish(T) ==
  /\ phase' = [t \in Threads |-> IF t \in T THEN "idle" ELSE phase[t]]
  /\ wish' = [t \in Threads |-> IF t \in T THEN NoWish ELSE wish[t]]
  /\ GiveUp(T)

NNext ==
  \/ \E t \in Threads : Ask(t) \/ TakeEffect(t) \/ Answer(t)
  \/ \E m \in late : TakeEffectLate(m)
  \/ \E T \in SUBSET Threads : Abandon(T)
  \/ \E c \in Clients : Vanish({c} \X Workers)

NSpec == NInit /\ [][NNext]_nvars
=============================================================================
