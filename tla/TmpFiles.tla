------------------------------ MODULE TmpFiles ------------------------------
(***************************************************************************)
(* The cache of temporary files (file/tmpfiles_cache.cpp) and the          *)
(* connections that use it.  A file not needed any more is kept open as a  *)
(* spare, up to max_spare_files of them; the next one that is asked for is *)
(* a spare if there is any.  Three kinds of connection hold files in their *)
(* _M_tmpfile: a client while it receives a large payload, a proxy or      *)
(* FastCGI connection while it receives a large response, which it then    *)
(* passes on to its client.                                                *)
(*                                                                         *)
(* A file is its number, which is its name on disk, and its descriptor.    *)
(***************************************************************************)
EXTENDS Integers, Sequences, FiniteSets

CONSTANTS Holder,      \* connections
          Fd,          \* descriptors the process may have open
          Reserved,    \* those taken before any file: the listener, epoll...
          MaxSpare,    \* max_spare_files
          NameBound,   \* bound on the number of files created
          None

ASSUME TmpFilesAssumption ==
    /\ IsFiniteSet(Fd)
    /\ Reserved \subseteq Fd /\ Reserved # {}
    /\ MaxSpare \in Nat /\ NameBound \in Nat
    /\ None \notin Fd

VARIABLES inUse,   \* _M_in_use.files, its first used elements
          spare,   \* _M_spare_files.files, its first used elements
          next,    \* _M_count
          disk,    \* the numbers of the files in the payload directory
          held     \* the connections' _M_tmpfile

vars == <<inUse, spare, next, disk, held>>

File == [count : Nat, fd : Fd]

\* tmpfiles_cache::create gives _M_in_use one element per descriptor.
MaxOpenFiles == Cardinality(Fd)

Fds(s) == {s[k].fd : k \in DOMAIN s}
Names(s) == {s[k].count : k \in DOMAIN s}

TypeOK ==
    /\ inUse \in Seq(File)
    /\ spare \in Seq(File)
    /\ next \in Nat
    /\ disk \subseteq Nat
    /\ held \in [Holder -> Fd \cup {None}]

Init ==
    /\ inUse = <<>>
    /\ spare = <<>>
    /\ next = 0
    /\ disk = {}
    /\ held = [h \in Holder |-> None]

----------------------------------------------------------------------------
(* tmpfiles_cache::open, into the _M_tmpfile of a connection without one.  *)

\* The spare file is handed out but also stays where it was.
KeepsTheSpare(h) ==
    /\ held[h] = None
    /\ spare # <<>>
    /\ inUse' = Append(inUse, spare[Len(spare)])
    /\ held' = [held EXCEPT ![h] = spare[Len(spare)].fd]
    /\ UNCHANGED <<spare, next, disk>>

\* There is a temporary file available: the last spare one is reused.
OpenSpare(h) ==
    LET file == spare[Len(spare)]
    IN  /\ held[h] = None
        /\ spare # <<>>
        /\ spare' = [k \in 1 .. (Len(spare) - 1) |-> spare[k]]
        /\ inUse' = Append(inUse, file)
        /\ held' = [held EXCEPT ![h] = file.fd]
        /\ UNCHANGED <<next, disk>>

\* None is: a file with a new number is created, on a descriptor of the
\* kernel's choice among those not open.
OpenNew(h) ==
    /\ held[h] = None
    /\ spare = <<>>
    /\ next < NameBound
    /\ \E fd \in Fd \ (Reserved \cup Fds(inUse)) :
          /\ inUse' = Append(inUse, [count |-> next, fd |-> fd])
          /\ held' = [held EXCEPT ![h] = fd]
    /\ disk' = disk \cup {next}
    /\ next' = next + 1
    /\ UNCHANGED spare

\* It cannot be created: the number is used up all the same.
OpenFails(h) ==
    /\ held[h] = None
    /\ spare = <<>>
    /\ next < NameBound
    /\ next' = next + 1
    /\ UNCHANGED <<inUse, spare, disk, held>>

----------------------------------------------------------------------------
(* tmpfiles_cache::close, on the way to _M_tmpfile = -1.                   *)

\* The last element fills the hole.
WithoutPlace(s, i) ==
    [k \in 1 .. (Len(s) - 1) |-> IF k = i THEN s[Len(s)] ELSE s[k]]

\* The file is closed but stays in the directory.
ForgetsUnlink(file) ==
    \/ /\ Len(spare) = MaxSpare
       /\ UNCHANGED <<spare, disk>>
    \/ /\ Len(spare) # MaxSpare
       /\ spare' = Append(spare, file)
       /\ UNCHANGED disk

\* Too many spare files: the file is closed and removed.  Otherwise it is
\* kept for reuse.
Retire(file) ==
    \/ /\ Len(spare) = MaxSpare
       /\ disk' = disk \ {file.count}
       /\ UNCHANGED spare
    \/ /\ Len(spare) # MaxSpare
       /\ spare' = Append(spare, file)
       /\ UNCHANGED disk

Close(h) ==
    /\ held[h] # None
    /\ \E i \in 1 .. Len(inUse) :
          /\ inUse[i].fd = held[h]
          /\ \A j \in 1 .. (i - 1) : inUse[j].fd # held[h]
          /\ inUse' = WithoutPlace(inUse, i)
          /\ Retire(inUse[i])
    /\ held' = [held EXCEPT ![h] = None]
    /\ UNCHANGED next

\* The backend connection keeps its own reference.
PassOnAndKeep(g, h) ==
    /\ held[g] # None
    /\ held[h] = None
    /\ held' = [held EXCEPT ![h] = held[g]]
    /\ UNCHANGED <<inUse, spare, next, disk>>

(***************************************************************************)
(* RESPONSE_COMPLETED_STATE of the proxy and FastCGI connections: the file *)
(* with the response becomes the client's.  The client's own file is       *)
(* closed once the payload in it has been sent to the backend, before any  *)
(* response is read, so it has none then.                                  *)
(***************************************************************************)
PassOn(g, h) ==
    /\ held[g] # None
    /\ held[h] = None
    /\ held' = [held EXCEPT ![h] = held[g], ![g] = None]
    /\ UNCHANGED <<inUse, spare, next, disk>>

Next ==
    \E h \in Holder :
        \/ OpenSpare(h)
        \/ OpenNew(h)
        \/ OpenFails(h)
        \/ Close(h)
        \/ \E g \in Holder : PassOn(g, h)

Spec == Init /\ [][Next]_vars

----------------------------------------------------------------------------
(***************************************************************************)
(* Every connection's file is in the cache's table of files in use, where  *)
(* close will find it, and the table holds no file that no connection      *)
(* would ever give back.                                                   *)
(***************************************************************************)
NothingLost ==
    /\ \A h \in Holder : held[h] # None =>
          \E k \in 1 .. Len(inUse) : inUse[k].fd = held[h]
    /\ \A k \in 1 .. Len(inUse) : \E h \in Holder : held[h] = inUse[k].fd

(***************************************************************************)
(* No two entries of the cache, in use or spare, share a descriptor or a   *)
(* name: writing through one never reaches the file of another, and        *)
(* O_TRUNC never empties a file that is still in use.                      *)
(***************************************************************************)
Distinct(s) == \A j, k \in 1 .. Len(s) :
                  s[j].fd = s[k].fd \/ s[j].count = s[k].count => j = k

Apart(s, t) == \A j \in 1 .. Len(s) : \A k \in 1 .. Len(t) :
                  s[j].fd # t[k].fd /\ s[j].count # t[k].count

NoAliasing == Distinct(inUse) /\ Distinct(spare) /\ Apart(inUse, spare)

(***************************************************************************)
(* The payload directory holds the files the cache knows and nothing else: *)
(* what is closed for good is also removed.                                *)
(***************************************************************************)
DirectoryClean == disk = Names(inUse) \cup Names(spare)

(***************************************************************************)
(* Both tables stay inside the arrays tmpfiles_cache::create allocates,    *)
(* also while open writes its new element behind the last one in use.      *)
(***************************************************************************)
TablesFit == Len(spare) <= MaxSpare /\ Len(inUse) < MaxOpenFiles

(***************************************************************************)
(* The cache lends each file to one connection at a time.                  *)
(***************************************************************************)
Abs == INSTANCE FilePool WITH lent <- held

LendsToOneAtATime == Abs!Spec

----------------------------------------------------------------------------
(* The inductive invariant behind these.                                   *)

OneHolder == \A g, h \in Holder : held[g] = held[h] /\ held[g] # None => g = h

NamesUsedUp == /\ \A k \in 1 .. Len(inUse) : inUse[k].count < next
               /\ \A k \in 1 .. Len(spare) : spare[k].count < next

NotReserved == /\ \A k \in 1 .. Len(inUse) : inUse[k].fd \notin Reserved
               /\ \A k \in 1 .. Len(spare) : spare[k].fd \notin Reserved

SpareBounded == Len(spare) <= MaxSpare

IInv ==
    /\ TypeOK
    /\ NothingLost
    /\ OneHolder
    /\ NoAliasing
    /\ NamesUsedUp
    /\ NotReserved
    /\ SpareBounded
=============================================================================
