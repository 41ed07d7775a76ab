------------------------------ MODULE AccessLog ------------------------------
(***************************************************************************)
(* The access log of a virtual host (http/access_log.cpp): lines gather in *)
(* a buffer, which is written to the file when it has grown above          *)
(* log_buffer_size, when the alarm synchronises the logs, and when the     *)
(* server stops.  A write that would take the file above its maximum size  *)
(* first renames the file to the next free number and begins a new one.    *)
(*                                                                         *)
(* The disk outlives the server.  A system call may fail, and the server   *)
(* may be killed between two of them.  A file is the sequence of its bytes;*)
(* a line is its number, once for each of its bytes.                       *)
(***************************************************************************)
EXTENDS Integers, Sequences, FiniteSets, SequencesExt, FiniteSetsExt

CONSTANTS MaxSize,   \* access_log_max_file_size
          BufSize,   \* log_buffer_size
          Lengths,   \* of the lines, by their format
          MaxLines   \* bound on the lines logged

ASSUME AccessLogAssumption ==
    /\ MaxSize \in Nat /\ BufSize \in Nat /\ MaxLines \in Nat
    /\ Lengths \subseteq Nat \ {0} /\ IsFiniteSet(Lengths) /\ Lengths # {}

VARIABLES logs,   \* numbers -> the rotated files, 0 -> the current one
          fd,     \* _M_fd: the offset it writes at, or -1
          last,   \* _M_last_file
          size,   \* _M_size
          buf,    \* _M_buf
          up,     \* whether the server runs
          count   \* lines logged so far

logVars == <<logs, fd, last, size, buf, up, count>>

log == [logs |-> logs, fd |-> fd, last |-> last, size |-> size, buf |-> buf, up |-> up]

Becomes(l) ==
    /\ logs' = l.logs /\ fd' = l.fd /\ last' = l.last
    /\ size' = l.size /\ buf' = l.buf /\ up' = l.up

LogInit ==
    /\ logs = [n \in {} |-> <<>>]
    /\ fd = -1 /\ last = 0 /\ size = 0 /\ buf = <<>>
    /\ up = FALSE
    /\ count = 0

----------------------------------------------------------------------------
(* System calls on the files.                                              *)

\* A server that is killed leaves the disk; nothing else of it is looked at.
Killed(l) == [l EXCEPT !.fd = -1, !.last = 0, !.size = 0, !.buf = <<>>, !.up = FALSE]

Closed(l) == [l EXCEPT !.fd = -1]

Dropped(l) == [l EXCEPT !.buf = <<>>]

\* open(O_CREAT | O_WRONLY): the file is made if it is not there, not emptied.
Opened(l) ==
    [l EXCEPT !.logs = IF 0 \in DOMAIN @ THEN @ ELSE [n \in DOMAIN @ \cup {0} |-> IF n = 0 THEN <<>> ELSE @[n]],
              !.fd = 0]

\* write: at the offset, over what is there.
Put(l, bytes) ==
    LET file == l.logs[0]
    IN  [l EXCEPT !.logs[0] = SubSeq(file, 1, l.fd) \o bytes \o SubSeq(file, l.fd + Len(bytes) + 1, Len(file)),
                  !.fd = @ + Len(bytes)]

Renamed(l, n) ==
    [l EXCEPT !.logs = [k \in (DOMAIN @ \ {0}) \cup {n} |-> IF k = n THEN @[0] ELSE @[k]]]

----------------------------------------------------------------------------
(* rotate and flush: all that may become of the log, the server having been*)
(* killed on the way included.                                             *)

\* stat until there is no such file.
FreeNumber(l) == Min({n \in (l.last + 1) .. (l.last + Cardinality(DOMAIN l.logs) + 1) : n \notin DOMAIN l.logs})

Rotated(l) ==
    LET n    == FreeNumber(l)
        away == Renamed([l EXCEPT !.last = n], n)
    IN  {[rotated |-> TRUE, log |-> [Opened(away) EXCEPT !.size = 0]],
         [rotated |-> FALSE, log |-> Closed([l EXCEPT !.last = n])],
         [rotated |-> FALSE, log |-> Closed(away)],
         [rotated |-> FALSE, log |-> Killed(away)]}

Written(l) ==
    {[Dropped(Put(l, l.buf)) EXCEPT !.size = @ + Len(l.buf)]}
      \cup UNION {LET part == Put(l, SubSeq(l.buf, 1, n)) IN {Dropped(Closed(part)), Killed(part)} :
                    n \in 0 .. (Len(l.buf) - 1)}

\* The size is compared before the buffer is added.
SizeWithoutBuffer(l) ==
    IF l.size > MaxSize
    THEN UNION {IF r.rotated THEN Written(r.log) ELSE {Dropped(r.log)} : r \in Rotated(l)}
    ELSE Written(l)

Flush(l) ==
    IF l.size + Len(l.buf) > MaxSize
    THEN UNION {IF r.rotated THEN Written(r.log) ELSE {Dropped(r.log)} : r \in Rotated(l)}
    ELSE Written(l)

----------------------------------------------------------------------------
(* The operations.                                                         *)

\* Writes go on at the beginning of the file that is there.
StartsAtTheBeginning(l) == [Opened(l) EXCEPT !.size = Len(Opened(l).logs[0])]

AtTheEnd(l) ==
    LET o == Opened(l) IN [o EXCEPT !.fd = Len(o.logs[0]), !.size = Len(o.logs[0])]

\* create: the numbers are gone through up to the first that is missing; if the
\* file cannot be opened the server does not start.
Create ==
    /\ ~up
    /\ LET n == Min({k \in 1 .. (Cardinality(DOMAIN logs) + 1) : k \notin DOMAIN logs})
       IN  Becomes(AtTheEnd([log EXCEPT !.last = n - 1, !.up = TRUE]))
    /\ UNCHANGED count

\* log, called when a request has been answered.
LogLine ==
    /\ up /\ fd # -1
    /\ count < MaxLines
    /\ count' = count + 1
    /\ \E length \in Lengths :
          LET more == [log EXCEPT !.buf = @ \o [i \in 1 .. length |-> count + 1]]
          IN  IF Len(more.buf) <= BufSize THEN Becomes(more) ELSE \E l \in Flush(more) : Becomes(l)

\* sync, every log_sync_interval seconds.
Sync ==
    /\ up /\ fd # -1 /\ buf # <<>>
    /\ \E l \in Flush(log) : Becomes(l)
    /\ UNCHANGED count

\* The destructor, after SIGTERM.
Stop ==
    /\ up
    /\ \E l \in (IF fd # -1 /\ buf # <<>> THEN Flush(log) ELSE {log}) : Becomes(Killed(l))
    /\ UNCHANGED count

\* The server is killed.
Crash == up /\ Becomes(Killed(log)) /\ UNCHANGED count

LogNext == Create \/ LogLine \/ Sync \/ Stop \/ Crash

LogSpec == LogInit /\ [][LogNext]_logVars
----------------------------------------------------------------------------
Rotations == {n \in DOMAIN logs : n # 0}

Current == IF 0 \in DOMAIN logs THEN logs[0] ELSE <<>>

\* The log as one reads it: the rotated files by their numbers, then the current
\* one.
OnDisk == FlattenSeq([n \in 1 .. Max(Rotations \cup {0}) |-> logs[n]]) \o Current

LogTypeOK ==
    /\ \A n \in DOMAIN logs : n \in Nat /\ logs[n] \in Seq(1 .. count)
    /\ fd \in Nat \cup {-1} /\ last \in Nat /\ size \in Nat
    /\ buf \in Seq(1 .. count) /\ (buf # <<>> => up /\ fd # -1)
    /\ up \in BOOLEAN /\ count \in 0 .. MaxLines

(***************************************************************************)
(* No rotation, failure, crash or restart takes away, overwrites or        *)
(* reorders what has been written, and as long as the log stays open every *)
(* line that was logged is there once and complete.                        *)
(***************************************************************************)
J == INSTANCE Journal WITH
        written <- OnDisk, pending <- buf, open <- (up /\ fd # -1),
        Lines <- {[i \in 1 .. length |-> n] : length \in Lengths, n \in 1 .. MaxLines}

IsJournal == J!Spec

(***************************************************************************)
(* A file grows above access_log_max_file_size only by a buffer that would *)
(* not fit in any file, and _M_size never loses track of it: neither over a*)
(* rotation nor over a restart with what an earlier server has left.       *)
(***************************************************************************)
FilesFit ==
    /\ \A n \in DOMAIN logs : Len(logs[n]) <= Max({MaxSize, BufSize + Max(Lengths)})
    /\ up /\ fd # -1 => size = Len(Current) /\ fd = size
=============================================================================
