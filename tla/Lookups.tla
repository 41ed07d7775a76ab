------------------------------- MODULE Lookups -------------------------------
(***************************************************************************)
(* The sorted tables the server decides by for each request: names of      *)
(* virtual hosts (http/virtual_hosts.cpp), paths and extensions of rules   *)
(* (util/pathlist.cpp, util/string_list.cpp), and the list of rules        *)
(* (http/rulelist.cpp), of which the first that matches counts.            *)
(*                                                                         *)
(* Strings are sequences of characters.  A table is the sequence of its    *)
(* entries [key, idx] in the order of the array, "idx" being what the      *)
(* entry of a host's name stands for.                                      *)
(***************************************************************************)
EXTENDS Integers, Sequences, SequencesExt

CONSTANTS Order  \* characters -> Nat, as memcmp and strncasecmp compare them

\* No two characters are one to the comparison.
TellsApart == \A c, d \in DOMAIN Order : Order[c] \in Nat /\ (Order[c] = Order[d] => c = d)

Smaller(a, b) == IF a < b THEN a ELSE b

\* memcmp(a, b, n).
Compare(a, b, n) ==
    LET differ == {i \in 1 .. n : a[i] # b[i]}
        first  == CHOOSE i \in differ : \A j \in differ : i <= j
    IN  IF differ = {} THEN 0 ELSE IF Order[a[first]] < Order[b[first]] THEN -1 ELSE 1

\* Where a key goes by the characters it shares with another and their lengths.
Goes(key, other) ==
    LET order == Compare(key, other, Smaller(Len(key), Len(other)))
    IN  IF order < 0 \/ (order = 0 /\ Len(key) < Len(other)) THEN "before"
        ELSE IF order = 0 /\ Len(key) = Len(other) THEN "same" ELSE "behind"

\* search: an entry with this key, or the place where it goes; w is from i to j.
Search(table, key) ==
    LET from[w \in (1 .. (Len(table) + 1)) \X (0 .. Len(table))] ==
            LET pivot == (w[1] + w[2]) \div 2
                goes  == Goes(key, table[pivot].key)
            IN  IF w[1] > w[2] THEN [found |-> FALSE, pos |-> w[1]]
                ELSE IF goes = "before" THEN from[<<w[1], pivot - 1>>]
                ELSE IF goes = "same" THEN [found |-> TRUE, pos |-> pivot]
                ELSE from[<<pivot + 1, w[2]>>]
    IN  from[<<1, Len(table)>>]

Insert(table, key, idx) == InsertAt(table, Search(table, key).pos, [key |-> key, idx |-> idx])

----------------------------------------------------------------------------
(* Virtual hosts: their number, their names and the default one; a name    *)
(* that is there already, or a second default host, is refused.            *)

NoHosts == [used |-> 0, index |-> <<>>, default |-> 0, ok |-> TRUE]

Refused(hosts) == [hosts EXCEPT !.ok = FALSE]

AddHostIndex(hosts, name, idx) ==
    IF Search(hosts.index, name).found THEN Refused(hosts)
    ELSE [hosts EXCEPT !.index = Insert(@, name, idx)]

AddHost(hosts, name, default) ==
    IF default /\ hosts.default # 0 THEN Refused(hosts)
    ELSE LET idx == hosts.used + 1
             new == AddHostIndex(hosts, name, idx)
         IN  IF ~new.ok THEN new
             ELSE [new EXCEPT !.used = idx, !.default = IF default THEN idx ELSE @]

\* An alias of the host that has been added last.
AddAlias(hosts, name) == AddHostIndex(hosts, name, hosts.used)

GetHost(hosts, name) ==
    LET entry == Search(hosts.index, name)
    IN  IF entry.found THEN hosts.index[entry.pos].idx ELSE 0

\* An unknown host is served by the default one.
DefaultForUnknown(hosts, target, header, minor, port) ==
    LET named == IF target.absolute THEN target ELSE header
        found == GetHost(hosts, named.name)
    IN  IF ~header.there /\ (minor = 1 \/ ~target.absolute) THEN [error |-> minor = 1, idx |-> hosts.default]
        ELSE IF named.port = 0 THEN [error |-> TRUE, idx |-> 0]
        ELSE [error |-> FALSE, idx |-> IF named.port # port THEN 0 ELSE IF found = 0 THEN hosts.default ELSE found]

\* process_request: the host is the one of an absolute target, or that of the
\* header, whose port may be malformed (0); a request of HTTP/1.0 may do without
\* the header, one of HTTP/1.1 never.  0 is answered 404.
HostOf(hosts, target, header, minor, port) ==
    LET named == IF target.absolute THEN target ELSE header
    IN  IF ~header.there /\ (minor = 1 \/ ~target.absolute) THEN [error |-> minor = 1, idx |-> hosts.default]
        ELSE IF named.port = 0 THEN [error |-> TRUE, idx |-> 0]
        ELSE [error |-> FALSE, idx |-> IF named.port = port THEN GetHost(hosts, named.name) ELSE 0]

----------------------------------------------------------------------------
(* Paths and extensions.                                                   *)

Trimmed(path) == IF Len(path) > 1 /\ Last(path) = "/" THEN Front(path) ELSE path

AddPath(paths, path) ==
    IF Search(paths, Trimmed(path)).found THEN paths ELSE Insert(paths, Trimmed(path), 0)

AddString(strings, string) ==
    IF Search(strings, string).found THEN strings ELSE Insert(strings, string, 0)

\* Every prefix of the path is looked for, not only those that end at a slash.
AnyPrefix(paths, path) ==
    \E l \in 1 .. Len(Trimmed(path)) : Search(paths, SubSeq(path, 1, l)).found

\* exists: "/", then the path up to each further slash, then all of it.
PathExists(paths, path) ==
    LET len == Len(Trimmed(path))
        from[l \in 1 .. len] ==
            LET rest == {m \in (l + 1) .. len : m = len \/ path[m + 1] = "/"}
            IN  \/ Search(paths, SubSeq(path, 1, l)).found
                \/ l # len /\ from[CHOOSE m \in rest : \A k \in rest : m <= k]
    IN  from[1]

----------------------------------------------------------------------------
(* Rules: [criterion, values], the values in the order of the file.        *)

Rule(criterion, values) ==
    [criterion  |-> criterion,
     paths      |-> IF criterion = "path" THEN FoldLeft(AddPath, <<>>, values) ELSE <<>>,
     extensions |-> IF criterion = "extension" THEN FoldLeft(AddString, <<>>, values) ELSE <<>>,
     methods    |-> IF criterion = "method" THEN ToSet(values) ELSE {}]

Match(rule, method, path, extension) ==
    CASE rule.criterion = "path" -> PathExists(rule.paths, path)
      [] rule.criterion = "extension" -> extension # <<>> /\ Search(rule.extensions, extension).found
      [] rule.criterion = "method" -> method \in rule.methods

\* The place of the rule, or 0 for the default one.
Find(rules, method, path, extension) ==
    LET from[i \in 1 .. (Len(rules) + 1)] ==
            IF i > Len(rules) THEN 0
            ELSE IF Match(rules[i], method, path, extension) THEN i
            ELSE from[i + 1]
    IN  from[1]

----------------------------------------------------------------------------
(* What the values of a rule mean, without tables: a path is for itself and*)
(* what is below it.                                                       *)

Under(path, value) ==
    LET dir == IF Last(value) = "/" THEN Front(value) ELSE value
    IN  path = dir \/ IsPrefix(dir \o <<"/">>, path)

MatchesRule(rule, method, path, extension) ==
    CASE rule.criterion = "path" -> \E i \in DOMAIN rule.values : Under(path, rule.values[i])
      [] rule.criterion = "extension" -> extension \in ToSet(rule.values)
      [] rule.criterion = "method" -> method \in ToSet(rule.values)
=============================================================================
