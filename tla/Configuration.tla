---------------------------- MODULE Configuration ----------------------------
(***************************************************************************)
(* What the server makes of its configuration file (http/http_server.cpp): *)
(* the general settings, the virtual hosts that inherit them, and the rules*)
(* of each host.  Where the settings stand in the file and how they are    *)
(* found is the matter of Documents; here a setting is a record            *)
(* [there, ok, read]: whether the file has it, whether it is of the type   *)
(* that is asked for, and what has been read of it, which is something     *)
(* for a number that goes wrong after some digits.  "yes" reads 1, "no" 0. *)
(***************************************************************************)
EXTENDS Lookups

Missing == [there |-> FALSE, ok |-> FALSE, read |-> 0]

Value(v) == [there |-> TRUE, ok |-> TRUE, read |-> v]

Has(setting) == setting.there /\ setting.ok

Clamp(low, high, n) == IF n < low THEN low ELSE IF n > high THEN high ELSE n

----------------------------------------------------------------------------
(* load_general.  "beyond" says what becomes of a number out of its range. *)

Numbers ==
    [port                            |-> [default |-> 80,          low |-> 1,  high |-> 65535,   beyond |-> "refuse"],
     max_idle_time                   |-> [default |-> 30,          low |-> 1,  high |-> 3600,    beyond |-> "default"],
     max_idle_time_unknown_size_body |-> [default |-> 3,           low |-> 1,  high |-> 3600,    beyond |-> "default"],
     max_payload_in_memory           |-> [default |-> 4,           low |-> 0,  high |-> 64,      beyond |-> "default"],
     max_spare_files                 |-> [default |-> 32,          low |-> 0,  high |-> 0,       beyond |-> "accept"],
     backend_retry_interval          |-> [default |-> 300,         low |-> 0,  high |-> 3600,    beyond |-> "default"],
     error_log_max_file_size         |-> [default |-> 1024 * 1024, low |-> 32, high |-> 4194304, beyond |-> "clamp"],
     log_buffer_size                 |-> [default |-> 32,          low |-> 0,  high |-> 1024,    beyond |-> "clamp"],
     log_sync_interval               |-> [default |-> 30,          low |-> 1,  high |-> 3600,    beyond |-> "clamp"],
     access_log_max_file_size        |-> [default |-> 1024 * 1024, low |-> 32, high |-> 4194304, beyond |-> "clamp"]]

GeneralNumber(name, setting) ==
    LET number == Numbers[name]
    IN  IF ~Has(setting) THEN number.default
        ELSE IF setting.read \in number.low .. number.high \/ number.beyond \in {"refuse", "accept"} THEN setting.read
        ELSE IF number.beyond = "clamp" THEN Clamp(number.low, number.high, setting.read)
        ELSE number.default

Tribool(setting) == IF ~Has(setting) THEN "undefined" ELSE IF setting.read = 1 THEN "true" ELSE "false"

LogLevels == {"error", "warning", "info", "debug"}

\* The whole section; there is none if the server does not start with it.
LoadGeneral(conf) ==
    LET port == GeneralNumber("port", conf.numbers["port"])
    IN  [ok      |-> /\ port \in 1 .. 65535
                     /\ conf.log_level.there => conf.log_level.read \in LogLevels
                     /\ \A i \in DOMAIN conf.index_files : conf.index_files[i] # "with/slash",
         numbers |-> [n \in DOMAIN Numbers |-> GeneralNumber(n, conf.numbers[n])],
         log_requests |-> Tribool(conf.log_requests),
         have_dirlisting |-> Tribool(conf.directory_listing)]

----------------------------------------------------------------------------
(* load_rules: rules are read until one has no handler.                    *)

\* The port of a backend is 80 if it has none, which only HTTP allows.
Backend(handler, backend) ==
    IF backend.port.there THEN [ok |-> backend.port.ok, port |-> backend.port.read]
    ELSE [ok |-> handler = "http", port |-> 80]

RuleOk(rule) ==
    /\ rule.handler \in {"http", "local", "fastcgi"}
    /\ rule.criterion \in {"path", "method", "extension"}
    /\ rule.values # <<>>
    /\ rule.criterion = "path" => \A i \in DOMAIN rule.values : rule.values[i][1] = "/"
    /\ rule.criterion = "method" => "UNKNOWN" \notin ToSet(rule.values)
    /\ rule.handler # "local" =>
          rule.backends # <<>> /\ \A i \in DOMAIN rule.backends : Backend(rule.handler, rule.backends[i]).ok

LoadRules(rules) ==
    LET none  == {i \in DOMAIN rules : rules[i].handler = "none"} \cup {Len(rules) + 1}
        count == (CHOOSE i \in none : \A j \in none : i <= j) - 1
    IN  [ok    |-> \A i \in 1 .. count : RuleOk(rules[i]),
         rules |-> [i \in 1 .. count |->
                      [rule     |-> Rule(rules[i].criterion, rules[i].values),
                       handler  |-> rules[i].handler,
                       backends |-> IF rules[i].handler = "local" THEN {}
                                    ELSE {Backend(rules[i].handler, b).port : b \in ToSet(rules[i].backends)}]]]

----------------------------------------------------------------------------
(* load_hosts.                                                             *)

\* What the host says counts for more than what is said in general.
HostDecides(general, setting) ==
    IF Has(setting) THEN setting.read = 1 ELSE general = "true"

\* A switch that is off in general is off for all hosts.
Switch(general, setting) ==
    /\ general # "false"
    /\ IF Has(setting) THEN setting.read = 1 ELSE general = "true"

\* Only for a host that logs.  get_value writes the number it reads into the one that
\* is inherited.
HostNumber(name, log, inherited, setting) ==
    IF ~log \/ ~setting.there THEN inherited
    ELSE IF ~setting.ok THEN setting.read
    ELSE Clamp(Numbers[name].low, Numbers[name].high, setting.read)

\* The name and the aliases, which no other host may have.
WithNames(hosts, host) ==
    FoldLeft(LAMBDA h, a : IF h.ok THEN AddAlias(h, a) ELSE h,
             AddHost(hosts, host.name, Has(host.default) /\ host.default.read), host.aliases)

WithHost(all, hosts, rules, host, general) ==
    LET log == Switch(general.log_requests, host.log_requests)
    IN  IF ~all.ok \/ ~host.document_root.there \/ (log /\ ~host.access_log.there) \/ ~hosts.ok \/ ~rules.ok
        THEN [all EXCEPT !.ok = FALSE]
        ELSE [all EXCEPT
                !.hosts = hosts,
                !.vhosts = Append(@,
                    [log             |-> log,
                     log_buffer_size |-> HostNumber("log_buffer_size", log, general.numbers["log_buffer_size"],
                                                    host.log_buffer_size),
                     access_log_max_file_size |-> HostNumber("access_log_max_file_size", log,
                                                             general.numbers["access_log_max_file_size"],
                                                             host.access_log_max_file_size),
                     have_dirlisting |-> Switch(general.have_dirlisting, host.directory_listing),
                     rules           |-> rules.rules])]

LoadHost(all, host, general) ==
    WithHost(all, WithNames(all.hosts, host), LoadRules(host.rules), host, general)

Loaded(general, all) ==
    [ok |-> general.ok /\ all.ok /\ all.vhosts # <<>>,
     general |-> general, hosts |-> all.hosts, vhosts |-> all.vhosts]

LoadHosts(general, hosts) ==
    Loaded(general, FoldLeft(LAMBDA a, h : LoadHost(a, h, general),
                             [ok |-> TRUE, hosts |-> NoHosts, vhosts |-> <<>>], hosts))

\* create, up to where the server is bound: the hosts, or that it does not start.
Load(conf) == LoadHosts(LoadGeneral(conf.general), conf.hosts)
=============================================================================
