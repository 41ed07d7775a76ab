# gweb++ in TLA+

A verification development for gweb++, the event-driven web server, reverse
proxy and FastCGI front end in this repository: TLA+ modules translated from the
source, TLC configurations that check them on small instances, and theorems with
proofs that TLAPS checks for every value of the constants.

Paths are relative to the root of the repository. The Linux build is modelled,
`HAVE_EPOLL` and `HAVE_SENDFILE` being defined and `PROXY` not; the selectors of other
systems are in a module of their own. `Makefile` links one
program, `gweb++`, with one thread; there are no tests in the repository, so that
what is checked is what the code, its comments, `README.md` and `gweb++.txt`
promise.

    tlc -config EventLoop.cfg MCEventLoop.tla    # one of the runs below
    tlapm Selectors_proofs.tla                   # some of the proofs

## 1. The system

### How it works

`tcp_server::start` (net/tcp_server.cpp) is the loop of the only thread. A round
handles the alarm if the signal handler of SIGALRM (every second) has set the
flag, empties the *ready list* of connections whose turn was cut short, waits in
`epoll_wait`, and processes the events. All descriptors are non-blocking and
edge-triggered. Every connection is a slot of an array indexed by its descriptor,
allocated once and used again when the kernel reuses the descriptor:

* `_M_http_connections[fd]`, a client's;
* `_M_proxy_connections[fd]` and `_M_fcgi_connections[fd]`, a backend's;
* `_M_connection_handlers[fd]` says which of them is the current one.

A client's loop reads and parses a request, serves it locally or starts a
connection to a backend and waits. The backend's loop sends the request, reads the
response, puts it into the client's slot and lets the client's loop run. The two
slots name each other by descriptor and pointer for many rounds, during which
either descriptor can be closed by an event, by the alarm or by an error, and opened
again for somebody else. That is what is hard here: a single thread, but state that
outlives the step that wrote it, in slots that outlive the connections.

### Components

| Component (source) | State | Operations | Interacts with | Correct when |
|---|---|---|---|---|
| Descriptor table (net/fdmap) | two arrays, `_M_used` | create, add, remove; swept by `handle_alarm` | selector, alarm | arrays inverse, listener first, a sweep that removes sees everybody once |
| Selector (net/epoll_selector) | epoll set, array of events | add, remove, wait_for_event, process_events | table, server | events of closed descriptors are skipped |
| TCP server (net/tcp_server) | `_M_handle_alarm`, ready list | start, on_event, on_event_error, accept, on_alarm | everything | never blocks with work left; the ready list fits |
| HTTP server (http/http_server) | slots, handlers, idle times | process_connection, process_ready_list, handle_alarm, the configuration | everything | a backend works for the client that waits for it |
| Client connection (http/http_connection, net/tcp_connection) | state, input buffer, payload, flags | loop and its states, reset, free | backends, files, slots | requests framed, answered in order, payload intact |
| Proxy connection (http/proxy_connection) | state, response, `_M_fd`, `_M_client` | loop and its states, reset | client, backends, files | the response reaches its client whole |
| FastCGI connection (http/fcgi_connection, http/fastcgi) | state, records | loop, record decoder | client, backends, files | the same, however reads cut records |
| Chunked parser (http/chunked_parser) | state, chunk size | parse_chunk, add_chunked_data | client, proxy | finds the end, independent of cuts |
| Backends (http/backend_list) | available, downtime, current, sockets | connect, connection_failed | client, proxy, FastCGI, clock | round-robin; only what failed is avoided, and not for ever |
| Temporary files (file/tmpfiles_cache) | files in use, spare files, counter | open, close | all connections | no file lent twice, lost or left behind |
| Access log (http/access_log) | buffer, descriptor, size, number of rotated files | create, log, sync, rotation, the destructor | client, alarm, disk | what is on disk stays; nothing is left out while the log is open |
| Range parser (http/range_parser, util/range_list) | list of ranges | parse, add | client | ranges inside the file, as the header asks |
| HTTP headers (http/http_headers) | a table ordered by type | parse, get_value, add, remove, serialize | client, proxy, FastCGI | each value in its header, the end of the headers found, the same read back by a backend |
| URL parser (net/url_parser) | positions of the parts | parse | client | the path of a resolution by segments, none above the root |
| Virtual hosts, rules (http/virtual_hosts, http/rulelist, util/pathlist, util/string_list) | sorted tables | add, find | configuration, client | the first rule that matches, the host that was named or the default |
| Configuration (xml/xml_parser, xml/xml_document, xmlconf/xmlconf; http/http_server) | the tree | parse, find, the load functions | files, hosts, rules | what `gweb++.txt` says of each setting |
| Other selectors (net/poll_selector, select, kqueue, port) | each a second account of what is watched | as the selector | table, server | both accounts agree while a result is gone through |
| Index files, MIME types, error pages, directory listings, logger, dates, numbers, strings | none or a buffer | formatting | – | – |
| `http/http_proxy` | – | – | nothing refers to it; not in `Makefile` | – |

`PROJECT.json` has the same list with each component's status, and the hazards at
their lines.

### What is hard

* **Pairs of slots over time.** A request forwarded, the client idle, the alarm in
  between, the descriptor reused (EventLoop).
* **Batches.** The handler of one event closes or opens descriptors that later
  events of the same `epoll_wait` are about (EventLoop).
* **Edge-triggered wake-ups.** What is left in a buffer or a socket when a loop
  returns is announced by no further event (HttpConnection, BackendConnection, EventLoop).
* **Cuts.** The network cuts requests, bodies and chunks anywhere, and one read can
  span two requests (HttpConnection, ChunkedParser, BackendConnection).
* **Removal while iterating.** The sweep, and `process_events` of poll and select, remove from the table they
  walk through (FdMap, Selectors).
* **Two accounts of one thing.** The arrays of pollfd, the bit sets and the associations that have to follow the
  table (Selectors); the length that is announced and the parts that are sent (FileResponse).
* **Crashes.** A server that is killed between a rename and an open, or in the middle of a write, comes back to
  what it left on the disk (AccessLog).
* **Text cut into pieces** and put together again: headers that are folded, repeated and sorted, texts of XML that
  are longer than their buffer, records and payloads (HttpHeaders, XmlParser, Documents, FastCgiRecords).
* **Boundaries**: `..` at the root, suffixes longer than the file, payloads of 64 KB, prefixes that end
  inside a name (UrlParser, RangeParser, FastCgiRecords, Lookups).
* **Ownership.** The file with a response changes hands and both hands give back
  what they hold (TmpFiles, BackendConnection).
* **Late failures.** A connection to a backend fails long after others have been
  started (Backends).

## 2. The modules

| Module | Models | Extends or instantiates |
|---|---|---|
| FdSet | what the descriptor table promises: a set that is looked through once | |
| FdMap | net/fdmap and the loop of `handle_alarm` over it | FdSet |
| Selectors | the selectors for poll, select, kqueue and event ports | FdMap |
| Selectors_proofs | theorems about the table and the selectors | FdMap, Selectors |
| FilePool | what the cache promises: a file is lent to one at a time | |
| TmpFiles | file/tmpfiles_cache and the `_M_tmpfile` of the connections | FilePool |
| Journal | what a log promises: nothing is lost, overwritten or out of order | |
| AccessLog | http/access_log, the disk, crashes and failing calls | Journal |
| MCResources | temporary files, log, files that are sent and backends in one run | TmpFiles, AccessLog, FileResponse, Backends |
| Files_proofs | theorems | TmpFiles, AccessLog |
| Backends | http/backend_list and the end of CONNECTING_STATE | |
| Routing_proofs | theorems about where a request goes: hosts, rules, backends | Backends, Lookups |
| MCBackends | a clock that measures what `gweb++.txt` speaks of | Backends |
| EventLoop | net/tcp_server, net/epoll_selector, http/http_server, and the slots of clients and backends | |
| EventLoop_proofs | theorems | EventLoop |
| MCEventLoop | the settings with and without faults | EventLoop |
| ChunkedParser | http/chunked_parser | |
| MCChunkedParser | a declarative definition of a chunked body | ChunkedParser |
| ChunkedParser_proofs | theorems | MCChunkedParser |
| Pipeline | what a client is promised: an answer to each request, in order | |
| HttpConnection | the states of `http_connection::loop` | Pipeline |
| HttpConnection_proofs | theorems | HttpConnection |
| FileResponse | process_request for a file, its ranges and the states that send it | |
| FileResponse_proofs | theorems | FileResponse, RangeParser |
| Exchange | what a client is promised by its backend connection: one answer, whole | |
| BackendConnection | the states of `proxy_connection::loop` and `fcgi_connection::loop` | Exchange |
| BackendConnection_proofs | theorems | BackendConnection |
| HttpHeaders | http/http_headers and prepare_http_request's use of it | |
| UrlParser | net/url_parser | |
| RangeParser | http/range_parser, util/range_list | |
| FastCgiRecords | http/fastcgi: records written and read | |
| XmlParser | xml/xml_parser | |
| Documents | xml/xml_document and xmlconf/xmlconf | |
| Lookups | http/virtual_hosts, http/rulelist, util/pathlist, util/string_list | |
| Configuration | load_general, load_hosts, load_rules of http/http_server | Lookups |
| MCConfiguration | what `gweb++.txt` promises of documents, rules, hosts and settings | Documents, Configuration, XmlParser |
| MCParsers | definitions of headers, targets, ranges and records, and all short inputs | MCChunkedParser, MCConfiguration, the parsers |

In all of them variables and actions bear the names of the members and functions they
stand for; the map in `PROJECT.json` gives the lines. Operators that no `Next` uses,
such as `SkipsTheMoved`, stand in front of the definition they vary: each is a
plausible mistake in that code, kept to show that the properties notice it (the list of
`mutants` in `PROJECT.json`).

### FdMap

`descriptors` and `index` are the two arrays, `used` is `_M_used`, `pos` the `i` of
`handle_alarm`. `Remove` and `SweepDrop` both use `Unlink`, the body of
`fdmap::remove`: the last element fills the hole. Of `_M_index` the model has
only the first `_M_used` elements; the code reads no other. The listener is never
removed, since no handler names it. `FdSet` knows neither places nor order.

### Selectors

`kind` is the selector that has been compiled. Each keeps the table of FdMap and something besides: `pollfds`, parallel to
`_M_index`; `sets` and the highest descriptor; `assoc` and `asked`, what an event port has associated and what `modify`
has asked for. kqueue has nothing besides. `PollRemoves`, `SelectRemoves` and so on are the parts of `fdmap`'s callers that touch the
second account. A round waits (`Wait` takes the result of the system call), goes through it in the source's order and
calls handlers, which may add, remove and modify any descriptor before they return; the alarm sweeps between
two rounds. `want` is what callers have asked for, which no variable of the code holds, and `reopened` the descriptors opened anew
while a result is gone through. `EventsOfItsOwn` is about poll only: with the others the code has no way to tell an old
event from a new one (with select a stale bit even lowers `nevents`, which `Served` shows to be harmless in the long run).

### TmpFiles

A file is its number (the name on disk) and its descriptor. `OpenSpare`, `OpenNew` and
`OpenFails` are the paths of `tmpfiles_cache::open`, `Close` is `close` (linear search,
the last one fills the hole, `Retire`), `PassOn` is RESPONSE_COMPLETED_STATE of the two
kinds of backend connection. `NameBound` bounds the files created; nothing else in the
model counts.

### AccessLog

A file is the sequence of its bytes, and a byte the number of its line. `Flush` goes through the system calls
of the source one after the other: rename and open of a rotation, then writes that may be short or fail. Each of them gives a
set of outcomes, and `Killed` is one at every step. `Create` finds the number of the last rotated file and the size again. `Journal` is
the abstract log: what is written stays, what is pending goes behind it, and a part of it may be missing only when the log
closes. The code closes the log when a write or a rotation fails, and does not open it again until the next start.

### Backends

`connect` is `Connect` or `ConnectFails`, told apart by which backends refuse at once.
`ConnectionFailed` is `get_socket_error` and `connection_failed`; `ConnectionSettled` stands
for success and for a connection dropped by the alarm, neither of which the list
notices. `latest` records what the last call did, for the properties. Ages stop at
the interval, beyond which the code does not distinguish them.

### EventLoop

The variable `at` is the place in `tcp_server::start`. A handler's loop is one step, and what
it achieves is chosen among the outcomes its states can have: `ClientKeeps`,
`ClientCloses`, `ClientForwards`, `ClientFindsNoBackend`; `BackendKeeps`, `BackendAnswers`,
`BackendGivesUp`. When a backend has finished, `process_connection` goes on with the
client's loop and then with the backend's end: `call` holds what is left, and these are
steps of their own. A client slot is `own`, `waiting` or `answering`; a backend slot is in the
`exchange`, in an `unknown` size body, or `completed` by the alarm. Slots are never reset but
where the code does it: `Accept` takes the slot as it finds it. The sweep is one step (FdMap
has its loop), in any order of the table.

Three kinds of event are rare, and a setting of `MCEventLoop` switches them on:

* `error`: `EPOLLERR` or `EPOLLHUP` without `EPOLLIN`. `on_event_error` frees the *client*
  slot of the descriptor, also when it is a backend's. The backend's slot stays dirty and
  its client waits until it is dropped.
* `interrupted`: EINTR from a read or a write on a non-blocking socket, after which the loop
  returns with `_M_in_ready_list` set. Linux does not do this to sockets that never
  block; the code is prepared for it. A backend that has finished resets the flag of
  its client, an entry can stay in the list for a connection that has gone, and the same
  descriptor can be in the list twice.
* `tick`: SIGALRM between the client's timestamp and the backend's in one handler.
  The client is then a tick older than its backend and can be dropped before it.

**`Paired`, `SlotsClean` and `AnsweredByOwnBackend` are claimed only without faults**; they say so themselves with
`NoFaults`. With `error` or `tick` TLC finds each of them violated, and with `interrupted` the part of `Paired` that
is called `HasPeer` too: the pairing of slots rests on the timestamps and on none of these events reaching a backend. No
comment or document of the repository says anything about them, so they are listed as hazards and not as
findings. `NothingLeftWhenBlocking`, `ReadyListFits` and `OrphansAreDropped` hold with faults.

A backend slot without a client would make the code follow a null pointer. The model stops that slot there
(`BackendLoop` asks for a peer), and `HasPeer` says that without faults it does not happen. That a client is at most
as old as its backend, on which the rules of the alarm rest, is the last line of `Paired`.

### ChunkedParser

States 0 to 10 are the states of the source; the transitions that depend on the character
only are a relation, the others are actions. Of the characters only those are
distinguished that the parser distinguishes. `Feed` is the caller's read. `MCChunkedParser` says
what a chunked body is by a definition over the whole string, without states, and with
another structure: sizes, line ends, trailer and chunks as sets of places.

### HttpConnection

The client's requests are a `script`; what it sends is a sequence of pieces (request
line, end of headers, pieces of body, end of a chunked body), which `Arrive` moves to the socket
in any division. `in`, `inp`, `readable`, `writable`, `state` and the request's members
are those of the source. Kinds of request: served locally, not found (with and without a body),
refused, forwarded without a body, POST with Content-Length, POST chunked. Reads
return what there is, up to `ReadSize`; fewer than `ReadSize` means not readable any more,
which is how `tcp_connection::read` tells. Where the code reads beyond
the buffer (see the findings) the model goes to `UNDEFINED`, which promises nothing.

### FileResponse

What process_request prepares for a file (`ContentLength`, `_M_filesize`, the first text) and the four states that send
it. A text (headers, part header, footer) is its name and its length, so that the number of digits of a size
counts and its characters do not. `Write` is a round of loop that sends: a full socket, an interrupted call or some of
what is left (the limit `_M_max_write` is 0, which is none: tcp_connection.cpp:13). `sent` is what the client has got, in
stretches. Who calls loop is modelled too, for this one connection: `Returns` is the end of a call, after which `on_event`
queues a connection that is marked (`flag`) and `process_ready_list` does not; `TakeReady` is the call from the ready list,
which takes the mark off; `WriteEvent` and `ReadEvent` are those from edge-triggered events. An interrupted call
marks the connection, and as long as it is marked each call of loop is one round. `cut` remembers that the call was interrupted: interrupted once more in
the call from the list, the connection is marked, not queued and still writable, and nobody calls it unless the
client sends something. `Completes` names this case (`LeftAlone`) and excludes it; no document promises anything of interrupted calls,
so it is listed as a hazard and not as a finding.

### BackendConnection

One module for the two handlers, since they share the states that connect, send and answer; a
response's kind says which it is. The client's part are the members the loop writes through
`_M_client`: `body`, `memory`, `filesize`, `theirs`. The request is in memory and written
with its headers by one `writev`, or in the client's file and sent by `sendfile` with `_M_outp` starting again
(`Source`). The response is a sequence of pieces that `Arrive` moves to the socket in any division,
`BackendCloses` puts an end of file behind whatever has been sent, and `ReadFails` and `WriteFails` are errors at
any time. `Event` reports what epoll finds at that moment: both directions are watched, edge-triggered, from the
beginning, and `modify` does nothing. A FastCGI response is its records: the output of an application,
headers and body, cut anywhere into records, each of which arrives in two halves.

Four things the code does are visible here and no document denies them: a read that returns less than it asked for
ends the reading, so an end of file that has come with the last bytes is not seen; a response of unknown
size is therefore completed by the alarm, if some of its body has come (`_M_filesize > 0`), and is never answered if
its body is empty; a response that is cut short is only noticed after `max_idle_time` when the end of file
came together with the last bytes; and a status below 200 is taken for the final one. `AnswerComes` says
what holds.

### The parsers

HttpHeaders, UrlParser, RangeParser, FastCgiRecords, XmlParser, Documents, Lookups and Configuration have no
variables: each parser is an operator that makes a record of its state from the one before and a character (or a call, a
record, a setting), and the whole is a fold over the input. The source's parsers go on where the last read ended with
nothing but their members, so that a fold over the whole input is the same as one over its pieces; where there is a
buffer in between (FastCgiRecords) reads cut the input in the run. State numbers and names are the source's. What
they are checked against is in `MCParsers` and `MCConfiguration`: definitions over the whole input, by lines,
segments, words or nesting, which have none of the parsers' states.

* **HttpHeaders**: the states of `parse`, `add` with its joining and ordering, `Serialize` with the folding of
  long lines, and the changes prepare_http_request makes to the table before it sends it.
* **UrlParser**: one pass that decodes, collapses and takes segments back in the buffer it reads. Escapes are single
  characters of the model, of the kinds the parser distinguishes.
* **RangeParser**: numbers are `off_t`, below `Limit`, and wrap as signed ones do in the build; the run has one
  of seven bits, so that a digit fits, a number of two digits may not, and one of three wraps.
* **FastCgiRecords**: `Base` takes the place of 256, so that a length of two bytes is at most 143 and a payload of one byte below, at and above a full record is
  short; 64 KB, the most that is kept in memory, is the last of these. A payload in a file is a stream in several pieces, one for each read.
* **XmlParser**, **Documents**: the automaton with its callbacks, and the array of nodes linked by places, as
  xmlconf walks through it. A `]` or `-` that does not end a section goes back into the text as in the source.
* **Lookups**, **Configuration**: binary searches and insertions on the same arrays, and what the values of a rule mean
  without them (`MatchesRule`); what `load_general`, `load_hosts` and
  `load_rules` make of settings that are missing, of the wrong type, in or out of range.

## 3. The runs

Each run with its bounds and the properties it checks. Modules that have nothing to do with each other, and are
explored the same way, share a run: a behaviour of `MCResources` is of one of its four subjects, and the others
stand still.

| Run | Size | Checks |
|---|---|---|
| selectors | four selectors, the listener and three connections, two conditions at a time | `IInv` of FdMap, `KernelWatchesAll`, `EventsOfItsOwn`; the refinement `SweepsEveryConnectionOnce`; `Served` |
| resources, temporary files and log | three holders, four file descriptors, two spare files, five names; six lines of one or three bytes, a buffer of two, files of four | `IInv` of TmpFiles, `DirectoryClean`, `FilesFit`; the refinements `LendsToOneAtATime` and `IsJournal` |
| resources, backends | three backends, two connections under way, a pause of two ticks | `RefusedOnlyWhenAllDown`, `TurnsAreTaken`, `OnlyTheFailedGoDown`, `EveryBackendTried` |
| retries_apart | two backends | `RetriesApart` is violated |
| eventloop | three descriptors with HTTP backends and no faults; two with errors and ticks, or with interrupted calls and ticks; two with FastCGI backends, errors and ticks | `Paired`, `SlotsClean`, `NothingLeftWhenBlocking`, `ReadyListFits`, `AnsweredByOwnBackend`, `OrphansAreDropped` |
| parsers | every input of the subjects below | `ChunkedAsDefined`, `HeadersAsDefined`, `ForwardedAsDefined`, `TargetAsDefined`, `RangesAsDefined`, `FastCgiAsDefined`, `DocumentFound`, `RuleAsDefined`, `HostFound`, `ConfigAsDocumented` |
| retry_interval | the settings of the run parsers | `RetryIntervalInRange` is violated |
| host_sizes | the settings of the run parsers | `HostSizesInRange` is violated |
| resources, files that are sent | files of no, one and three bytes, up to three ranges; every order of events and of calls from the ready list | `PartsInOrder`, `AnnouncedAsCounted`; `Completes` |
| multipart_length | a file of three bytes, two ranges | `AnnouncedIsSent` is violated |
| http_connection | two requests of every kind but one, bodies of one or two pieces | `Framed`, `PayloadIntact`; the refinement `AnswersInOrder`; `NoneForgotten` |
| pipelining_404 | two requests, with a POST that is answered 404 | `Framed` is violated |
| chunked_empty | one chunked POST | `ProcessesWhatItHas` is violated |
| backend_connection | every kind of response, bodies and payloads of up to two pieces and one, reads of three, output in up to four records | `FilesSettled`; the refinement `AnswersWithTheWhole`; `AnswerComes` |

The subjects of the run parsers:

| Subject | Inputs |
|---|---|
| chunked bodies | all strings of up to 14 characters with 4 printable ones, in all divisions into buffers of 1 or 2 |
| headers | up to 7 of two letters, colon, blank, CR, LF and CR LF; up to 5 of eight lines that repeat, fold and sort |
| targets | up to 9 of a letter, slash and dot; up to 5 with delimiters, controls and escapes; authorities of up to 6 |
| ranges | up to 6 of three digits, dash, comma and blank, for files of 0, 1, 5 and 6 bytes |
| records | seven records that come in pieces of 3, 8 and 19 bytes; requests with lengths at the limits, payloads of up to one byte more than a record can have, or in up to four pieces of a file |
| documents | up to 7 calls of the XML parser; up to 3 of eleven ways to write a tag, text, comment, instruction or section |
| rules, hosts | up to three paths of six; five names for three hosts, and which of them are the default |
| settings | each number of `general` alone: missing, no number, at, beside and beyond the ends of its range; the two sizes that a host inherits in `general` and in the host, the switches, the log, the root and the rules, with each other |

What the properties say is written above each of them in its module. The types of a state machine are in its
`TypeOK`; the runs check them where they are part of the inductive invariant.

### Why the bounds are enough

* **selectors.** Three connections: one is handled, one removed by the handler, one moved into the hole, and any of them
  opened again before the round is over. Two conditions are an event for a connection that has been
  handled and one for another.
* **resources, temporary files.** Three files in use put a hole in the middle of the table; fewer spare files
  than holders reach the limit; five names force names to be new while old ones are
  still spare. The theorems cover all sizes.
* **resources, access log.** Lines below and above the buffer; a file holds one full buffer and not two; six lines fill three
  files, so that a rotation meets a number that an earlier server has used.
* **resources, backends.** Backends before, at and after the current one; two connections are what it
  takes for an older one to fail after a newer one has been noted. An interval of two ticks has
  a before, a middle and an end.
* **eventloop.** Three descriptors are two clients and a backend, or a client, its backend
  and the next backend before the first has been closed: every hazard in the list
  involves at most three. The idle times differ so that the two rules of the alarm can be
  told apart; ages end one tick after the longer. With faults two descriptors are the smallest
  pair, and a third, or errors and interrupted calls together, make too many ready lists to enumerate; each of the two can be queued by its own
  event and by the alarm, which is the case `ReadyListFits` is about.
* **resources, files that are sent.** Ranges in any order, also overlapping, and the sum of the parts has more
  digits than the size of the file, which is when it matters. Every send may take all, half or all but one of what it is given,
  block or be interrupted, so that each text and stretch is cut by each.
* **parsers.** An automaton differs only by what the next character finds in its state: the lengths are
  such that each state is reached and left by each character, with a few characters after it. Chunk sizes have base
  two, so that a size of two digits can be followed by its data: fourteen characters hold a chunk and the last
  chunk, with an extension or a trailer line. A record can have 143 bytes instead of 65535; 144 stand for 64 KB, the most that
  `max_payload_in_memory` can be (http_server.cpp:231) and one byte more than a record can have. What is beyond does not occur: the pieces of a
  file come from the buffer of one read. Buffers of one and two characters cut it at every place, since the parser keeps
  nothing else between calls. Limits on lines, paths, hosts and texts are a few characters, so that they are reached.
* **http_connection.** Two requests are a request and its successor, and `ReadSize` of four
  pieces lets one read end in the second; a body of two pieces can be cut, and is above `MaxMemory` = 1.
* **backend_connection.** A body of two pieces can be cut, and is above `MaxMemory` = 1, one of one piece is not; reads of
  three pieces end in the headers, in the body and behind it, and are short or full; a response with a
  surplus piece is longer than it says. Two header pieces, so that a record can end between them;
  four records are one for each piece of output, or fewer pieces and some that bring none.

CHECK_DEADLOCK is off where a run really ends: names or lines used up, a response that has been sent (resources), a text that has ended or been
refused (parsers), a connection closed with nothing left to arrive
(http_connection, backend_connection).

### Fairness

* **FdMap**: weak fairness of the sweep's steps, the loop of one function.
* **Selectors**: the only thread goes on through alarm, waiting and the loop over a result, and handlers return. Nothing of what
  happens to sockets: `Served` is about conditions that hold.
* **Backends**: the interval timer goes on (`Tick`); a connection under way ends somehow, if only by
  the alarm; clients go on sending requests and sockets are free again and again (strong fairness
  of `Request`, whichever backends refuse). It is stated in MCResources, for the behaviours that are the list's.
* **EventLoop**: weak fairness of what the loop does by itself (`Runs`) and of `Tick`. Nothing of
  peers: no event is ever certain.
* **FileResponse**: the only thread goes on: loop until it has to return, `on_event` behind it, and the ready list, which is gone through
  before every wait. A client goes on reading: a socket that is full becomes writable and is reported so (`WriteEvent`, strongly
  fair, since the events for what the client sends come between), and of the attempts to send infinitely many succeed
  (strong fairness). Nothing calls a connection that is neither queued nor has an event due: `Completes` has that exception.
* **HttpConnection**: weak fairness of `Loop`, of the events that report what has happened
  (`ReadEvent`, `WriteEvent`: a client goes on reading), and of an answer of the backend or a time-out for a
  client that waits. `SendRest` is strongly fair: an answer is finite and each write takes
  something off it, so that one write is the last. It is not assumed that a client sends the rest of its
  request: `NoneForgotten` is about requests that have arrived.
* **BackendConnection**: the same for `Loop`, `Event` and `SendRest` (the backend reads its request); the alarm runs
  every second, so `AlarmCompletes` is fair. `TimeOut` is not: `AnswerComes` must hold without it.

## 4. Findings

1. **retries_apart** (http/backend_list.cpp:110). `gweb++.txt:80` calls `backend_retry_interval` "the
   minimum time interval between retries". When the pause is over, `connect` starts a retry without
   noting it down; until the retry is known to have failed, every request starts another.
2. **pipelining_404** (http/http_connection.cpp:918). A POST for a host that does not exist is
   answered 404 with the connection kept alive, but its body is left in the buffer and parsed
   as the next request, against the "Pipelining" of `README.md:19`.
3. **chunked_empty** (http/http_connection.cpp:1331). The comment above says "If there is some payload
   already in the input buffer"; when there is none, the buffer is emptied and the state stays
   PROCESSING_REQUEST_STATE. The loop processes the request again with a buffer shorter than its
   headers, and the length handed to `parse_chunk` wraps around.
4. **multipart_length** (http/http_connection.h:236). `compute_content_length`, "Compute Content-Length.", counts the part
   headers with the size of the file in their Content-Range; process_request then stores the sum in
   `_M_filesize`, which is what `build_part_header` writes there. Where the sum has more digits than the size, each part header is
   longer than was announced, and the client takes the end of the last part for the next response.
5. **retry_interval** (http/http_server.cpp:251). `gweb++.txt:80` gives `backend_retry_interval` the range 1 - 3600;
   `load_general` tests the upper end only and takes 0, with which every request tries a backend that is down.
6. **host_sizes** (http/http_server.cpp:449). `gweb++.txt:127` gives a host's `access_log_max_file_size` the meaning of
   the general one, which has a range from 32 KB. `get_value` reads the digits of a setting into the variable that holds the inherited size
   and then fails at the first other character: "7x" leaves 7 KB, which is not clamped.

`ConfigAsDocumented` leaves the two cases of findings 5 and 6 out (`IsZeroInterval`, `GoesWrong`) and says of all other
settings what the documentation does.

The run http_connection keeps the kind `missing post` out (finding 2) and lets the case of finding 3
end in `UNDEFINED`: it shows that the rest is right. `AnnouncedAsCounted` is `AnnouncedForOne`, which leaves several
ranges out (finding 4), and `ShortByTheDigits`, which says by how many bytes the announcement of these is too short.

## 5. What is proved

The theorems hold for every value of the constants that the assumption named with them allows: every number of descriptors,
connections, backends, requests, pieces, lines and sizes. Those of a property that a run checks name it in their
statement. Each module of proofs begins with the parts of its inductive invariant; the step of each action is a lemma of its own,
and the theorems are at its end.

| Module (assumptions) | Theorem | Property |
|---|---|---|
| `Selectors_proofs`, the table (a positive size, a listener below it) | `TableInvariant` | `IInv` |
| | `TableTyped`, `ArraysInverse`, `ListenerStays`, `TableFits` | parts of it, and that the arrays are not outgrown |
| | `TableImplementsSet` | `SweepsEveryConnectionOnce` |
| `Selectors_proofs`, the selectors (the same, and known kinds) | `SelectorInvariant`, `SelectorTableInvariant` | `IInv` |
| | `SelectorsUseTheTable`, `SelectorsSweepOnce` | `SweepsEveryConnectionOnce` |
| | `SelectorsWatchAll` | `KernelWatchesAll` |
| | `PollDeliversOwnEvents` | `EventsOfItsOwn` |
| `Files_proofs`, temporary files (finitely many descriptors, some reserved) | `CacheInvariant` | `IInv` |
| | `NoFileLost`, `FilesApart`, `CacheFits` | parts of it, and that the tables are not outgrown |
| | `CacheImplementsPool` | `LendsToOneAtATime` |
| | `DirectoryStaysClean` | `DirectoryClean` |
| `Files_proofs`, the access log (finitely many lengths of lines) | `LogInvariant`, `FilesStaySmall` | `FilesFit` |
| | `LogImplementsJournal` | `IsJournal` |
| `Routing_proofs`, hosts and rules (an order that tells characters apart; paths in rules end in one slash at most) | `SearchFinds`, `InsertKeepsOrder` | of every table |
| | `HostIsAdded`, `AliasIsAdded` | what `HostFound` says, one addition at a time |
| | `FirstRuleDecides` | what `RuleAsDefined` says, of every list of rules |
| `Routing_proofs`, backends (at least one backend, an interval of at least one tick: for 0 see finding 5) | `ListInvariant`, `RefusalIsJustified` | `RefusedOnlyWhenAllDown` |
| | `ConnectionsGoRound` | `TurnsAreTaken` |
| | `BlameIsDeserved` | `OnlyTheFailedGoDown` |
| `EventLoop_proofs` (finitely many descriptors in a mode) | `LoopInvariant`, `LoopTyped`, `BackendsArePaired` | `Paired` |
| | `SlotsAreClean` | `SlotsClean` |
| | `BlocksWithNothingLeft` | `NothingLeftWhenBlocking` |
| | `ReadyListIsLargeEnough` | `ReadyListFits` |
| | `AnswersComeFromTheBackend` | `AnsweredByOwnBackend` |
| `HttpConnection_proofs` (no `missing post`, finding 2) | `ConnectionInvariant`, `RequestsAreFramed` | `Framed` |
| | `PayloadsAreIntact` | `PayloadIntact` |
| | `ConnectionImplementsPipeline` | `AnswersInOrder` |
| `FileResponse_proofs` (headers of at least one byte) | `ResponseInvariant`, `PartsStayInOrder` | `PartsInOrder` |
| | `AnnouncedIsSentForOne`, `SentIsLonger`, `AnnouncedIsSentAsCounted` | `AnnouncedAsCounted` |
| `FileResponse_proofs`, the ranges (digits have values) | `RangesAreInTheFile` | what FileResponse assumes of its ranges |
| `ChunkedParser_proofs` (a base above 1, digits that are no blanks and end no line) | `ParserInvariant`, `EndsWhereItEnds`, `RefusesNone`, `ParsedAsDefined` | `ChunkedAsDefined` |
| `BackendConnection_proofs` (positive reads) | `FilesAlwaysSettled` | `FilesSettled` |
| | `ExchangeInvariant`, `ExchangeTypes` | parts of what follows, and the types |
| | `ConnectionImplementsExchange` | `AnswersWithTheWhole` |

### Along which arguments

* **FdMap.** `IInv` is `TypeOK`, `PlacesAgree`, `ListenerFirst` and `SweepInBounds`. None of the last three is inductive
  alone: that `Unlink` moves an element to the place of another needs the arrays inverse; that it never touches place 0
  needs the sweep at 1 or above and the listener at 0. `TableFits` is by counting: `_M_index` is injective on the
  places in use, so these are no more than the descriptors. In the refinement `Unlink` at the sweep's place takes away
  one of the unseen elements (the last one comes to that place), `SweepKeep` another.
* **Selectors.** `SelectorInv` is `IInv` and, for each selector, that its second account follows the table: poll's array has at each
  place the descriptor of that place, select's sets are those of the table and `_M_highest_fd` is the greatest, port has
  associated, or will before it waits, what it was asked for. The removal that fills the hole with the last element keeps
  poll's account only because the places agree, hence `IInv` in it; `NothingForTheNew`, that the
  conditions of a closed socket are gone, is what makes an event one's own. Every step of a selector is a step of
  FdMap or leaves the table alone, from which the theorems about the table carry over.
* **TmpFiles.** `IInv` adds to the properties that no two connections hold the same descriptor
  (`OneHolder`, without which closing one file would lose the other's), that the names in the tables are below the
  counter (`NamesUsedUp`, which makes a new name new), that reserved descriptors are not in the tables, and
  the limit on the spare files. `CacheFits`: the files in use have different descriptors, none of them reserved, so they
  are fewer than the elements of the array, also while `open` writes one more. `DirectoryStaysClean` is a second induction
  above `IInv`: a file leaves the directory exactly when it leaves both tables.
* **AccessLog.** `LogInv` says that no file of the log is longer than the longer of the limit and one buffer, that of the
  open one `_M_size` and the position are its length, and that lines are buffered only while a file is open. `FilesFit` alone is not
  inductive: that a write fits needs the size that was kept, and a rotation opens what an earlier server has left. One lemma for each of the calls that `log` makes (flush, rotate, write), since they come together in one action.
  For `IsJournal`, `LogInv` also says that the rotated files are numbered from 1 without a gap (`Numbered`) and that `_M_last_file` is
  never ahead of the newest, without which a rotation could put a file before or over another. What a server leaves behind, however it
  ends, is what was on the disk followed by a beginning of the buffer (`Emptied`).
* **Backends.** Besides the types, that the turn is the index of a backend. The three action properties follow from what a `connect` does to
  the backends before the one it got; that `connect` ends at the first it gets, from the least element of those left.
* **Lookups.** `Goes` compares two keys as one order on sequences does (`Precedes`: at the first place where they differ), and
  `SearchFinds` says of every span from i to j that all in front of it precede the key and it precedes all behind. That the search ends is an
  induction on the places that are left, again by the least number for which it fails. With `InsertKeepsOrder` a table is in order and has
  exactly the entries that have been added, from which the theorems about hosts follow. For a rule, what its table holds are the values with
  their last slash off (`Rule` folds `AddPath` over the values), the walk of `exists` along a path asks for each beginning of it that ends
  at a slash, and `FirstRuleDecides` puts together that each rule matches as written and that `Find` takes the first. A
  value that ends in two slashes is kept with one of them, and the request for exactly that path is looked up without it: `RulePaths` leaves
  such values out.
* **EventLoop.** `LoopInv` is `QueueInv`, which holds under all faults, and, without faults, `PairInv`. `QueueInv`
  counts: no descriptor is queued twice by the events, nor twice by the alarm, so the ready list has room; a completed
  backend is in it, so nothing is left when the loop blocks. `PairInv` says that the two slots of a pair point to
  each other from the moment of connecting until process_connection has passed the answer on. Neither `Paired` nor `SlotsClean` is inductive: a new
  backend gets a client of its own only if the slots it takes are clean, a slot is cleaned rightly only if it is paired rightly, and
  both depend on what the two steps of process_connection hold in `call` meanwhile. With faults the pairing fails, and the model says
  only what is left (`NothingLeftWhenBlocking`, `ReadyListFits`, `OrphansAreDropped`).
* **HttpConnection.** `ConnectionInv` says that what is in the buffer behind the place the state stands for, with what is in the socket and
  still to come, is the rest of the stream (`Stream`, from that request on): behind the headers in the states that process a request,
  behind as many pieces of the body as have been read in those that read it, at the next request in the others; and that the pieces that
  have been read are in memory or in the file in their order. It was checked with TLC on the constants of the run before it was
  proved. `Framed`, that the request being served is the one whose answer comes next, and `PayloadIntact` need all of it: that a header found where
  one is looked for is the next one takes knowing where the last body ended.
  Most lemmas are about cutting sequences (`Drop`, what begins with what), and about the stream as a recursive function,
  of which only the two equations are used. In the refinement of Pipeline every step appends to the answers
  the number that comes next, or nothing.
* **FileResponse.** `ResponseInv` says of each state of loop which piece of the response it is at (`Stage`), that the text in `_M_out` is that
  piece, and that what has been sent are the pieces before it and of it what `_M_outp` says (`SentTo`). `PartsInOrder` follows, since the
  response is a function on its positions: headers and part headers at the odd ones, the file at the even ones. The two theorems about
  lengths add up the pieces one by one; for several ranges each part header has been counted with the digits of one number and is written
  with those of another, and nothing else differs.
* **RangeParser.** `ReadsInside`: the numbers have not become negative (one that wraps below what it was is refused) and the ranges that
  have been added are in the file. What a fold keeps at each step it keeps of a whole text: the function of the fold is shown to exist,
  then used at the first 0, 1, ... places.
* **ChunkedParser.** `ParserInv` is about every string that begins with what the calls have looked at so far, not only about the one that is
  being read: in each of them the parser is where `Read` says, in the size of a chunk (`ReadSize`), in its data or the line end behind (`ReadData`)
  or in a line of the trailer (`ReadTrailer`), and the body of the string, if it is one, is what has been delivered and what the definition makes of
  the rest from there (`ChunksFrom`, `TrailerFrom`). The three properties follow from one lemma, `StuckIsNoBody`: a string that ends
  there, or goes on with a character the state does not accept, is no body. So the end is not reported late, and nothing that was
  refused is the beginning of one: `RefusesNone` says so of every rest, `ChunkedAsDefined` of the six the run tries. The
  definition is recursive over the places of a string; that such functions exist is proved by the least
  place that is not yet reached (`FromTheEnd`), and after that only their equations are used (`TrailerIs`, `ChunksAre`). `Read` speaks of every string, so that
  this invariant could not be put to TLC; `ChunkedAsDefined` could.
* **BackendConnection.** `SettledInv` adds to `FilesSettled` that the client has no file in any state from which
  RESPONSE_COMPLETED_STATE can be reached, without which handing over the response's file would lose the payload's.
* **BackendConnection, the exchange.** `ExchangeInv` is, as long as the slot is open: `Unread`, that what can be read from the socket and
  what is still to come are the parts of the response behind the pieces that have been read; `Sends`, that what has been
  written is the beginning of the request, as far as the positions of the state say, and all of it from the first state that reads;
  and `Stage`, which part of the response each state has come to and where it is: all of it in the buffer until process_response,
  then headers and body in the buffer with `_M_inp` at its end, or the body in the file, with `_M_left` or `_M_filesize` counting
  what is there; for FastCGI the halves of an incomplete record in the buffer, and in `_M_out` or the file what the complete ones have brought.
  That a surplus piece is never passed on takes `_M_left`; that the piece `end` never gets into the
  file takes the place of the last chunk at the very end. The refinement is then short: a write appends to what has been sent,
  `ResponseCompleted` hands over what `Stage` says is the body, `PrepareErrorPage` fails, and every other step stutters.
  The invariant was checked with TLC on the constants of the run before it was proved.

### What is only model-checked, and why

* **Liveness**: `Served`, `EveryBackendTried`, `OrphansAreDropped`, `Completes`, `NoneForgotten`, `AnswerComes`. Fairness and ENABLED
  are beyond the prover.
* **The other parsers** (`HeadersAsDefined`, `ForwardedAsDefined`, `TargetAsDefined`, `RangesAsDefined`, `FastCgiAsDefined`, `DocumentFound`,
  `ConfigAsDocumented`): what they make of inputs of every length is for
  induction over the input. The induction theorems of the library take an operator as a parameter, which none of the installed provers can
  instantiate; where AccessLog, FileResponse, ChunkedParser, RangeParser and Lookups need induction it is made by hand from the least
  element of a set of numbers. Each of the others is an automaton with its own definition to compare it with, and needs an
  invariant of its own like that of ChunkedParser; the run enumerates the inputs up to a bound. Of the ranges it is proved that they
  are in the file, not that they are the ones the header asks for.
* **`RuleAsDefined` and `HostFound`** as they stand are about the finitely many inputs of the run; the theorems of
  `Routing_proofs` say for all tables, names and rules what they say of those.
* **The kind `missing post`** of HttpConnection, for which `Framed` does not hold (finding 2), and whatever a server does after the
  `UNDEFINED` of finding 3.

## 6. What is not modelled

* **Running out of memory**, and any failure inside a handler after it has changed state, except of temporary
  files and of the log; as when `prepare_http_request` fails after it has added the backend to the selector.
* **The chunk size beyond 64 bits**: sizes are natural numbers.
* **A signal during the sweep**: the sweep is one step of EventLoop, so an alarm that comes
  during it is not lost in the model, while the code clears it. The next one comes a second later.
* **Formatting** of any kind: status lines, error pages, directory listings, the lines of logs, dates. In HttpConnection and
  BackendConnection pieces and kinds of requests stand for the text that the parsers' modules are about.
* **The choice of a file**: `stat`, If-Modified-Since, index files and MIME types of process_request. A MIME type is found by a binary search like
  those of Lookups.
* **The headers that are passed on** of a chunked request still say `Transfer-Encoding: chunked` although the payload has
  been decoded: `ForwardedAsDefined` is about those the code means to replace.
* **FastCGI**: `abort_request`; a `stdin_stream` to a file that fails; records of a payload of two full records or more, which `input_stream` would
  frame wrongly and nothing in the program asks for (a hazard); the end of a request before the headers of its response; payloads of
  clients for FastCGI rules, of which a chunked one is a hazard.
* **XML attributes**, which are read and thrown away, and names as long as their buffer.
* **Failures of selectors** other than the undoing of an addition, and a configuration that changes: it is read before the loop starts.
* **`http/http_proxy`**, which nothing uses.
* **Several processes with the same payload_directory**, or several hosts with the same access log, which each write at a position of their own: nothing in the code makes these safe,
  nothing in the documents speaks of them.

## 7. Plan

Done, in this order because the slots and their pairing are what everything else rests on: FdMap, TmpFiles,
Backends, EventLoop, ChunkedParser, HttpConnection, BackendConnection; then the other
selectors, the access log, the response with a file, and the parsers and look-ups; and the theorems of section 5.

Next modules: payloads of clients for FastCGI rules in HttpConnection; the choice of a file by process_request.

Next theorems: the header parser and the range parser against their definitions, by invariants that say which part of the grammar each
state has come to, as that of the chunked parser does.
