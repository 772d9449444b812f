# Formal models of aleash

TLA+ models of the concurrent parts of aleash, model-checked with TLC, with
theorems checked by TLAPS. Paths below are relative to the root of the repository.

## The system

aleash runs a command in a bubblewrap sandbox and asks the user, in a browser,
before the sandbox may reach a network destination. Its parts, the state each
keeps and how they meet:

| Part | Source | State | Operations |
|---|---|---|---|
| Server | `src/aleash/server.py` | registries of futures and sockets, one event loop | REST and WebSocket handlers |
| Database | `src/aleash/db.py` | sandboxes, terminal_log, domain_decisions, pending_approvals | one awaited call per query, one connection per process |
| Permissions file | `server._write_permissions_file` | verdicts of a working directory | read whole at sandbox start, rewritten whole after every edit |
| Proxy addon | `src/aleash/proxy_addon.py` | none | asks request-approval for each HTTP request, kills the flow unless allowed |
| TUN gateway | `src/aleash/_tun_gateway.py` | TCP connections, keys being gated, cached DNS names | parses packets, asks request-approval, relays |
| Runner | `src/aleash/runner.py` | helper processes, PTY, temporary files | starts and ends a sandbox, logs its output |
| Mounts | `src/aleash/bwrap.py`, `profiles.py`, `services.py` | none | builds the argument list of bubblewrap |
| Settings files | `server.put_services`, `runner._load_services` | services and mounts chosen for a working directory | read at sandbox start, replaced whole by a pane's PUT |
| Browser tabs | `frontend/src` | popups, terminal, panes | click, toggle, type |

The runner, the addon and the gateway call the server over HTTP. The runner writes
`terminal_log` directly, from another process than the server's. Server and tabs
talk over three WebSockets and REST.

What is hard here is the interleaving of coroutines at their awaits (a decision
read before an await and used after it, a future awaited by several requests, two
tabs that answer the same popup), timeouts that race with answers, failures between
two steps of a handler, the two copies of a decision, a restart of the server in the
middle of all that, two processes on one table, a loop over a list that others change while
it waits, and files that one side reads while the other rewrites them. `PROJECT.json` lists these
hazards at their lines, each with the properties that would notice it go wrong, or the reason
why none does.

What makes each part correct:

- *decision store*: a decision in the table was given by the user or the file, for
  that sandbox and domain; a sandbox runs only after its file was loaded; the file
  ends up with the last verdict stored;
- *broker*: a request is answered at most once, and allowed only by a verdict
  spoken for its own sandbox and domain; those who share an approval get one
  verdict; "Always" applies to every later request; registries do not leak; every
  request and every click is answered;
- *terminal feed*: output is shown in order, once, and none that polling has yet
  to reach is lost;
- *terminal sockets*: a tab that is being served is in the list of sockets, tabs end up
  with the size of the window, what a user types arrives once and in order;
- *gateway*: no byte passes before the gate said allow, a program is connected to
  the attempt its own SYN led to, streams are relayed in order, every SYN gets an
  answer, the table holds live connections only; the user is asked by the name that DNS
  gave the address, and what nobody is asked about goes to the host or its resolver only; DNS
  replies are read as their encoding means; checksums verify;
- *runner*: whatever fails or is interrupted, the helper processes are killed, the files
  go, the sandbox's row gets its end, the user's terminal is restored; no output is
  lost; only the run's own files are written and closed; every run ends;
- *mounts*: a path is seen through the innermost rule for it, except the three files that are
  mounted last;
- *settings*: a pane shows what is in the file; a sandbox is started with what the pane shows, and
  never with two SSH agents.

## Modules

| Module | Models | Checked by | Proved in |
|---|---|---|---|
| `DecisionStore` | table and file of decisions, sandbox start, edits | `MCStore` | `DecisionStoreProofs` |
| `ApprovalGate` | abstract: what request-approval promises | as a property of the broker | `ApprovalBrokerProofs` |
| `ApprovalBroker` | request_approval, decide_approval, popups; extends `DecisionStore` | `MCBroker` | `ApprovalBrokerProofs` |
| `TcpGateway` | TCP in the gateway, between the sandbox's kernel and the hosts | `MCStreams`, `MCGateway` | `TcpGatewayProofs` |
| `ByteStreams` | abstract: what the gateway promises of the streams | as a property of the gateway | `TcpGatewayProofs` |
| `SandboxRunner` | one run of a sandbox, from sandbox-start to sandbox-end | `MCRunner` | `SandboxRunnerProofs` |
| `TerminalFeed` | terminal_log and the replay and polling of a terminal socket | `MCFeed` | `TerminalProofs` |
| `TerminalSize` | sizes on their way from the runner's window to the tabs, the list of sockets | `MCFeed` | `TerminalProofs` |
| `TerminalInput` | keys and sizes on their way from the tabs to the PTY | `MCFeed` | `TerminalInputProofs` |
| `UdpGateway` | datagrams, their gating and the cache of DNS names | `MCGateway` | `GatewayProofs` |
| `DnsReply` | pure: names and A records of a DNS reply | `MCGateway` | `GatewayProofs` |
| `Checksum` | pure: the Internet checksum | `MCGateway` | `GatewayProofs` |
| `Mounts` | the bind mounts of bubblewrap and their order | `MCRunner` | `MountsProofs` |
| `Settings` | the services file, the panes that edit it, the runner that reads it | `MCStore` | `MountsProofs` |

Some MC modules extend several of these, which share no state: `MCStore` (`DecisionStore` and
`Settings`), `MCFeed`, `MCGateway` and `MCRunner`. Their `MCSpec` checks the parts side by
side, each moving only while the others rest in one of their initial states. So
TLC sees the sum of the state graphs, not their product, and each part behaves as it does
alone.

### DecisionStore

`decision` is the table `domain_decisions`, `permFile` the domains of
`.aleash-network-permissions.json`. `StartSandbox`, `LoadDecision` and `FinishStart`
are `internal_sandbox_start` cut at its awaits; `StoreVerdict`, `ReadTable` and
`WriteFile` are `set_domain_decision` and `_write_permissions_file`, run by the PUT
of the Domains pane (`Put`) or by a permanent decide call (`Decide`). Each database
step may fail, once the bound on faults allows it, with the outcome the code then
takes: `StartFails` (the runner launches the sandbox anyway), `LoadFails`,
`StoreFails`, `ReadFails`,
`WriteFileFails` (the error is swallowed, the file old or truncated). When it is the commit that
fails, the row stays in the open transaction of the server's one connection: all its handlers
read it, the next commit of anybody keeps it (`Commit`, and every action that stores a row), and
only a restart undoes it. `decision` is what handlers read, `committed` what a restart would
find. `StoreRestart` kills every handler. The variables `latest` and `spoken` are history.

An aiosqlite connection runs its calls on one thread in the order they were made and
resumes the callers in that order, so table snapshots reach the file in the order
they were read: `filing` is that queue. The file's content is the map from domains to
verdicts; its time stamp and its JSON are left out. The read of a decision
inside one SELECT is atomic. All sandboxes of the model share a directory; sandboxes
of different directories have nothing in common but the table, where they never touch
each other's keys. A row in `sandboxes` is never deleted, so the early return of
`_write_permissions_file` for an unknown sandbox cannot be taken by an edit of a key
that has a decision.

### ApprovalBroker and ApprovalGate

A request goes through `reading` and `checking` (the await of
`get_domain_decision`), then answers from the table, joins the future registered
for its key, or leads: `creating` (the insert), `broadcast` (one `Deliver` per tab),
`waiting`. `Return` is the common tail: the leader pops both dictionaries,
a joined request none. `fut[r]` is the future that r created; the approval id and the
future are both named by r, as each leader makes exactly one of each. A decide call
has the identity of its edit: `resolving` (the row is looked up and updated),
`persisting` (the edit of `DecisionStore` runs), then `Settle` sets the future if it
is registered and pending. The column `decided` is written and never read, so it is
left out; that the row is committed (`Commit`) is not, as an uncommitted decision goes with it. `Reload` is a tab that loses its popups, which the server does not send
again. `Restart` is a server that dies and is started again on the same database.

Time is left out: `Expire` may happen whenever a wait has begun, which covers every
length of every other step. That a verdict set in the very turn in which the timer
fired is lost to the cancellation is one of those behaviours. Popups are answered in any order,
because each is a dialog of its own.

`ApprovalGate` keeps, for each request, a status (idle, open, allow, block, blocked
without a verdict, lost), the key it is about, and the set of verdicts spoken. It
allows an answer with a verdict only if that verdict is in the set for that key. `Gate`
in `ApprovalBroker` maps the phases and replies of requests to the status.

### TerminalFeed

A row of `terminal_log` is named by its id; ids are given in commit order. The
handler of `/ws/terminal` reads all rows (`ReadLog`), sends them one await each
(`Send`), reads the last id with another query (`ReadLastId`), then polls
(`Poll`, at most `Limit` rows, `EndBatch`). The runner appends (`AppendRow`) whenever it
likes, being another process. `PollDies` is an error of the database or of a send other than a
disconnect: the polling task ends, nobody looks at it, and the socket stays open and `silent`. The
content of a chunk is left out.

### TerminalSize

While the local terminal is the master, `_on_sigwinch` posts each new size in a task of its own
(`WindowResized`, `PostFails`), and `internal_terminal_resize` keeps it and broadcasts it
(`HandleResize`, then one `Continue` per send that is awaited). The loop of `_broadcast` has an
index into the list that the handlers of sockets change (`Open`, `Unregister`): `at` is that
index. A send to a tab that has gone fails at once, so that `GoOn` passes over such tabs up
to the next live one. A tab that leaves during the replay is `lost`: its handler returns
without unregistering it (`server.py:523`), and the next broadcast does that.

The list is modelled as the set of its sockets, in the order of their numbers, which is the
order in which they were added. `disturbed` is history: a post was lost or overlapped
another, or a socket left the list at or before the index of a loop (`Shifts`). A send that is under
way when its tab goes is taken to return.

### TerminalInput

`_pty_writer` keeps one connection to the runner for all tabs; two tabs that find none
each open one, and the second replaces the first (`BeginOpen`, `Opened`). `stream` holds what
each connection has yet to deliver, `typed` what the runner has written to the PTY. A
`Read` takes any part of what has arrived, and so may end inside a resize frame, which the
code then writes to the PTY as input, in two pieces (`cut`). `EndRun` and `ForgetWriter` are
the end of the runner's socket and of the entry in `_pty_input_writers`. While the runner listens
no connection is lost: a Unix socket loses it only when its other side closes, and asyncio leaves
the runner's side open when the handler returns, until the run ends. So `Drained` removes the
entry only after that.

Left out: keys that happen to spell the start of a resize frame (a NUL and an R), which the code takes for
one; a `drain` that waits; a write to a terminal that the program has closed, after which the
handler reads no more (what it would have written counts as typed, or stays in `stream`); the
last read of a handler that was woken in the turn of the event loop in which the run ended, which
writes to a number that is closed by then (`runner.py:457`); a runner that is killed and leaves its
socket behind; the embedded case, in which the server writes to the PTY itself (`_pty_fds`) with
no await.

### TcpGateway

A key is a 4-tuple. `pending` and `tcp` are the tables `_pending` and `_tcp`; an
attempt is one run of `_connect` with the `TcpConn` it may end in, and `conn` holds its
phase (`gating` and `opening` at the two awaits of `_connect`, `up` while the relay runs,
`ended`) and the counters `client_next` and `server_next` as offsets. `_handle_tcp` and
`on_data` have no await, so each packet is one action: four for a SYN (pending, in the
table, port of the proxy, new), two for a key that is not in the table, four for one that
is. `GateAllows`, `GateRefuses`, `OpenFails` and `Opened` are `_connect` between its awaits;
an error or the 70 s timeout of `_gate` is a refusal. `Relay` is one turn of the loop
of `_host_relay`, `RelayEnds` what follows it. The host's refusal to take data is `stalled`
(`HostStalls`, `HostTakes`): each turn begins with a `drain()` that returns only when what the
program wrote is below the limit of the buffer, so that a relay whose host has stalled may go on,
for some data fits in the buffer, but need not; and `host_writer.close()` ends the relay only
once all is flushed, which a stalled host prevents (`RelayEnds`).

A RST cancels the relay; the action ends it at once. In the code the cancelled task
runs its `finally` in the next turn of the event loop, and a new entry for the key needs
a SYN to be read, `_connect` to be started and a socket to be opened, several turns later, so
nothing can come in between. Each packet is handled by a task of its own; tasks start in
the order they were made and `_handle_tcp` does not suspend, so packets are handled in
the order they were read.

The sandbox's kernel (`client`) and the hosts (`host`) are not code of this repository.
The kernel is TCP as RFC 9293 and RFC 5961 have it, reduced to what the gateway can
notice: SYNs sent again, answers to segments that do not fit, resets accepted only
with the expected number, cumulative acknowledgements, and a closed socket whose other end never
comes, which the kernel drops without a word (`OrphanExpires`). TIME-WAIT is left out, so a key can
be used again at once, which is the harder case. A sequence number is a pair of an
initial number and an offset: the initial numbers of different uses and attempts are
distinct, and the wrap at 2^32 is left out. The literal 0 that the gateway writes where
it knows no number is `Foreign`. A segment carries one unit of data, and a FIN or a RST
carries none; a segment with data and FIN is to the code the one after the other.

The units on the way to a program wait in `toClient`, those on the way to the gateway in
`toGw`. `LoseUp`, `LoseDown` and `Retransmit` are the faults: a full queue of the device,
a failed write (`_inject` swallows the error), a timer that fires early. A host ends its
stream (`HostCloses`) or breaks the connection (`HostBreaks`). The sizes of the buffers are left
out: of them only counts that something is left in one.

### ByteStreams

The promise on the streams with no packets, tables or numbers in it: programs (`reader`, the
present one of each key), connections to hosts (`pipe`), and whether the network was `calm`, no
segment lost and none but a SYN sent again. A connection is made for one program (`IsMade`),
which may have gone by the time it is open; only that program is joined to it (`IsJoined`). The
program reads a prefix of what the host sends (`Reads`), and sees the end (`SeesEnd`) only after
the whole, unless the host broke the connection or the program itself has closed: to close one
side ends both, as `host_writer.close()` does. The host takes units of that program only
(`Takes`), and in order and once each as long as the network is calm and no other
connection was made for the same program. A lost segment may stall a stream, which is why there
is no liveness here, but what is read or ended stays true to it whatever is lost or repeated.

`Streams` in `TcpGateway` maps the two ends to it: `ReaderOf` is the program's socket, whose number
of use is its initial sequence number, `PipeOf` the host's end of an attempt, which is made for a
program when the attempt begins. Segments, `client_next` and `server_next`, the tables and the gate
have no counterpart: all steps that only move those are stutters.

### UdpGateway

Each datagram is handled by a task: `Query` and `Reply` or `NoReply` for port 53, whose payload
goes to the host's resolver (`Resolver`) whatever address it is for, with nobody asked, as
`docs/network-isolation.md` says; `DropWeb` for ports 80 and 443; `SendToHost` for the host's alias; otherwise
`_gate`, which asks by the name the cache has (`AskByName`) or by what `gethostbyaddr`
finds (`LookUp`, `LookedUp`, `NoName`), and then `Allow` or `Withhold`, the latter also for an
error or after 70 s. `cache` is `_dns_cache`. A reply is kept and injected with no await in
between, which is what `AskedByName` rests on. `left` is all that is sent to the network, queries
included; `SentAsShown` says of each of them where it may go and what it takes: a query and what is
for the host's alias go unasked, to the resolver and to the host and nowhere else. `told`, `found`,
`knew` and `allowed` are history. Sources, ports other than the classes above, and payloads are left out.

### DnsReply and Checksum

Both are functions of the code, checked against what they are to compute. A DNS message is a
sequence of tokens (label, pointer, end of name, question, record), an offset the number of a token.
`ParseName` is `_dns_parse_name`, and `Turn` one turn of its loop: each pointer is read by a call of
its own, whose set `visited` is new and so never holds anything when it is looked at; what ends a
loop of pointers is the bound on recursion (`MaxDepth`), whose exception the caller takes for a
reply that cannot be read. `Walk`, `NameAt` and `NameEnds` say, with no recursion over calls, what
the encoding means. The messages are all sequences of name tokens up to `MaxTokens`, for which
`NamesRead` compares every name with its meaning, and all replies with one question, up to
`MaxRecords` records, any number of them answers by the header (`count`; the others are those of
the other sections, which the code never gets to), and every place to cut them off, for which
`RecordsRead` compares what `ARecords` reads with the records the reply was made of (`given`). A
record whose data is cut has `Short` in place of its address: of an A record `inet_ntoa` raises an
error, nothing of the reply is learned (`Failure`) and it is dropped (`NoReply`); another kind of
record is passed over. Replies with no question, or several, are left out.

`Cksum` is `_cksum` on the sum of a packet's 16-bit words. The sums of the run
are those at which a carry appears or not, in either addition.

### Mounts

`Gather` takes rules from the sources in the order of `build_bwrap_argv`, each source giving any
number of rules up to `MaxBinds`; `Before` is the stable sort by the length of the destination;
`Mount` is what bwrap does with the next of them, and `view` the rule through which each path is
seen. `Launch` is what comes after the sorted rules, whatever their length: the script that wraps
the command (`bwrap.py:227`), the program itself and the file its name resolves to, each of them
or not, and the `resolv.conf` of the gateway, which `run_sandbox` adds last (`runner.py:388`).
They hide what was mounted at those paths, a user's own `resolv.conf` among it. What `user_binds`
or the environment name is any path of the tree, in any spelling: the sort looks at the string,
which may have up to some number of characters more, or fewer, than the path it stands for
(`extra`, out of `Extras`), and `MostSpecificWins` is silent about a rule that is spelled with more
of them than another. That a longer path is never a parent of a shorter one is the assumption
`LongerBelow`; it is about the paths and not about how they are spelled. The fixed arguments at the
front (`/usr`, `/tmp`, the certificate) are one rule below all others.

### Settings

`file` is the set of services that are on in `.aleash-services.json`, or `Unreadable`: missing,
being written, or cut short. A pane loads it (`Load`, `HandleGet`, `Loaded`), as often as it is
shown and whether or not it has an answer to wait for, flips a switch in its copy and puts the
whole copy (`Toggle`). Requests are numbered; each of them, and each answer to a GET, is on its way
until it is handled or lost, in any order (`gets`, `answers`, `saves`; `GetFails`, `SaveFails`). The
server refuses two SSH agents (`Refuse`) or replaces the file (`Replace`, then `Written`, as
`write_text` first empties it; `ReplaceFails` and `CutShort` are its errors, which are swallowed). The
handlers on the server have no await between their read or write of the file and their end, so
that only the runner, on another thread or in another process, can find the file empty. The runner
reads the file once for each of the services it treats on their own (`LookUp`), of which podman may
come after the mounts, and once for the mounts (`LoadServices`).

A pane does come to show something else than the file, in three ways, which are kept as
history. It is `behind` when another pane has saved since it loaded, or when a save of its own, or
a load after that, was lost or not written. It is `crossed` when one of its requests or answers was
overtaken by a later one, or a switch was flipped while a load was on its way, whose answer undoes
it in the pane though not in the file; a fresh load with nothing else on the way puts an end to
that. `PaneShowsFile` says that there is no other way, and `StartsAsShown` that a sandbox gets what
a pane in step with the file shows, in both readings of the file (the one with defaults and the
one without), provided no save fell into the start (`kept`); that it never gets two SSH agents
holds with saves during the start too. What a start makes of a half-written file is left open
beyond that: it may miss services, and the code has no means to notice.

The sockets that services need, the banner of the pane, and a pane that is switched to another
sandbox (`ServicesPane.vue:53`) are left out.

### SandboxRunner

`pc` is the await at which `run_sandbox` (or `_stream_pty`, or the function that starts a
helper) stands: `BeforeTry` up to the certificates, `Startup` inside the try block,
`Streaming` in the loop of `_stream_pty`, `closing` and `waiting` after it, `Cleanup` the
steps of the finally clause. What the code does between two awaits is one
action, but the cleanup is cut into steps, because other threads and signals come in
between. `cutAt` is the first await that failed or was interrupted. `helper` says which
processes run, `held` which of them the cleanup can reach: a helper that has been started is
not held until the coroutine that waits for it to come up returns.

The first SIGINT cancels the task at its await; a later one raises KeyboardInterrupt
wherever the main thread is. So a first one during the cleanup goes unnoticed, a second one
ends it (`hurried`; nothing is promised then), and a second one at an await is one
more cancellation, as the event loop cancels what is left before it closes. A creation of a process
that is cancelled kills the process it made; this is asyncio's own code.

`reader` is the thread of `_stream_pty`. `master` and `stdinW` are the numbers `master_fd`
and `child_stdin_w`: `own` until closed, then `free`, and `foreign` once another
thread of the process has opened a file under that number. The server runs in the
same process (`cli.py:41`), so that takes no more than a request. `harmed` is history. `raw` is
the mode of the user's terminal, `printed`, `queued` and `logged` count pieces of output.

`Announce` stands for the call of sandbox-start with the server's part reduced to
the row and `_current_sandbox_id`; the file of decisions belongs to `DecisionStore`. A
notification of the end that arrives after its time-out, and the death of the whole process,
are left out. So are the two short-lived pipes to bubblewrap; keyboard input from the
browser and window sizes have modules of their own.

## Runs

Bounds are the constants of the `.cfg` files; `MaxFaults` bounds failures and
restarts, `MaxRows` the rows appended. Deadlock is not checked: in each model the
environment may stop (no more requests, clicks, edits or rows within the bound), and
then everything rests.

| Run | Instance | What it shows |
|---|---|---|
| `store` | 1 sandbox, 2 domains, 3 edits, 2 faults; 3 services, 2 panes, 4 requests | loading before launch, provenance of decisions, the file follows the table; panes show the file, a start uses what they show, and one SSH agent |
| `store_shared` | 2 sandboxes in one directory, 2 edits, no fault | `AlwaysPersists` fails: each edit rewrites the file from one sandbox's rows |
| `broker` | 1 sandbox, 1 domain, 3 requests, 2 decide calls, 1 fault or restart | types, the registry, one verdict for those who share an approval |
| `broker_live` | 2 sandboxes, 2 requests, 1 decide call, 1 fault or restart, fairness | refinement of the gate, "Always" applies, popups have rows; every request and click answered; sandboxes do not get each other's verdicts |
| `click_frees` | 2 requests, 1 decide call | `ClickFreesRequest` fails: the leader's timeout orphans those who joined |
| `one_popup` | 2 requests, 1 decide call | `OnePopupPerDomain` fails: the popup of a dead approval stays |
| `feed` | 2 sandboxes, 1 tab, batches of 2, 5 rows; 3 sockets, 2 sizes; 2 typing tabs, 2 messages each; fairness | order, no duplicates, catching up; the list of sockets and the sizes shown; input arrives |
| `gateway` | 1 key used twice, 2 attempts, 2 units up, 1 down, 1 fault | consent, the tables, pairing, order of the streams, refinement of `ByteStreams` |
| `gateway_live` | as `gateway` with 1 unit up, no fault, 1 awkward host, fairness; 3 datagrams, 2 addresses, 2 names; messages of 4 tokens, replies of 2 records; 32 sums | SYNs answered; end of stream delivered and keys forgotten, unless the host takes no data; datagrams asked about by name and sent where they may go; replies read, checksums verified |
| `gateway_acks` | as `gateway` | `AckOnlyReceived` fails: data is acknowledged that never arrived |
| `runner` | 2 pieces of output, 2 interrupts, fairness; 4 mounts on a tree of 8 paths, spelled as they are or with 5 characters more | cleanup, output and numbers after a failure or an interrupt at any await; the innermost mount is seen |
| `feed_gap` | 2 sandboxes, 1 tab, batches of 2, 5 rows | `NothingSkipped` fails: rows committed between two queries are lost |

Three requests are what the races of the broker need: one whose wait runs out, one
that leads after it, one that joined the first or joins the second. Two decide calls
are what it takes to disagree. One domain is enough there, because keys meet only in
`JoinByDomain`-like mistakes, which `broker_live` looks for with two sandboxes. In the
store two domains are needed to see an entry lost from a file, and three edits to have
one overtake another while a third waits; two faults are a commit that fails and the restart that
undoes its row. In the feed five rows of two
sandboxes give a replay, a gap, a full batch and a rest. In the gateway no code relates two keys, so
one is enough; two uses and two attempts let a SYN sent again, or a segment left over,
meet the connection of another program; two units are what it takes to come in
the wrong order. `MaxInjected` and `MaxUnread` bound the segments waiting in either
direction: a program waits for room, but the kernel's own answers are always sent, so that
the queues still cross (a reset behind data, a SYN behind a reset). `SynAllowed` keeps the
SYNs within `MaxAttempts`. `Awkward` bounds the attempts whose host may stop taking data, break
after its end or be slow enough for the kernel to drop the program's closed socket: one of two
attempts, so that the other meets the key that the first has left in the table. None in `gateway`,
whose properties are safety properties that say nothing of who waits; the theorems hold with any.
Nor does a key lead to the host's alias there: it would behave like a gated one whose
attempt is allowed at once, of which the properties ask more; `gateway_live` has both.
In the runner a second piece of output is what it takes to be read but not
stored when the stream ends, and two interrupts are all that behave differently. Three sockets are
one that leaves, one that is skipped or told, and one that comes; two sizes are what it takes to
overlap. Two tabs race for the connection, and two messages of each are what comes in an
order. Three datagrams are a query, another that changes the cache and one that is asked about.
Four tokens make a loop of two pointers with a label before it and one after it. Two
panes and four requests make two loads and two saves that cross, or a load of either pane and a
save from the stale copy of one; the three services are two SSH agents and one that the runner
looks up on its own and that is on by default. Four mounts are two of one length, one below and one
of another source; five characters more make `/home` longer than what lies in it, and as long as
what lies in that. Symmetry over requests,
edits and panes is used for safety only; no `CHOOSE` ranges over these sets.

Fairness (`FairSpec` of `ApprovalBroker`): weak fairness of each request's and each
decide call's own steps, and of the steps of an edit. It is what the event loop gives: a
coroutine whose await has completed is resumed, the database thread serves its
queue, a 60 s timer fires. Nothing is assumed of users and sandboxes. In `TerminalFeed`
the handler of an open socket keeps being run. In `TcpGateway` packets that have arrived are
read, awaits of `_connect` end (the gate within 70 s, `open_connection` with a socket or
an error), relays are resumed unless the host has stopped taking what it is sent (while it has,
`drain()` need not return and the relay is owed nothing), and the sandbox's kernel takes what is injected and sends
unanswered SYNs again. Programs and hosts need not send, take, close or give up, nor a kernel drop
what its program has closed. A host that stalls and goes on again and again is one of the cases that
`EndReachesClient` and `KeysForgotten` except. In `SandboxRunner` the main thread and
the reader thread are run; helpers come up or are given up within the limits the code sets,
and requests to the server time out. The command need not exit, nor the user interrupt it.

## Disagreements found

- *A joined request outlives its approval* (`click_frees`). The leader's timeout
  pops the future (`server.py:369`) on which joined requests still wait, each for 60 s
  of its own. A click on the popup is then answered 200 and frees nobody, while
  `docs/network-isolation.md:93` says that the request blocks until the user clicks.
- *Two popups for a domain* (`one_popup`). After a timeout the popup stays, and the next
  request broadcasts another (`server.py:356`); `CHANGELOG.md:39` says there is no more
  than one per domain.
- *Decisions lost between sandboxes* (`store_shared`). The file of a directory is rewritten
  from one sandbox's rows (`server.py:621`); `docs/network-isolation.md:98` says that
  "Always" decisions are persisted.
- *A gap in the terminal* (`feed_gap`). The last row id is read after the replay was
  sent (`server.py:525`); rows committed in between are never shown, while the comment
  at line 514 describes the polling as the continuation of the replay.

- *Acknowledged without being received* (`gateway_acks`). `on_data` counts what arrives and
  ignores its sequence number (`_tun_gateway.py:460`). After a segment lost in the queue of
  the device, the next one is acknowledged in its place and the lost one is never sent
  again; a segment sent twice is written to the host twice. The comment at line 461
  says that it acknowledges the received data.

Seen while modelling, without a run of their own:

- The comment at `runner.py:619` calls the
  update of the sandbox's row guaranteed even if the task was cancelled. A cancellation while
  the certificates are made (`runner.py:334`) comes before the try block, and the row
  never gets an end; `EndRecorded` therefore speaks of runs that got into the try block. In
  the same way `HelpersStopped`, `OwnFilesOnly` and `TerminalRestored` name the cases in which the code
  does leave a helper, use another's number or leave the terminal raw: they say that there is no
  other.
- `_broadcast` iterates over the live list (`server.py:73`). When a tab leaves while a send to a later one
  is awaited, the loop passes over one tab, which keeps its old size although
  `internal_terminal_resize` says that it pushes the new one "to all connected browser
  clients" (`server.py:436`). `TabsShowWindow` therefore excludes departures at or before the index of the loop, and
  only those. Posts of two sizes that overlap may arrive in either order, and the older one stays.
- A working directory or a user's mount at `/tmp` hides the certificate that is bound into it
  (`bwrap.py:114`), as the fixed rules at the front come before all others; the `resolv.conf` that
  is bound after them hides the user's. The sort goes by the spelling of a path: a user's
  `//home//me` is applied after, and hides, what lies in `/home/me`. `_outside_mounts` takes all of `/run` to be
  mounted, while only `/run/user/<uid>` is, as an empty directory.
- The cache of DNS names keeps the last name of an address, so that the user may be asked about one
  host by the name of another at the same address. Replies over TCP, and those without a
  question, are not kept.
- A services file that cannot be read turns browser and notifications on, and takes every
  mount of a service away, also while the server rewrites the file. The pane
  shows "Changes saved" when the server has refused or failed to write. A switch flipped before the
  answer to a load is there is turned back in the pane, but not in the file.
- A program that has gone is not noticed while its host takes no data: the relay waits in `drain()`
  or for the flush after `host_writer.close()`, and the key stays in the table for as long
  (`_tun_gateway.py:422`, `471`). `KeysForgotten` excepts that and shows that there is no other way.
- A row whose commit failed is read by all handlers as if it were stored, although the call that
  stored it has failed, until a restart undoes it.
- A resize frame that a read cuts in two is typed into the terminal (`runner.py:443`).

## Proofs

All theorems hold for every value of the constants that meets the named assumptions:
`FaultBound`, `SomeKey` (`DecisionStore`), `NoneIsNoRequest`, `SomeTab` (`ApprovalBroker`),
`LimitIsPositive`, `RowBound` (`TerminalFeed`), `GatewayBounds`, `NoConnIsNoAttempt`, `SomeKey`
(`TcpGateway`), `RunnerBounds` (`SandboxRunner`), `SizeBounds` (`TerminalSize`), `MessageBound`,
`FewTypists` (`TerminalInput`), `AwkwardAttempts` (`TcpGateway`), `Apart` (`UdpGateway`), `PacketsAreShort` (`Checksum`), `DepthIsEnough` (`DnsReply`),
`PathsAreATree`, `LongerBelow`, `Spellings`, `Places`, `BindsBound` (`Mounts`), `KnownServices`,
`RequestBound`, `NoServiceIsNone` (`Settings`). Of the sets only the typists, as `FewConnections`
counts them, and the services, as the SSH agents among them are counted, are assumed finite.

- `StoreTyped`, `BrokerTyped`, `FeedTyped`, `GatewayTyped`: the type invariants, inductive as
  they stand.
- `StoredAreSpoken`: `DecisionsSpoken` with what justifies decisions that are still on their
  way: entries to be loaded and verdicts to be stored were spoken already, and so was what a
  restart goes back to (`SpokenInv`).
- `FileLoadedFirst`: an entry of the parsed file is in the table or still to be loaded, and
  nothing is left to load once the sandbox is up (`LoadedInv`).
- `FileKeepsLast`, for one sandbox per directory: the last snapshot in the queue, or the file if
  there is none, agrees with every verdict stored, unless some edit has yet to read the table
  (`PersistInv`, with `FilingInv` on the queue). `store_shared` shows why the hypothesis is
  needed.
- `BrokerUsesStore`: every step of the broker is a step of the store or leaves it alone, so the
  theorems of the store hold in the composition and are used in the next ones.
- `RegistryKept`: needs to know whose future a leader is going to wait on (`RegistryInv`).
- `GateImplemented` and `PopupsAnswerable`: `ConsentInv` says that a verdict in a future, in a
  decide call or in what a request read was spoken for the key of that request, and that
  whatever names a request came after its arrival. With it each step maps to a step of the gate
  or to a stutter.
- `AlwaysHolds`: committed decisions are never withdrawn (`DecisionsStay`), a finished edit leaves
  one for its key (`FilingKept`), and an acknowledged "Always" has gone through an edit (`AppliesInv`).
- `VerdictShared`: a future that has a verdict keeps it; after a restart nobody waits on the
  forgotten futures, and none is created again (`SharedInv`).
- `FeedOrdered`: what is on the screen lies at or below the position of the handler.
- `OneRelayPerKey`: inductive with the types: a step either keeps every attempt's phase and key
  (`SameLedger`) or is one of the moves of one attempt (`Moves`).
- `ConsentHolds`: a relay needs consent as much as an opening, an attempt that has not begun has
  exchanged nothing, and only the attempt in the table is handed data, which is where
  `OnePerKey` comes in (`ConsentInv`).
- `PairedHolds`: every SYN-ACK in the queue was made by an attempt of that key for the initial
  number it acknowledges (`PairedInv`), and those two never change once an attempt has begun
  (`BegunStays`).

The three theorems on the streams of the gateway follow from what one step does to one key and to
one attempt, said once per queue and reader: `UpStep`, `ClientStep`, `AttemptStep`, `DownStep`
(`StepOfUp` to `StepOfDown`). Every action is looked at there, and nowhere else.

- `EndOfStreamIsAll` needs two invariants. `UpInv`: the uses of a key are read one after the
  other, no attempt is of a later use than the program's, and a FIN comes only from a program
  that has closed its side or moved on; so the host's side is never shut under a program that
  still reads (`HostOf`). `DownInv`: a FIN on its way down numbers exactly what the host sent
  before it (`OnWayDown`), units carry their place in the stream, and a program takes them
  without a gap (`Received`).
- `HostGetsInOrder` adds `ReachInv`: a program writes only once its SYN was answered, by an
  attempt whose connection was opened, and the attempt in use is of the latest use of its key.
  So an attempt that is opened later finds nothing in the queue that was written to another,
  unless it is one of two for the same SYN, which the property excepts (`Twice`). `OrderInv`:
  what the host has got and what waits in the queue make up what the program wrote, without a
  gap (`InLine`). The theorem thus shows that loss and repetition are the only ways to break the
  order, which is what the run `gateway_acks` does.
- `StreamsKept` is the refinement of `ByteStreams`. `StepIsOfOne` says that a step changes the
  ends of one program or of one connection at most (`OnlyReader`, `OnlyPipe`); `ReaderRefines` and
  `PipeRefines` find the abstract step for each of the two, from what the invariants above say
  before it. It adds one, `UnitsInv`: what is on its way to a host is a unit of the program it is
  taken for, and what is on its way to a program was sent by its host.

- `RunnerTyped`: with the strengthening that a piece being stored has been read (`TypeInv`).
- `HelpersEnd`, `EndIsRecorded`, `TerminalIsRestored`: all need `StagesInv`, that a run is not
  cut twice before its cleanup. `HelpersInv` follows each helper from its start to the variable
  that holds it, `CleanupInv` says what each step of the cleanup finds done.
- `OutputIsComplete`: `None` is queued only by a thread that has read everything, unless the run
  was cut (`OutputInv`); that the terminal is still the run's own by then is `MasterInv` with
  `ReaderInv`.
- `OwnFiles`: without --forward-stdin the thread never has the pipe (`TtyInv`, `PipeInv`,
  `ForwardingInv`), so only the run closes it, once (`NumberInv`).

- `ServedTabsListed` (with `SizeTypeCorrect`): what a broadcast counts as dead has gone for
  good, as a handler never comes back (`ListInv`).
- `TabsFollowWindow`: while nothing is disturbed, at most one size is on its way, and every live
  socket before the index of its loop has been sent it (`Running`); removing a socket behind the
  index moves none of those (`IndexWithout`).
- `InputAlwaysArrives` (with `InputTypeCorrect`): no token of a message is in two places, and
  those of a tab are in order on each connection, and on the terminal too while there has been
  one connection only (`Places`, part of `InputInv`). What the handler writes of a chunk,
  `Outside`, is a recursive function: that it keeps order and everything outside a frame is
  shown at the least place where it would fail (`LeastNat`, `Climb`), as the induction theorems
  of the library cannot be used.
- `OneConnectionEach`: the tabs that have opened a connection, or are about to, are as many as
  the connections.
- `UdpTypeCorrect`, `AlwaysAskedByName`, `AlwaysSentAsShown`: the cache names an address exactly
  as some reply told it, and an address that has been told has a name in the cache from then on
  (`CacheTold`); a handler that asks has a label that names the address it has (`ShownNames`), and
  what has left had got as far as its handler says (`Progress`).
- `ChecksumIsRight`: the arithmetic of two foldings of a sum below 65535 times 65536, and of the
  sum with the complement added.
- `NamesAreRead` and `RecordsAreRead`: every message that arrives is `Legible`, each label and
  pointer leading to more of a name (`Arrived` is the inductive invariant). That the recursive
  functions of the model exist, and satisfy their equations, is shown first (`Recursion`,
  `ParseExists`, `NameUnfolds`, `AnswersUnfold`). If the way from an offset ends, reading says what
  is met on it: backwards along the way, with a budget of calls that falls at each pointer
  (`RestOfName`, `IsBudget`). If it does not, it comes back to a place it has been at, by the
  pigeonhole principle, and no call that begins on such a loop succeeds (`LoopFails`, `TrapFails`).
  Of a reply, what is read from the k-th record on is what the records from there on give, as
  far as the cut and the header's count (`AnswersLeft`); a cut in the data of a record can only be
  in the last one. The budget is the length of a message whose pointers may be
  anywhere, which `DepthIsEnough` keeps below the bound on recursion (1000 in Python, less
  the calls of the task); beyond it a chain of as many pointers makes the code give up although
  there is no loop. In a reply one call is enough (`RepliesShallow`), and `MaxRecords` is free.
- `MountTypeCorrect`, `InnermostRuleSeen`: the gathered rules applied are a prefix of the sorted
  list, and each path is seen through the last of them that covers it, or, in the end, through one
  of the last three (`MountInv`). The last of two gathered rules that cover a path is the inner
  one, as rules for one path form a chain in which the inner is the longer, unless it is the
  spelling that makes it so (`LaterIsInner`).
- `PanesFollowFile` (with `SettingsTypeCorrect`): several requests of one pane may be on their way.
  What keeps them apart is that, as long as nothing was overtaken, the saves of a pane are older
  than its loads that are still to be handled, and saves and answers are not on their way
  together (`InTurn`); the youngest save holds what the pane shows (`SavesFresh`), and the youngest
  answer what the file will hold (`AnswersFresh`), all for panes that are neither behind nor
  crossed (`PaneInv`).
- `StartedAsShown`: while the file is kept, what a start has read is what the file holds
  (`ReadAsKept`), which by `PaneInv` is what the pane shows; a file that had at most one SSH agent
  when the start began never gets two (`AgentsOnce`).

The strengthened invariants were checked by TLC on the instances of the runs, or smaller ones,
before they were proved.

Only model-checked: the liveness properties, which are out of reach of the provers, and the
instances in which a documented claim fails. The type invariants are proved; of those only
`BrokerTypeOK` is checked by a run as well.

## Plan

1. *Done*: decision store, broker, gate, terminal feed, their runs and theorems.
2. *Done*: `TcpGateway` with the theorems on types, tables, consent and pairing; `UdpGateway`,
   `DnsReply` and `Checksum`.
3. *Done*: `SandboxRunner` with the theorems on all its invariants; `TerminalSize` and
   `TerminalInput`.
4. *Done*: `Mounts` and `Settings`.
5. *Done*: theorems on the order of the relayed units and the end of the stream, on the panes of
   `Settings`, on `InputArrives`, and on the reading of DNS replies; the abstract `ByteStreams` and
   that the gateway implements it.
6. Left: two runs on one server (`_current_sandbox_id`), the wrap of sequence numbers, panes that
   are switched between sandboxes, the last writes of the PTY-input handler.

Not modelled, and not planned: the command line (parsing of arguments, start of the two halves), the
read-only REST views, FilesystemPane (the protocol of ServicesPane over another file), the
full text index, the set-up of the TUN device and of namespaces, packaging.
