----------------------------- MODULE EngineBridge -----------------------------
(***************************************************************************)
(* How a native session reaches the web engines inside its application     *)
(* (crates/cli cdp_discover.rs, embedded_bridge.rs): a thread sweeps the   *)
(* family's listening sockets and asks those where an engine can be, a     *)
(* thread of its own connects to each endpoint found, and the bridge in    *)
(* the session loop attaches, pumps and closes, and accounts for the pages *)
(* of every engine.                                                        *)
(*                                                                         *)
(* A socket is known by its port and the pid that holds it; `life` numbers *)
(* the sockets, so one that comes back on its port is another.  A sweep is *)
(* the unit of time.  A process is a Qt host or one of the runtime's; a    *)
(* page is the number it was given, one after another over all engines.    *)
(***************************************************************************)
EXTENDS Integers, Sequences, FiniteSets

CONSTANTS
    Pids,               \* the processes
    QtHosts,            \* those with Qt WebEngine loaded
    Ports,              \* the ports they open
    Opened,             \* which process may open which port
    QtPort,             \* the port a Qt engine was told to open
    RETRIES,            \* times a listener that did not answer is asked again
    RETRY_GAP,          \* sweeps between two requests to it
    QT_ENGINE_GRACE,    \* sweeps a Qt engine runs before its process's other ports are asked
    UNREADABLE_SWEEPS,  \* unread tables in a row that end the thread
    MaxLives,           \* bound: sockets opened
    MaxPages            \* bound: pages of all engines

ASSUME EngineBridgeAssumption ==
    /\ Pids # {} /\ QtHosts \subseteq Pids /\ Opened \subseteq [pid : Pids, port : Ports] /\ QtPort \in Ports /\ Ports \subseteq Nat /\ Pids \subseteq Nat \ {0}
    /\ {RETRIES, QT_ENGINE_GRACE, MaxLives, MaxPages} \subseteq Nat
    /\ {RETRY_GAP, UNREADABLE_SWEEPS} \subseteq Nat \ {0}

VARIABLES
    sockets,     \* who holds each port, which socket it is, what it serves, requests it got
    runs,        \* the Qt hosts whose engine has started its processes
    joined,      \* the family the session knows of
    scan,        \* the thread: what it does, what is still to ask, unread tables in a row
    memory,      \* Memory and engine_since: keys found, keys refused, since when engines run
    mail,        \* notices on their way to the session, and what the connect threads came to
    connecting,  \* ports being connected to, as the bridge knows, and the threads
    attachers,   \* the connections that stand, the socket behind each and its pages
    accounts,    \* engines, engine_of_port, closed, and the counts at the end
    turn,        \* what the session's turn comes to next
    spoken       \* warnings, sockets and pages so far, the last table, and sockets an older one stood in for

bridgeVars ==
    <<sockets, runs, joined, scan, memory, mail, connecting, attachers, accounts, turn, spoken>>

Free == [pid |-> 0, life |-> 0, kind |-> "none", asked |-> 0]
NotRunning == -1
Key(pid, port) == [pid |-> pid, port |-> port]
Keys == [pid : Pids, port : Ports]
Never == [n |-> 0, ago |-> 0]
First == CHOOSE p \in Pids : \A q \in Pids : p <= q

BridgeInit ==
    /\ sockets = [p \in Ports |-> Free] /\ runs = {} /\ joined = {First}
    /\ scan = [at |-> "sleeping", ask |-> {}, unread |-> 0, taken |-> FALSE]
    /\ memory = [found |-> {}, refused |-> [k \in Keys |-> Never], since |-> [p \in QtHosts |-> NotRunning]]
    /\ mail = [notices |-> <<>>, results |-> <<>>]
    /\ connecting = [ports |-> {}, threads |-> {}]
    /\ attachers = {}
    /\ accounts = [engines |-> <<>>, entry |-> [p \in Ports |-> 0], closed |-> {}, counts |-> <<>>]
    /\ turn = "notices"
    /\ spoken = [warned |-> {}, lives |-> 0, pages |-> 0, aside |-> {}, swept |-> {}]

-----------------------------------------------------------------------------
(* The application.                                                        *)

\* What happens after the session is not looked at.
SessionStands == turn # "over" /\ UNCHANGED <<scan, memory, mail, connecting, accounts, turn>>

\* A server of its own, or an endpoint, which is bound before it serves.
Opens ==
    /\ spoken.lives < MaxLives
    /\ \E key \in Opened, kind \in {"server", "bound"} :
         /\ sockets[key.port] = Free
         /\ sockets' = [sockets EXCEPT ![key.port] =
                          [pid |-> key.pid, life |-> spoken.lives + 1, kind |-> kind, asked |-> 0]]
         /\ spoken' = [spoken EXCEPT !.lives = @ + 1,
                          !.aside = IF key \in memory.found \cap spoken.swept THEN @ \cup {spoken.lives + 1} ELSE @]
    /\ UNCHANGED <<runs, joined, attachers>> /\ SessionStands

Serves ==
    /\ \E port \in Ports : sockets[port].kind = "bound" /\ sockets' = [sockets EXCEPT ![port].kind = "engine"]
    /\ UNCHANGED <<runs, joined, attachers, spoken>> /\ SessionStands

Closes ==
    /\ \E port \in Ports : sockets[port] # Free /\ sockets' = [sockets EXCEPT ![port] = Free]
    /\ UNCHANGED <<runs, joined, attachers, spoken>> /\ SessionStands

\* A Qt engine starts its processes, the family grows, or one connection is lost alone.
Grows ==
    /\ \/ \E pid \in QtHosts \ runs : runs' = runs \cup {pid} /\ UNCHANGED <<joined, attachers>>
       \/ joined # Pids /\ joined' = Pids /\ UNCHANGED <<runs, attachers>>
       \/ \E a \in attachers : /\ ~a.lost /\ attachers' = (attachers \ {a}) \cup {[a EXCEPT !.lost = TRUE]}
                               /\ UNCHANGED <<runs, joined>>
    /\ UNCHANGED <<sockets, spoken>> /\ SessionStands

-----------------------------------------------------------------------------
(* The discovery thread.                                                   *)

BridgeStands == UNCHANGED <<runs, joined, connecting, attachers, accounts, turn>>

\* `candidates`: the listeners of a family that a table names.
Listeners(family) == {Key(sockets[p].pid, p) : p \in {q \in Ports : sockets[q].pid \in family}}

\* Memory::spent, Memory::endpoint_open.
Spent(mem, key) == mem.refused[key].n > RETRIES
EndpointOpen(mem, pid) == \E key \in mem.found : key.pid = pid

\* Time goes on between two sweeps, for a refusal and for an engine that runs.
Aged(r, sweeps) ==
    IF r = Never THEN Never ELSE [r EXCEPT !.ago = IF @ + sweeps > RETRY_GAP THEN RETRY_GAP ELSE @ + sweeps]
RunsOn(n) == IF n \in {NotRunning, QT_ENGINE_GRACE} THEN n ELSE n + 1
Later(mem, sweeps) ==
    [mem EXCEPT !.refused = [k \in Keys |-> Aged(@[k], sweeps)], !.since = [p \in QtHosts |-> RunsOn(@[p])]]

\* Mutant: an endpoint found is never forgotten.
KeptForGood(mem, live) ==
    [mem EXCEPT !.refused = [k \in Keys |-> IF k \in live THEN @[k] ELSE Never]]

\* `due`, its first half: what is no longer in the table is forgotten.
Kept(mem, live) ==
    [mem EXCEPT !.found = @ \cap live, !.refused = [k \in Keys |-> IF k \in live THEN @[k] ELSE Never]]

ListenersDue(mem, live) ==
    {k \in live \ mem.found : mem.refused[k] = Never \/ (~Spent(mem, k) /\ mem.refused[k].ago >= RETRY_GAP)}

\* `engine_for`, asked only of a Qt host that does not listen on its port and has no endpoint.
WantsEngine(mem, pid) ==
    pid \in QtHosts /\ sockets[QtPort].pid # pid /\ ~EndpointOpen(mem, pid)
Learned(mem, due) ==
    [mem EXCEPT !.since = [p \in QtHosts |->
        IF /\ @[p] = NotRunning /\ p \in runs /\ WantsEngine(mem, p)
           /\ \E k \in due : k.pid = p
        THEN 0 ELSE @[p]]]

\* `worth_asking`.
WorthAsking(mem, k) ==
    \/ k.port = QtPort
    \/ /\ ~EndpointOpen(mem, k.pid)
       /\ k.pid \in QtHosts => WantsEngine(mem, k.pid) /\ mem.since[k.pid] >= QT_ENGINE_GRACE

\* `qt_port_taken`, looked at before the memory forgets; not in every sweep.
QtPortTaken(family) ==
    /\ sockets[QtPort] # Free /\ QtHosts \cap family # {}
    /\ sockets[QtPort].pid \notin family \/ Spent(memory, Key(sockets[QtPort].pid, QtPort))

Asking(keys, next) ==
    [next EXCEPT !.ask = keys, !.at = IF keys = {} THEN "sleeping" ELSE "asking"]

\* One sweep's look: the latest family, the table - or none - and what of it is to be asked.
ReadsTable ==
    /\ scan.at = "sleeping" /\ turn # "over"
    /\ \/ /\ scan.unread + 1 >= UNREADABLE_SWEEPS
          /\ scan' = [scan EXCEPT !.at = "over"]
          /\ mail' = [mail EXCEPT !.notices = Append(@, [kind |-> "unavailable"])]
          /\ UNCHANGED <<memory, spoken>>
       \/ /\ scan.unread + 1 < UNREADABLE_SWEEPS
          /\ scan' = [scan EXCEPT !.unread = @ + 1] /\ UNCHANGED <<mail, memory, spoken>>
       \/ \E sweeps \in 1..RETRY_GAP, looks \in BOOLEAN :
            LET live  == Listeners(joined)
                kept  == Kept(Later(memory, sweeps), live)
                due   == ListenersDue(kept, live)
                mem   == Learned(kept, due)
                taken == ~scan.taken /\ looks /\ QtPortTaken(joined)
            IN  /\ memory' = mem
                /\ scan' = Asking({k \in due : WorthAsking(mem, k)},
                                  [scan EXCEPT !.unread = 0, !.taken = @ \/ taken])
                /\ mail' = IF taken THEN [mail EXCEPT !.notices = Append(@, [kind |-> "taken"])] ELSE mail
                /\ spoken' = [spoken EXCEPT !.swept = live]
    /\ UNCHANGED sockets /\ BridgeStands

\* The request goes to whoever holds the port by now.
AsksOne ==
    /\ scan.at = "asking" /\ turn # "over"
    /\ \E k \in scan.ask :
         /\ scan' = Asking(scan.ask \ {k}, scan)
         /\ IF k.port # QtPort /\ EndpointOpen(memory, k.pid) THEN UNCHANGED <<memory, mail, sockets>>
            ELSE /\ sockets' = IF sockets[k.port].pid = k.pid THEN [sockets EXCEPT ![k.port].asked = @ + 1]
                                                              ELSE sockets
                 /\ IF sockets[k.port].kind = "engine"
                    THEN /\ memory' = [memory EXCEPT !.found = @ \cup {k}, !.refused[k] = Never]
                         /\ mail' = [mail EXCEPT !.notices = Append(@, [kind |-> "found", key |-> k])]
                    ELSE /\ memory' = [memory EXCEPT !.refused[k] = [n |-> @.n + 1, ago |-> 0]]
                         /\ UNCHANGED mail
    /\ UNCHANGED spoken /\ BridgeStands

-----------------------------------------------------------------------------
(* The connect threads and the bridge.                                     *)

ThreadStands == UNCHANGED <<sockets, runs, joined, scan, memory>>

\* `Attacher::connect`, by its deadline: whatever serves on the port by now.
ConnectEnds ==
    /\ turn # "over"
    /\ \E key \in connecting.threads :
         /\ connecting' = [connecting EXCEPT !.threads = @ \ {key}]
         /\ \E life \in {0} \cup {sockets[p].life : p \in {q \in {key.port} : sockets[q].kind = "engine"}} :
               mail' = [mail EXCEPT !.results = Append(@, [key |-> key, life |-> life])]
    /\ UNCHANGED <<attachers, accounts, turn, spoken>> /\ ThreadStands

Warn(key) == spoken' = [spoken EXCEPT !.warned = @ \cup {key}]

\* Mutant: only the attachers are looked at, not the connects under way.
KnownAttached(port) == \E a \in attachers : a.port = port

\* One attacher per port: a connection that stands or is under way is not started again.
Known(port) == port \in connecting.ports \/ \E a \in attachers : a.port = port

\* The older socket's attacher, or its connect, that a find was set aside for.
SetAside(port) ==
    IF port \in connecting.ports \/ \E a \in attachers : a.port = port /\ a.life # sockets[port].life
    THEN {sockets[port].life} ELSE {}

\* `take_notices`, one at a time; a thread that cannot be started is said.
TakesNotice ==
    /\ turn = "notices" /\ mail.notices # <<>>
    /\ mail' = [mail EXCEPT !.notices = Tail(@)]
    /\ LET notice == Head(mail.notices) IN
       CASE notice.kind # "found" -> Warn(notice.kind) /\ UNCHANGED connecting
         [] notice.kind = "found" /\ Known(notice.key.port) ->
              /\ spoken' = [spoken EXCEPT !.aside = @ \cup SetAside(notice.key.port)]
              /\ UNCHANGED connecting
         [] OTHER ->
              \/ Warn("unreachable") /\ UNCHANGED connecting
              \/ /\ connecting' = [ports |-> connecting.ports \cup {notice.key.port},
                                   threads |-> connecting.threads \cup {notice.key}]
                 /\ UNCHANGED spoken
    /\ UNCHANGED <<attachers, accounts, turn>> /\ ThreadStands

\* The next page, of any engine (`next_index`), within the bound.
NewPages == {spoken.pages + 1} \cap 1..MaxPages

\* `take_connects`, one at a time: the engine gets its entry, and its pages are attached to.
TakesConnect ==
    /\ turn = "connects" \/ (turn = "notices" /\ mail.notices = <<>>)
    /\ mail.results # <<>>
    /\ LET result == Head(mail.results)
           port   == result.key.port
       IN  /\ mail' = [mail EXCEPT !.results = Tail(@)]
           /\ turn' = IF Len(mail.results) = 1 THEN "pump" ELSE "connects"
           /\ connecting' = [connecting EXCEPT !.ports = @ \ {port}]
           /\ IF result.life = 0 THEN Warn("unreachable") /\ UNCHANGED <<attachers, accounts>>
              ELSE \E pages \in {{}, NewPages} :
                     /\ attachers' = attachers \cup
                          {[port |-> port, life |-> result.life, pages |-> pages, lost |-> FALSE]}
                     /\ accounts' = [accounts EXCEPT
                          !.engines = Append(@, [port |-> port, life |-> result.life]),
                          !.entry[port] = Len(accounts.engines) + 1]
                     /\ spoken' = [spoken EXCEPT !.pages = IF pages = {} THEN @ ELSE @ + 1]
    /\ ThreadStands

HasEnded(a) == a.lost \/ sockets[a.port].life # a.life

\* An attacher hands its pages over with the entry its port names.
HandedOver(gone) == {[entry |-> accounts.entry[a.port], life |-> a.life, pages |-> a.pages] : a \in gone}

\* `pump`, every attacher: new pages, and the connections that have ended.
Pumps ==
    /\ turn = "pump" \/ (turn = "notices" /\ mail.notices = <<>> /\ mail.results = <<>>)
    /\ turn' = "notices"
    /\ \E more \in {{}} \cup {{a} : a \in {b \in attachers : NewPages # {}}} :
         LET Pumped(a) == IF a \in more THEN [a EXCEPT !.pages = @ \cup NewPages] ELSE a
             pumped == {Pumped(a) : a \in attachers}
             gone   == {a \in pumped : HasEnded(a)}
         IN  /\ attachers' = pumped \ gone
             /\ accounts' = [accounts EXCEPT
                  !.closed = @ \cup HandedOver(gone),
                  !.entry = [p \in Ports |-> IF \E a \in gone : a.port = p THEN 0 ELSE @[p]]]
             /\ spoken' = [spoken EXCEPT !.pages = @ + (IF more = {} THEN 0 ELSE 1)]
    /\ UNCHANGED <<mail, connecting>> /\ ThreadStands

\* `finish`: every part's pages are counted to the entry of the engine they came through.
BridgeFinishes ==
    /\ turn = "notices" /\ turn' = "over"
    /\ LET parts == accounts.closed \cup HandedOver(attachers)
       IN  accounts' = [accounts EXCEPT !.counts =
                          [i \in DOMAIN accounts.engines |-> {x \in parts : x.entry = i}]]
    /\ UNCHANGED <<mail, connecting, attachers, spoken>> /\ ThreadStands

-----------------------------------------------------------------------------
DiscoveryMoves == ReadsTable \/ AsksOne
BridgeTurns == TakesNotice \/ TakesConnect \/ Pumps
ApplicationMoves == Opens \/ Serves \/ Closes \/ Grows

BridgeNext == ApplicationMoves \/ DiscoveryMoves \/ ConnectEnds \/ BridgeTurns \/ BridgeFinishes

-----------------------------------------------------------------------------
(* Properties.                                                             *)

BridgeTypeOK ==
    /\ sockets \in [Ports -> [pid : Pids \cup {0}, life : 0..MaxLives, asked : Nat,
                              kind : {"none", "server", "bound", "engine"}]]
    /\ scan \in [at : {"sleeping", "asking", "over"}, ask : SUBSET Keys, unread : 0..UNREADABLE_SWEEPS, taken : BOOLEAN]
    /\ memory \in [found : SUBSET Keys, since : [QtHosts -> NotRunning..QT_ENGINE_GRACE],
                   refused : [Keys -> [n : 0..(RETRIES + 1), ago : 0..RETRY_GAP]]]
    /\ connecting \in [ports : SUBSET Ports, threads : SUBSET Keys]
    /\ attachers \in SUBSET [port : Ports, life : 1..MaxLives, pages : SUBSET (1..MaxPages), lost : BOOLEAN]
    /\ turn \in {"notices", "connects", "pump", "over"}

\* One attacher or one connect per port, however often an endpoint is found, and the entry of
\* a port is the engine behind it (embedded_bridge.rs take_notices, engine_of_port).
OneEach ==
    /\ \A port \in Ports :
         LET here    == {a \in attachers : a.port = port}
             threads == {k \in connecting.threads : k.port = port}
             ended   == {i \in DOMAIN mail.results : mail.results[i].key.port = port}
         IN  /\ Cardinality(here) + Cardinality(threads) + Cardinality(ended) <= 1
             /\ port \in connecting.ports <=> threads # {} \/ ended # {}
             /\ IF here = {} THEN accounts.entry[port] = 0
                ELSE \A a \in here : accounts.engines[accounts.entry[port]].life = a.life

\* Every page is counted once, and to the engine it came through, though engines close and
\* others take their ports (embedded_bridge.rs finish; R5, P15).
PagesAreTheirEngines ==
    /\ \A x \in accounts.closed : x.entry # 0 /\ accounts.engines[x.entry].life = x.life
    /\ turn = "over" =>
         \A page \in 1..spoken.pages :
            \E i \in DOMAIN accounts.counts : \E part \in accounts.counts[i] :
               /\ page \in part.pages /\ accounts.engines[i].life = part.life
               /\ \A j \in DOMAIN accounts.counts : \A other \in accounts.counts[j] :
                     page \in other.pages => j = i /\ other = part

\* A listener that does not answer is asked 1 + RETRIES times while it stands, and a server
\* of a Qt host, away from the port the engine was told, only when its engine has come up
\* (cdp_discover.rs Memory::due, worth_asking; R4-N29).
OwnServersAreLeftAlone ==
    \A port \in Ports :
        LET s == sockets[port] IN
        /\ s.kind \in {"server", "bound"} => s.asked <= 1 + RETRIES
        /\ s.asked > 0 /\ s.pid \in QtHosts /\ port # QtPort => s.pid \in runs

BridgeIsSound == BridgeTypeOK /\ OneEach /\ PagesAreTheirEngines /\ OwnServersAreLeftAlone

\* An endpoint of the family that serves, where the thread looks: nothing its memory holds
\* against it, and for a Qt host's own port, the engine up and no other port of it open.
Findable(port) ==
    LET s == sockets[port] IN
    /\ s.kind = "engine" /\ s.pid \in joined /\ turn # "over"
    /\ ~Spent(memory, Key(s.pid, port))
    /\ port # QtPort => \A other \in Ports \ {port} : sockets[other].pid # s.pid
    /\ port # QtPort /\ s.pid \in QtHosts => s.pid \in runs

Reached(life) == \E i \in DOMAIN accounts.engines : accounts.engines[i].life = life
SaidUnreached == spoken.warned \cap {"unreachable", "unavailable"} # {}

\* An endpoint that stays is reached in the end, or the session says what kept it from it -
\* also one on the port of an engine that has gone.  Two are not: one that takes the place of
\* an older one of its process before a sweep sees the port free, and one whose find is taken
\* in a turn that has not yet seen the older connection's end (cdp_discover.rs Memory,
\* embedded_bridge.rs take_notices, pump).
Unheard(port) ==
    LET life == sockets[port].life IN
    Findable(port) /\ ~Reached(life) /\ ~SaidUnreached /\ life \notin spoken.aside

SomeEngineIsUnheard == \E port \in Ports : Unheard(port)
EnginesAreReached == SomeEngineIsUnheard ~> ~SomeEngineIsUnheard
=============================================================================
