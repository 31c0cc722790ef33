----------------------------- MODULE Portproxy -----------------------------
(***************************************************************************)
(* The Windows tier of the bridges (internal/bridge): the table of netsh   *)
(* portproxy rules, the elevated scripts that apply and remove bridges     *)
(* (apply.go), the parser of `netsh interface portproxy show all` and the  *)
(* comparison of its rows with the declared bridges (state.go), on which   *)
(* an apply decides what needs no script.                                  *)
(*                                                                         *)
(* Bridges.tla abstracts from all this to one state per bridge: absent,    *)
(* drifted or installed.  Here it is checked that the scripts and the      *)
(* comparison agree on what those mean.                                    *)
(***************************************************************************)
EXTENDS Naturals, Sequences, SequencesExt

CONSTANTS
    Bridge,    \* the Windows bridges
    Order,     \* ... in the order of bridges.yaml
    Address,   \* IPv4 addresses to listen on
    Address6,  \* IPv6 addresses, of rules that are not ours
    Port,      \* ports to listen on
    Target,    \* addresses and ports to connect to
    Sentinel,  \* the listen address ${wsl-host-ip}
    NoIP,      \* the address of the WSL adapter is not known: ""
    Declared,  \* the declarations the user writes
    MaxEvents  \* bound: edits, renumberings, foreign rules

Family == {"auto", "v4", "v6"}
Listen == [addr : Address \union {Sentinel}, port : Port]
Declaration == [listen : Listen, connect : Target, family : Family]
Entry ==
    [type : {"v4tov4", "v4tov6"}, listen : [addr : Address, port : Port], connect : Target]
    \union
    [type : {"v6tov4", "v6tov6"}, listen : [addr : Address6, port : Port], connect : Target]

ASSUME AddressAssumption ==
    Sentinel \notin Address /\ NoIP \notin Address /\ Address \intersect Address6 = {}
ASSUME DeclaredAssumption == Declared \subseteq [Bridge -> Declaration]
ASSUME OrderAssumption ==
    Order \in Seq(Bridge) /\ \A b \in Bridge : \E n \in 1 .. Len(Order) : Order[n] = b
ASSUME BoundAssumption == MaxEvents \in Nat

VARIABLES
    conf,    \* conf[b]: b as bridges.yaml declares it
    table,   \* the portproxy rules: one per type and listen endpoint
    hostIP,  \* the address of the WSL adapter
    last,    \* history: the last operation and its bridges
    events   \* bound

vars == <<conf, table, hostIP, last, events>>

-----------------------------------------------------------------------------
(* The scripts. *)

ListenOf(b) ==
    LET l == conf[b].listen
    IN  IF l.addr = Sentinel THEN [l EXCEPT !.addr = hostIP] ELSE l

(* Mutants of FamilyToProxyType: it names the listening side, and it takes *)
(* auto for IPv6, as an earlier version could.                             *)
FamilyOfListener(f) == IF f = "v6" THEN "v6tov4" ELSE "v4tov4"
FamilyAutoIsV6(f) == IF f = "v4" THEN "v4tov4" ELSE "v4tov6"

FamilyToProxyType(f) == IF f = "v6" THEN "v4tov6" ELSE "v4tov4"

(* Mutant of PortproxyRemove: the rules of a port go at every address.    *)
RemoveByPort(t, b) ==
    {e \in t : ~(e.type \in {"v4tov4", "v4tov6"} /\ e.listen.port = ListenOf(b).port)}

(* Both scripts delete both types at the listen endpoint first.            *)
PortproxyRemove(t, b) ==
    {e \in t : ~(e.type \in {"v4tov4", "v4tov6"} /\ e.listen = ListenOf(b))}

PortproxyApply(t, b) ==
    PortproxyRemove(t, b) \union
        {[type |-> FamilyToProxyType(conf[b].family), listen |-> ListenOf(b),
          connect |-> conf[b].connect]}

(* A script goes through its bridges in the order of the file. *)
PowerShellApply(t, B) ==
    LET after[n \in 0 .. Len(Order)] ==
            IF n = 0 THEN t
            ELSE IF Order[n] \in B THEN PortproxyApply(after[n - 1], Order[n]) ELSE after[n - 1]
    IN  after[Len(Order)]

PowerShellRemove(t, B) ==
    LET after[n \in 0 .. Len(Order)] ==
            IF n = 0 THEN t
            ELSE IF Order[n] \in B THEN PortproxyRemove(after[n - 1], Order[n]) ELSE after[n - 1]
    IN  after[Len(Order)]

-----------------------------------------------------------------------------
(* The observed state. *)

(* The output of netsh: a section per type, its rows in any order.         *)
Header(type) == [header |-> type]
Section(t, type) == <<Header(type)>> \o SetToSeq({e \in t : e.type = type})
Show(t) ==
    Section(t, "v4tov4") \o Section(t, "v4tov6") \o Section(t, "v6tov4") \o Section(t, "v6tov6")

IsHeader(line) == "header" \in DOMAIN line

(* Mutant of SectionType: the sections of IPv6 listeners go unrecognized.  *)
SectionTypeV4(line) == IsHeader(line) /\ line.header \in {"v4tov4", "v4tov6"}

(* The line begins the section of a type that the parser knows. *)
SectionType(line) == IsHeader(line) /\ line.header \in {"v4tov4", "v4tov6", "v6tov4", "v6tov6"}

(* The rows, each under its line, which keeps their order; a row holds no  *)
(* type and has that of the section it is in, and without one is no entry. *)
ParsePortproxyShow(lines) ==
    LET sections(i) == {h \in 1 .. i : SectionType(lines[h])}
        rows == {i \in DOMAIN lines : ~IsHeader(lines[i]) /\ sections(i) # {}}
    IN  [i \in rows |-> [type |-> lines[Max(sections(i))].header,
                         listen |-> lines[i].listen, connect |-> lines[i].connect]]

Compare(b, e) ==
    IF e.listen # ListenOf(b) THEN "other"
    ELSE IF e.connect # conf[b].connect THEN "drifted"
    ELSE IF conf[b].family = "v6"
         THEN IF e.type = "v4tov6" THEN "active" ELSE "drifted"
         ELSE IF e.type = "v4tov4" THEN "active" ELSE "drifted"

Entries == ParsePortproxyShow(Show(table))

(* The first row at the bridge's endpoint decides; `answers` is whether a  *)
(* TCP connect to the listener succeeds.                                   *)
Status(b, entries, answers) ==
    LET here == {i \in DOMAIN entries : Compare(b, entries[i]) # "other"}
    IN  CASE ListenOf(b).addr = NoIP -> "unknown"
          [] ListenOf(b).addr # NoIP /\ here = {} -> "missing"
          [] ListenOf(b).addr # NoIP /\ here # {} ->
                IF Compare(b, entries[Min(here)]) = "drifted" THEN "drifted"
                ELSE IF answers THEN "active" ELSE "degraded"

-----------------------------------------------------------------------------
Nothing == [verb |-> "none", names |-> {}]

Init ==
    /\ conf \in Declared
    /\ table = {}
    /\ hostIP \in Address
    /\ last = Nothing
    /\ events = 0

(* One elevated script per request, for the bridges that need it; it stops *)
(* at its head when the adapter has no address, which the request does not *)
(* learn: no operation to promise anything (`last`).                       *)
Elevated(verb, B, needing, result) ==
    /\ IF needing = {} \/ hostIP # NoIP
       THEN table' = result /\ last' = [verb |-> verb, names |-> B]
       ELSE table' = table /\ last' = Nothing
    /\ UNCHANGED <<conf, hostIP, events>>

(* applyBridges: rules in place are skipped, and a listener that does not  *)
(* answer is set up again.                                                 *)
WindowsBridgesNeedingApply(B, answering) ==
    LET entries == Entries
    IN  {b \in B : Status(b, entries, b \in answering) # "active"}

ApplyBridges(B, answering) ==
    LET needing == WindowsBridgesNeedingApply(B, answering)
    IN  Elevated("apply", B, needing, PowerShellApply(table, needing))

(* pauseBridges: absent rules need no script. *)
WindowsBridgesNeedingRemoval(B) ==
    LET entries == Entries
    IN  {b \in B : Status(b, entries, TRUE) # "missing"}

PauseBridges(B) ==
    LET needing == WindowsBridgesNeedingRemoval(B)
    IN  Elevated("remove", B, needing, PowerShellRemove(table, needing))

(* resetBridges does not look first. *)
ResetBridges(B) == Elevated("remove", B, B, PowerShellRemove(table, B))

Event ==
    /\ events < MaxEvents
    /\ events' = events + 1
    /\ last' = Nothing

(* The user edits bridges.yaml. *)
Edit(d) ==
    /\ conf' = d
    /\ Event
    /\ UNCHANGED <<table, hostIP>>

(* `wsl --shutdown`: the adapter gets a new address, or none yet. *)
Renumber(ip) ==
    /\ hostIP' = ip
    /\ Event
    /\ UNCHANGED <<conf, table>>

(* Somebody else adds or deletes a rule. *)
Foreign(e) ==
    /\ table' = IF e \in table THEN table \ {e}
                ELSE {f \in table : f.type # e.type \/ f.listen # e.listen} \union {e}
    /\ Event
    /\ UNCHANGED <<conf, hostIP>>

Next ==
    \/ \E B \in SUBSET Bridge \ {{}} :
        \/ \E answering \in SUBSET B : ApplyBridges(B, answering)
        \/ PauseBridges(B)
        \/ ResetBridges(B)
    \/ \E d \in Declared : Edit(d)
    \/ \E ip \in Address \union {NoIP} : Renumber(ip)
    \/ \E e \in Entry : Foreign(e)

Spec == Init /\ [][Next]_vars

-----------------------------------------------------------------------------
(* Properties *)

TypeOK ==
    /\ conf \in Declared
    /\ table \in SUBSET Entry
    /\ hostIP \in Address \union {NoIP}
    /\ last \in [verb : {"none", "apply", "remove"}, names : SUBSET Bridge]
    /\ events \in 0..MaxEvents

(* Validate accepts two bridges on one endpoint: the later one in the file *)
(* takes it.  A bridge is alone when no other one listens where it does.   *)
Alone(b) == \A c \in Bridge \ {b} : ListenOf(c) # ListenOf(b)

(* The table is a function of type and endpoint, and parsing what netsh    *)
(* prints gives back the table, every rule under the type of its section.  *)
ParseRoundTrip ==
    LET entries == Entries
    IN  /\ {entries[i] : i \in DOMAIN entries} = table
        /\ \A e, f \in table : e.type = f.type /\ e.listen = f.listen => e = f

(* The comparison and the scripts agree.  After an apply, whatever it      *)
(* skipped, every bridge alone on its endpoint matches its rule, so that a *)
(* second apply of listeners that answer elevates for none of them; after  *)
(* a pause or a reset no rule of its bridges is left, as long as the       *)
(* adapter has kept its address.                                           *)
OperationsConverge ==
    \A b \in last.names :
        /\ last.verb = "apply" /\ Alone(b) => Status(b, Entries, TRUE) = "active"
        /\ last.verb = "remove" => Status(b, Entries, TRUE) \in {"missing", "unknown"}

(* An operation on some bridges leaves the state of every other one alone. *)
BystandersKept ==
    [][last'.verb # "none" =>
        \A c \in Bridge \ last'.names :
            Alone(c) => Status(c, Entries, TRUE)' = Status(c, Entries, TRUE)]_vars
=============================================================================
