------------------------ MODULE InfrastructureProofs ------------------------
(***************************************************************************)
(* Proofs about the panels that put together what several systems tell of  *)
(* themselves: that the badges of the dependency graph and the graph agree *)
(* and a diagnosis ends at a cause, that the disk panel promises no more   *)
(* than a prune frees, and that a discovery lists every source once.  The  *)
(* walks over the graph and the sums over what is stored are functions by  *)
(* recursion on their steps.  The types of all panels come last, as some   *)
(* rest on these proofs.                                                   *)
(***************************************************************************)
EXTENDS PanelsProofs, FiniteSetTheorems, Integers

(* Graph: an entity's badge comes from the worst of its refs, its node's   *)
(* health from the worst of its suppliers; both know a sound supplier by   *)
(* the same observations.                                                  *)

LEMMA MaxOf ==
    ASSUME NEW M \in SUBSET (0 .. 5), M # {}
    PROVE  G!Max(M) \in M /\ \A m \in M : m <= G!Max(M)
<1>1. \E x \in M : \A y \in M : x >= y
    <2>1. CASE 5 \in M
        BY <2>1
    <2>2. CASE 5 \notin M /\ 4 \in M
        BY <2>2
    <2>3. CASE 5 \notin M /\ 4 \notin M /\ 3 \in M
        BY <2>3
    <2>4. CASE 5 \notin M /\ 4 \notin M /\ 3 \notin M /\ 2 \in M
        BY <2>4
    <2>5. CASE 5 \notin M /\ 4 \notin M /\ 3 \notin M /\ 2 \notin M /\ 1 \in M
        BY <2>5
    <2>6. CASE 5 \notin M /\ 4 \notin M /\ 3 \notin M /\ 2 \notin M /\ 1 \notin M
        <3>1. \A m \in M : m = 0
            BY <2>6
        <3>2. PICK m \in M : TRUE
            OBVIOUS
        <3> QED
            BY <3>1, <3>2
    <2> QED
        BY <2>1, <2>2, <2>3, <2>4, <2>5, <2>6
<1> QED
    BY <1>1 DEF G!Max

(* What the observations are. *)
Observations ==
    /\ css \in [Process -> G!CSS]
    /\ bridge \in [BridgeName -> G!BridgeState]
    /\ seen \in [Declared -> G!ContainerState]
    /\ up \in [Tier -> BOOLEAN]
    /\ listed \subseteq {t \in Tier : up[t]}

Ratings == {G!RefOK, G!RefStopped, G!RefMissing, G!RefUnresolved, G!RefOffline}
Healths == {G!HealthOK, G!HealthDegraded, G!HealthOffline, G!HealthDown, G!HealthMissing,
            G!HealthUnknown}

(* What a ref says is what was observed; and a firm one, whose bridge was  *)
(* not written anew between the two reads, says it of its node.            *)
Rated(r, drawn, firm) ==
    /\ r.state \in Ratings
    /\ r.state = G!RefOK =>
        /\ r.raw \in {"running", "starting"}
        /\ r.node \in DOMAIN G!Observed(drawn)
        /\ firm => ~G!isBad(G!Observed(drawn)[r.node])
    /\ r.state = G!RefStopped => r.raw \in {"stopped", "error"}
    /\ r.state = G!RefOffline => ~G!anyOnline

LEMMA Unlike ==
    /\ G!RefOK # G!RefStopped /\ G!RefOK # G!RefMissing /\ G!RefOK # G!RefUnresolved
    /\ G!RefOK # G!RefOffline /\ G!RefStopped # G!RefMissing /\ G!RefStopped # G!RefUnresolved
    /\ G!RefStopped # G!RefOffline /\ G!RefMissing # G!RefOffline
    /\ G!RefUnresolved # G!RefOffline /\ G!RefMissing # G!RefUnresolved
BY DEF G!RefOK, G!RefStopped, G!RefMissing, G!RefUnresolved, G!RefOffline

LEMMA RefFields ==
    ASSUME NEW state_, NEW kind_, NEW inst_, NEW name_, NEW raw_
    PROVE  /\ G!Ref(state_, kind_, inst_, name_, raw_).state = state_
           /\ G!Ref(state_, kind_, inst_, name_, raw_).node = <<kind_, inst_, name_>>
           /\ G!Ref(state_, kind_, inst_, name_, raw_).raw = raw_
BY DEF G!Ref

(* A ref that found nothing. *)
LEMMA UnfoundRated ==
    ASSUME NEW s \in Ratings \ {G!RefOK, G!RefStopped}, s = G!RefOffline => ~G!anyOnline,
           NEW inst_, NEW kind_, NEW name_, NEW raw_, NEW drawn, NEW firm \in BOOLEAN
    PROVE  Rated(G!Ref(s, kind_, inst_, name_, raw_), drawn, firm)
BY RefFields DEF Rated

(* One to a supplier that runs, and one to a supplier that does not. *)
LEMMA SoundRated ==
    ASSUME NEW inst_, NEW kind_, NEW name_, NEW raw_ \in {"running", "starting"},
           NEW drawn, NEW firm \in BOOLEAN,
           <<kind_, inst_, name_>> \in DOMAIN G!Observed(drawn),
           firm => ~G!isBad(G!Observed(drawn)[<<kind_, inst_, name_>>])
    PROVE  Rated(G!Ref(G!RefOK, kind_, inst_, name_, raw_), drawn, firm)
<1> SUFFICES ASSUME NEW r, r.state = G!RefOK, r.node = <<kind_, inst_, name_>>, r.raw = raw_
             PROVE  Rated(r, drawn, firm)
    BY RefFields
<1> QED
    BY Unlike, Zenon DEF Rated, Ratings

LEMMA StoppedRated ==
    ASSUME NEW inst_, NEW kind_, NEW name_, NEW raw_ \in {"stopped", "error"},
           NEW drawn, NEW firm \in BOOLEAN
    PROVE  Rated(G!Ref(G!RefStopped, kind_, inst_, name_, raw_), drawn, firm)
<1> SUFFICES ASSUME NEW r, r.state = G!RefStopped, r.node = <<kind_, inst_, name_>>, r.raw = raw_
             PROVE  Rated(r, drawn, firm)
    BY RefFields
<1> QED
    BY Unlike, Zenon DEF Rated, Ratings

LEMMA SoundState == \A s \in {"active", "running"} : ~G!isBad(G!healthFromState(s))
BY DEF G!healthFromState, G!isBad, G!HealthOK, G!HealthOffline, G!HealthDown,
       G!HealthMissing, G!HealthUnknown

LEMMA ObservedNodes == \A drawn :
    /\ \A p \in G!procs :
        /\ <<"service", p[1], p[2]>> \in DOMAIN G!Observed(drawn)
        /\ G!Observed(drawn)[<<"service", p[1], p[2]>>] = G!healthFromCSS(css[p])
    /\ \A b \in BridgeName :
        /\ <<"bridge", "", b>> \in DOMAIN G!Observed(drawn)
        /\ G!Observed(drawn)[<<"bridge", "", b>>] = G!healthFromState(drawn[b])
    /\ \A c \in Declared :
        /\ <<"container", "", c>> \in DOMAIN G!Observed(drawn)
        /\ G!Observed(drawn)[<<"container", "", c>>] = G!healthFromState(seen[c])
<1> TAKE drawn
<1>1. ASSUME NEW p \in G!procs
      PROVE  /\ <<"service", p[1], p[2]>> \in DOMAIN G!Observed(drawn)
             /\ G!Observed(drawn)[<<"service", p[1], p[2]>>] = G!healthFromCSS(css[p])
    <2>1. p = <<p[1], p[2]>>
        BY Constants DEF G!Assumptions, G!procs
    <2> QED
        BY <2>1 DEF G!Observed
<1>2. ASSUME NEW b \in BridgeName
      PROVE  /\ <<"bridge", "", b>> \in DOMAIN G!Observed(drawn)
             /\ G!Observed(drawn)[<<"bridge", "", b>>] = G!healthFromState(drawn[b])
    BY DEF G!Observed
<1>3. ASSUME NEW c \in Declared
      PROVE  /\ <<"container", "", c>> \in DOMAIN G!Observed(drawn)
             /\ G!Observed(drawn)[<<"container", "", c>>] = G!healthFromState(seen[c])
    BY DEF G!Observed
<1> QED
    BY <1>1, <1>2, <1>3

(* A ref to a process that was found. *)
LEMMA FoundRated ==
    ASSUME Observations, NEW p \in G!procs, NEW drawn, NEW firm \in BOOLEAN
    PROVE  Rated(G!Ref(G!refStateFromCSS(css[p]), "service", p[1], p[2], css[p]), drawn, firm)
<1>1. css[p] \in G!CSS
    BY DEF Observations, G!procs
<1>2. /\ <<"service", p[1], p[2]>> \in DOMAIN G!Observed(drawn)
      /\ G!Observed(drawn)[<<"service", p[1], p[2]>>] = G!healthFromCSS(css[p])
    BY ObservedNodes
<1>3. G!refStateFromCSS(css[p]) = G!RefOK =>
        css[p] \in {"running", "starting"} /\ ~G!isBad(G!healthFromCSS(css[p]))
    BY DEF G!refStateFromCSS, G!RefOK, G!RefStopped, G!healthFromCSS, G!isBad, G!HealthOK,
           G!HealthDegraded, G!HealthOffline, G!HealthDown, G!HealthMissing, G!HealthUnknown
<1>4. G!refStateFromCSS(css[p]) = G!RefStopped => css[p] = "stopped"
    BY <1>1 DEF G!refStateFromCSS, G!RefOK, G!RefStopped, G!CSS
<1>5. G!refStateFromCSS(css[p]) \in {G!RefOK, G!RefStopped} /\ G!RefOffline # G!RefOK
      /\ G!RefOffline # G!RefStopped
    BY DEF G!refStateFromCSS, G!RefOK, G!RefStopped, G!RefOffline
<1> QED
    BY <1>2, <1>3, <1>4, <1>5, RefFields DEF Rated, Ratings

(* There is a first process of any some that were found. *)
LEMMA FirstTier ==
    ASSUME Observations, NEW hits \in SUBSET G!procs, hits # {}
    PROVE  (CHOOSE q \in hits : \A o \in hits : G!TierOrder(q[1], o[1])) \in hits
<1>1. \A p \in hits : p[1] \in {"windows", "wsl"}
    BY Constants DEF G!Assumptions, G!procs
<1>2. \E q \in hits : \A o \in hits : G!TierOrder(q[1], o[1])
    <2>1. CASE \E q \in hits : q[1] = "windows"
        BY <1>1, <2>1 DEF G!TierOrder
    <2>2. CASE \A q \in hits : q[1] # "windows"
        BY <1>1, <2>2 DEF G!TierOrder
    <2> QED
        BY <2>1, <2>2
<1> QED
    BY <1>2

LEMMA ServiceRated ==
    ASSUME Observations, NEW n, NEW drawn, NEW firm \in BOOLEAN
    PROVE  Rated(G!resolveService(n), drawn, firm)
<1> DEFINE hits == {p \in G!procs : p[2] = n.name /\ n.tier \in {"", p[1]}}
<1> DEFINE p == CHOOSE q \in hits : \A o \in hits : G!TierOrder(q[1], o[1])
<1>1. CASE hits # {}
    <2>1. p \in G!procs
        BY <1>1, FirstTier, ZenonT(30)
    <2>2. G!resolveService(n) = G!Ref(G!refStateFromCSS(css[p]), "service", p[1], p[2], css[p])
        BY <1>1 DEF G!resolveService
    <2> QED
        BY <2>1, <2>2, FoundRated
<1>2. CASE hits = {}
    <2>1. G!resolveService(n) = G!Ref(IF G!anyOnline THEN G!RefMissing ELSE G!RefOffline,
                                      "service", n.tier, n.name, "")
        BY <1>2 DEF G!resolveService
    <2>2. CASE G!anyOnline
        BY <2>1, <2>2, Unlike, UnfoundRated DEF Ratings
    <2>3. CASE ~G!anyOnline
        BY <2>1, <2>3, Unlike, UnfoundRated DEF Ratings
    <2> QED
        BY <2>2, <2>3
<1> QED
    BY <1>1, <1>2

LEMMA BridgeRated ==
    ASSUME NEW e, NEW n, NEW drawn, NEW reads, NEW firm \in BOOLEAN,
           n.name \in BridgeName => /\ reads[<<e, n>>] \in G!BridgeState
                                    /\ (firm => reads[<<e, n>>] = drawn[n.name])
    PROVE  Rated(G!resolveBridge(e, n, reads), drawn, firm)
<1> DEFINE id == <<"bridge", "", n.name>>
<1> DEFINE s == reads[<<e, n>>]
<1>1. CASE n.name \notin BridgeName
    <2>1. G!resolveBridge(e, n, reads) = G!Ref(G!RefMissing, "bridge", "", n.name, "")
        BY <1>1 DEF G!resolveBridge
    <2> QED
        BY <2>1, Unlike, UnfoundRated DEF Ratings
<1>2. CASE n.name \in BridgeName
    <2>1. s \in G!BridgeState
        BY <1>2
    <2>7. id \in DOMAIN G!Observed(drawn) /\ G!Observed(drawn)[id] = G!healthFromState(drawn[n.name])
        BY <1>2, ObservedNodes
    <2>8. firm => s = drawn[n.name]
        BY <1>2
    <2>2. id \in DOMAIN G!Observed(drawn) /\ (firm => G!Observed(drawn)[id] = G!healthFromState(s))
        BY <2>7, <2>8
    <2>3. CASE s = "active"
        <3>1. G!resolveBridge(e, n, reads) = G!Ref(G!RefOK, "bridge", "", n.name, "running")
            BY <1>2, <2>3 DEF G!resolveBridge
        <3>2. firm => ~G!isBad(G!Observed(drawn)[id])
            BY <2>2, <2>3, SoundState
        <3> QED
            BY <2>2, <3>1, <3>2, SoundRated
    <2>4. CASE s = "drifted"
        <3>1. G!resolveBridge(e, n, reads) = G!Ref(G!RefStopped, "bridge", "", n.name, "error")
            BY <1>2, <2>4 DEF G!resolveBridge
        <3> QED
            BY <3>1, StoppedRated
    <2>5. CASE s = "missing"
        <3>1. G!resolveBridge(e, n, reads) = G!Ref(G!RefMissing, "bridge", "", n.name, "stopped")
            BY <1>2, <2>5 DEF G!resolveBridge
        <3> QED
            BY <3>1, Unlike, UnfoundRated DEF Ratings
    <2>6. CASE s = "unknown"
        <3>1. G!resolveBridge(e, n, reads) = G!Ref(G!RefUnresolved, "bridge", "", n.name, "unknown")
            BY <1>2, <2>6 DEF G!resolveBridge
        <3> QED
            BY <3>1, Unlike, UnfoundRated DEF Ratings
    <2> QED
        BY <2>1, <2>3, <2>4, <2>5, <2>6 DEF G!BridgeState
<1> QED
    BY <1>1, <1>2

LEMMA ContainerRated ==
    ASSUME Observations, NEW n, NEW drawn, NEW firm \in BOOLEAN
    PROVE  Rated(G!resolveContainer(n), drawn, firm)
<1> DEFINE id == <<"container", "", n.name>>
<1> DEFINE s == seen[n.name]
<1>1. CASE n.name \notin Declared
    <2>1. G!resolveContainer(n) = G!Ref(G!RefMissing, "container", "", n.name, "")
        BY <1>1 DEF G!resolveContainer
    <2> QED
        BY <2>1, Unlike, UnfoundRated DEF Ratings
<1>2. CASE n.name \in Declared
    <2>1. s \in G!ContainerState
        BY <1>2 DEF Observations
    <2>2. id \in DOMAIN G!Observed(drawn) /\ G!Observed(drawn)[id] = G!healthFromState(s)
        BY <1>2, ObservedNodes
    <2>3. CASE s = "running"
        <3>1. G!resolveContainer(n) = G!Ref(G!RefOK, "container", "", n.name, "running")
            BY <1>2, <2>3 DEF G!resolveContainer
        <3>2. ~G!isBad(G!Observed(drawn)[id])
            BY <2>2, <2>3, SoundState
        <3> QED
            BY <2>2, <3>1, <3>2, SoundRated
    <2>4. CASE s = "stopped"
        <3>1. G!resolveContainer(n) = G!Ref(G!RefStopped, "container", "", n.name, "stopped")
            BY <1>2, <2>4 DEF G!resolveContainer
        <3> QED
            BY <3>1, StoppedRated
    <2>5. CASE s = "missing"
        <3>1. G!resolveContainer(n) = G!Ref(G!RefMissing, "container", "", n.name, "stopped")
            BY <1>2, <2>5 DEF G!resolveContainer
        <3> QED
            BY <3>1, Unlike, UnfoundRated DEF Ratings
    <2>6. CASE s = "unknown"
        <3>1. G!resolveContainer(n) = G!Ref(G!RefUnresolved, "container", "", n.name, "unknown")
            BY <1>2, <2>6 DEF G!resolveContainer
        <3> QED
            BY <3>1, Unlike, UnfoundRated DEF Ratings
    <2> QED
        BY <2>1, <2>3, <2>4, <2>5, <2>6 DEF G!ContainerState
<1> QED
    BY <1>1, <1>2

(* What a legacy match is: a process that was found, or nothing. *)
LEMMA LegacyMatches ==
    ASSUME Observations, NEW e
    PROVE  \/ \E p \in G!procs :
                G!legacyMCPMatch(e)
                    = G!Ref(G!refStateFromCSS(css[p]), "service", p[1], p[2], css[p])
           \/ G!legacyMCPMatch(e) = G!Ref(IF G!anyOnline THEN G!RefUnresolved ELSE G!RefOffline,
                                          "service", "", "", "")
<1> DEFINE like == {p \in G!procs : p[2] = e.name \/ <<e.name, p[2]>> \in Alike}
<1> DEFINE rated(p) == G!refStateFromCSS(css[p])
<1> DEFINE best == {p \in like : \A q \in like : rated(p) <= rated(q)}
<1> DEFINE p == CHOOSE q \in best : \A o \in best : G!TierOrder(q[1], o[1])
<1>1. CASE like # {}
    <2>1. \A q \in like : rated(q) \in {0, 1}
        BY DEF G!refStateFromCSS, G!RefOK, G!RefStopped
    <2>2. best # {}
        <3>1. ASSUME NEW q \in like, rated(q) = 0
              PROVE  q \in best
            BY <2>1, <3>1
        <3>2. CASE \A q \in like : rated(q) # 0
            <4>1. \A q \in like : rated(q) = 1
                BY <2>1, <3>2
            <4>2. best = like
                <5> HIDE DEF like, rated
                <5> QED
                    BY <4>1
            <4> QED
                BY <1>1, <4>2
        <3> QED
            BY <3>1, <3>2
    <2>3. best \subseteq G!procs
        OBVIOUS
    <2>4. p \in best
        <3> HIDE DEF best
        <3> QED
            BY <2>2, <2>3, FirstTier
    <2>5. p \in G!procs
        BY <2>3, <2>4
    <2>6. G!legacyMCPMatch(e) = G!Ref(rated(p), "service", p[1], p[2], css[p])
        BY <1>1 DEF G!legacyMCPMatch
    <2> HIDE DEF p
    <2> QED
        BY <2>5, <2>6
<1>2. CASE like = {}
    BY <1>2 DEF G!legacyMCPMatch
<1> QED
    BY <1>1, <1>2

LEMMA LegacyRated ==
    ASSUME Observations, NEW e, NEW drawn, NEW firm \in BOOLEAN
    PROVE  Rated(G!legacyMCPMatch(e), drawn, firm)
<1> DEFINE s == IF G!anyOnline THEN G!RefUnresolved ELSE G!RefOffline
<1>1. s \in Ratings \ {G!RefOK, G!RefStopped} /\ (s = G!RefOffline => ~G!anyOnline)
    BY Unlike DEF Ratings
<1> HIDE DEF s
<1>2. CASE G!legacyMCPMatch(e) = G!Ref(s, "service", "", "", "")
    BY <1>1, <1>2, UnfoundRated
<1> QED
    BY <1>2, LegacyMatches, FoundRated DEF s

(* The states of the bridges as they were read, and the needs that found    *)
(* theirs in the state of its node.                                        *)
Reading(drawn, reads) ==
    drawn \in [BridgeName -> G!BridgeState] /\ reads \in [G!bridgeReads -> G!BridgeState]
Firm(e, drawn, reads) == \A x \in G!bridgeReads : x[1] = e => reads[x] = drawn[x[2].name]

LEMMA RefsRated ==
    ASSUME Observations, NEW drawn, NEW reads, Reading(drawn, reads), NEW e \in Entity,
           NEW r \in G!Refs(e, reads)
    PROVE  Rated(r, drawn, Firm(e, drawn, reads))
<1> DEFINE firm == Firm(e, drawn, reads)
<1>1. firm \in BOOLEAN
    BY DEF Firm
<1>2. ASSUME NEW n \in G!Match(e), n.kind = "bridge" PROVE Rated(G!resolveBridge(e, n, reads), drawn, firm)
    <2>1. ASSUME n.name \in BridgeName
          PROVE  <<e, n>> \in G!bridgeReads
        BY <1>2, <2>1 DEF G!bridgeReads
    <2>2. n.name \in BridgeName => /\ reads[<<e, n>>] \in G!BridgeState
                                  /\ (firm => reads[<<e, n>>] = drawn[n.name])
        BY <2>1 DEF Reading, Firm
    <2> HIDE DEF firm
    <2> QED
        BY <1>1, <2>2, BridgeRated
<1>3. /\ \A n : Rated(G!resolveService(n), drawn, firm) /\ Rated(G!resolveContainer(n), drawn, firm)
      /\ Rated(G!legacyMCPMatch(e), drawn, firm)
    <2> HIDE DEF firm
    <2> QED
        BY <1>1, ServiceRated, ContainerRated, LegacyRated
<1> HIDE DEF firm
<1>4. Rated(r, drawn, firm)
    BY <1>2, <1>3 DEF G!Refs
<1> QED
    BY <1>4 DEF firm

(* The roll-up of some refs is the worst of their ratings. *)
LEMMA RollUp ==
    ASSUME NEW refs, refs # {}, \A r \in refs : r.state \in Ratings
    PROVE  /\ \E r \in refs : r.state = G!rollup(refs)
           /\ G!rollup(refs) = G!RefOK => \A r \in refs : r.state = G!RefOK
<1> DEFINE M == {G!RefOK} \cup {r.state : r \in refs}
<1>1. Ratings = 0 .. 4 /\ G!RefOK = 0
    BY DEF Ratings, G!RefOK, G!RefStopped, G!RefMissing, G!RefUnresolved, G!RefOffline
<1>2. M \in SUBSET (0 .. 5) /\ M # {}
    BY <1>1
<1>3. G!rollup(refs) = G!Max(M)
    BY DEF G!rollup
<1>4. G!Max(M) \in M /\ \A m \in M : m <= G!Max(M)
    <2> HIDE DEF M
    <2> QED
        BY <1>2, MaxOf
<1>5. ASSUME G!rollup(refs) = 0, NEW r \in refs PROVE r.state = 0
    <2>1. r.state \in 0 .. 4 /\ r.state <= 0
        BY <1>1, <1>3, <1>4, <1>5
    <2> QED
        BY <2>1
<1>6. CASE G!rollup(refs) = 0
    BY <1>1, <1>5, <1>6
<1>7. CASE G!rollup(refs) # 0
    BY <1>1, <1>3, <1>4, <1>7
<1> QED
    BY <1>1, <1>5, <1>6, <1>7

LEMMA HealthRatings ==
    /\ ~G!isBad(G!healthFromRefState(G!RefOK))
    /\ \A s \in Ratings \ {G!RefOK} : G!isBad(G!healthFromRefState(s))
    /\ \A s : G!healthFromRefState(s) \in Healths
BY DEF Ratings, G!RefOK, G!RefStopped, G!RefMissing, G!RefUnresolved, G!RefOffline,
       Healths, G!HealthOK, G!HealthDegraded, G!HealthOffline, G!HealthDown, G!HealthMissing,
       G!HealthUnknown, G!isBad, G!healthFromRefState

(* The health of an entity: bad when its roll-up is, or any supplier. *)
LEMMA Worst ==
    ASSUME NEW refs, refs # {}, NEW drawn, NEW firm \in BOOLEAN, \A r \in refs : Rated(r, drawn, firm),
           NEW supplier, \A r \in refs : /\ supplier[r.node] \in Healths
                                         /\ r.node \in DOMAIN G!Observed(drawn) =>
                                                supplier[r.node] = G!Observed(drawn)[r.node]
    PROVE  /\ G!rollup(refs) # G!RefOK => G!isBad(G!worstSupplier(refs, supplier))
           /\ firm /\ G!rollup(refs) = G!RefOK => ~G!isBad(G!worstSupplier(refs, supplier))
<1> DEFINE own == G!healthFromRefState(G!rollup(refs))
<1> DEFINE M == {own} \cup {supplier[r.node] : r \in refs}
<1>1. Healths = 0 .. 5 /\ \A h \in Healths : G!isBad(h) <=> h >= 2
    BY DEF Healths, G!HealthOK, G!HealthDegraded, G!HealthOffline, G!HealthDown, G!HealthMissing,
           G!HealthUnknown, G!isBad
<1>2. M \in SUBSET (0 .. 5) /\ M # {}
    BY <1>1, HealthRatings
<1>3. G!worstSupplier(refs, supplier) = G!Max(M)
    BY DEF G!worstSupplier
<1>4. G!Max(M) \in M /\ \A m \in M : m <= G!Max(M)
    <2> HIDE DEF M
    <2> QED
        BY <1>2, MaxOf
<1>5. CASE firm /\ G!rollup(refs) = G!RefOK
    <2>1. \A r \in refs : r.state = G!RefOK
        BY <1>5, RollUp DEF Rated
    <2>2. \A r \in refs : ~G!isBad(supplier[r.node])
        BY <1>5, <2>1 DEF Rated
    <2>3. \A m \in M : ~G!isBad(m)
        BY <1>5, <2>2, HealthRatings
    <2> QED
        BY <1>3, <1>4, <1>5, <2>3
<1>6. CASE G!rollup(refs) # G!RefOK
    <2>1. G!rollup(refs) \in Ratings \ {G!RefOK}
        BY <1>6, RollUp DEF Rated
    <2>2. own \in Healths /\ own >= 2
        BY <1>1, <2>1, HealthRatings
    <2>3. own <= G!Max(M) /\ G!Max(M) \in 0 .. 5
        BY <1>2, <1>4
    <2>4. G!Max(M) \in Healths /\ G!Max(M) >= 2
        BY <1>1, <2>2, <2>3
    <2> QED
        BY <1>1, <1>3, <1>6, <2>4
<1> QED
    BY <1>5, <1>6

(* The badges the same refs can give. *)
LEMMA BadgesAre ==
    ASSUME NEW refs, refs # {}, NEW drawn, NEW firm \in BOOLEAN, \A r \in refs : Rated(r, drawn, firm),
           NEW b \in G!Badges(refs)
    PROVE  /\ b \in {"running", "starting"} <=> G!rollup(refs) = G!RefOK
           /\ b = "offline" => ~G!anyOnline
<1> DEFINE s == G!rollup(refs)
<1>1. PICK rep \in refs :
        /\ rep.state = s
        /\ b = CASE s \in {G!RefOK, G!RefStopped} -> IF rep.raw # "" THEN rep.raw ELSE "stopped"
                 [] s = G!RefMissing -> "stopped"
                 [] s = G!RefUnresolved -> "unresolved"
                 [] OTHER -> "offline"
    BY DEF G!Badges
<1>2. Rated(rep, drawn, firm) /\ s \in Ratings
    BY <1>1 DEF Rated
<1> HIDE DEF s
<1>3. CASE s = G!RefOK
    <2>1. rep.raw \in {"running", "starting"}
        BY <1>1, <1>2, <1>3, Zenon DEF Rated
    <2>2. rep.raw # ""
        BY <2>1
    <2>3. b = IF rep.raw # "" THEN rep.raw ELSE "stopped"
        BY <1>1, <1>3, Unlike
    <2> QED
        BY <1>3, <2>1, <2>2, <2>3 DEF s
<1>4. CASE s = G!RefStopped
    <2>1. rep.raw \in {"stopped", "error"}
        BY <1>1, <1>2, <1>4, Zenon DEF Rated
    <2>2. rep.raw # ""
        BY <2>1
    <2>3. b = IF rep.raw # "" THEN rep.raw ELSE "stopped"
        BY <1>1, <1>4, Unlike
    <2> QED
        BY <1>4, <2>1, <2>2, <2>3, Unlike DEF s
<1>5. CASE s = G!RefMissing
    <2>1. b = "stopped"
        BY <1>1, <1>5, Unlike
    <2> QED
        BY <1>5, <2>1, Unlike DEF s
<1>6. CASE s = G!RefUnresolved
    <2>1. b = "unresolved"
        BY <1>1, <1>6, Unlike
    <2> QED
        BY <1>6, <2>1, Unlike DEF s
<1>7. CASE s = G!RefOffline
    <2>1. b = "offline" /\ ~G!anyOnline
        BY <1>1, <1>2, <1>7, Unlike DEF Rated
    <2> QED
        BY <1>7, <2>1, Unlike DEF s
<1> QED
    BY <1>2, <1>3, <1>4, <1>5, <1>6, <1>7 DEF Ratings

LEMMA SupplierHealths ==
    ASSUME NEW refs, NEW drawn
    PROVE  /\ \A id \in DOMAIN G!Observed(drawn) : /\ id \in DOMAIN G!supplierHealth(refs, drawn)
                                            /\ G!supplierHealth(refs, drawn)[id] = G!Observed(drawn)[id]
           /\ \A e \in Entity : \A r \in refs[e] : r.node \in DOMAIN G!supplierHealth(refs, drawn)
           /\ \A id \in DOMAIN G!supplierHealth(refs, drawn) : G!supplierHealth(refs, drawn)[id] \in Healths
<1> DEFINE all == UNION {refs[e] : e \in Entity}
<1> DEFINE ids == DOMAIN G!Observed(drawn) \cup {r.node : r \in all}
<1>1. G!supplierHealth(refs, drawn) =
        [id \in ids |-> IF id \in DOMAIN G!Observed(drawn) THEN G!Observed(drawn)[id]
                        ELSE G!synthesized(CHOOSE r \in all : r.node = id)]
    BY DEF G!supplierHealth
<1>2. \A id \in DOMAIN G!Observed(drawn) : G!Observed(drawn)[id] \in Healths
    <2>1. /\ \A c : G!healthFromCSS(c) \in Healths
          /\ \A c : G!healthFromState(c) \in Healths
        BY DEF G!healthFromCSS, G!healthFromState, Healths
    <2> QED
        BY <2>1 DEF G!Observed
<1>3. \A r : G!synthesized(r) \in Healths
    BY HealthRatings DEF G!synthesized, Healths
<1> QED
    BY <1>1, <1>2, <1>3

(* The node of an entity in the graph. *)
LEMMA EntityHealth ==
    ASSUME NEW refs, NEW drawn, NEW e \in Entity, refs[e] # {}
    PROVE  /\ G!entityNodeID(e) \in DOMAIN G!BuildGraph(refs, drawn).health
           /\ G!BuildGraph(refs, drawn).health[G!entityNodeID(e)]
                = G!worstSupplier(refs[e], G!supplierHealth(refs, drawn))
<1> DEFINE graphed == {f \in Entity : refs[f] # {}}
<1> DEFINE supplier == G!supplierHealth(refs, drawn)
<1> DEFINE services == {id \in DOMAIN supplier : id[1] = "service" /\ id[2] # ""}
<1> DEFINE tiers == {G!instanceID(t) : t \in Tier \cup {s[2] : s \in services}}
<1> DEFINE entities == {G!entityNodeID(f) : f \in graphed}
<1> DEFINE id == G!entityNodeID(e)
<1>1. id \in entities
    OBVIOUS
<1>2. id \notin tiers
    BY DEF G!entityNodeID, G!instanceID
<1>3. (CHOOSE f \in graphed : G!entityNodeID(f) = id) = e
    <2>1. \A f \in graphed : G!entityNodeID(f) = id => f = e
        BY Constants DEF G!Assumptions, G!entityNodeID
    <2> QED
        BY <2>1
<1>4. G!BuildGraph(refs, drawn).health =
        [i \in DOMAIN supplier \cup tiers \cup entities |->
            CASE i \in tiers -> G!instanceHealth(i[2])
              [] i \in entities -> LET f == CHOOSE g \in graphed : G!entityNodeID(g) = i
                                   IN G!worstSupplier(refs[f], supplier)
              [] OTHER -> supplier[i]]
    BY DEF G!BuildGraph
<1> HIDE DEF graphed, supplier, tiers, entities, id
<1>5. id \in DOMAIN G!BuildGraph(refs, drawn).health
    BY <1>1, <1>4
<1>6. G!BuildGraph(refs, drawn).health[id] = G!worstSupplier(refs[e], supplier)
    BY <1>1, <1>2, <1>3, <1>4
<1> QED
    BY <1>5, <1>6 DEF id, supplier

(* What an answer says of what was observed, and that nothing is observed  *)
(* once there is one.                                                      *)
GraphInv ==
    /\ Observations
    /\ docker \in [Declared -> G!ContainerState]
    /\ probe \in [Tier \cup {G!Docker} -> G!PC]
    /\ \A t \in Tier : probe[t] = "list" => up[t]
    /\ held \in [BridgeName -> SUBSET G!BridgeState]
    /\ \A b \in BridgeName : held[b] = {} \/ bridge[b] \in held[b]
    /\ answer # G!NoAnswer => \A t \in Tier \cup {G!Docker} : probe[t] = "done"
    /\ G!BadgeAgrees

LEMMA AnsweredAgrees ==
    ASSUME Observations, NEW drawn, NEW reads, Reading(drawn, reads),
           NEW e \in DOMAIN G!Answered(drawn, reads).badges, NEW b \in G!Answered(drawn, reads).badges[e]
    PROVE  LET sound == ~G!isBad(G!Answered(drawn, reads).health[G!entityNodeID(e)]) IN
           /\ sound => b \in {"running", "starting"}
           /\ b \in {"running", "starting"} /\ e \notin G!Answered(drawn, reads).moved => sound
           /\ b = "offline" => ~G!anyOnline
<1> DEFINE refs == [f \in Entity |-> G!Refs(f, reads)]
<1> DEFINE supplier == G!supplierHealth(refs, drawn)
<1> DEFINE firm == Firm(e, drawn, reads)
<1>1. /\ G!Answered(drawn, reads).badges = [f \in {g \in Entity : refs[g] # {}} |-> G!Badges(refs[f])]
      /\ G!Answered(drawn, reads).health = G!BuildGraph(refs, drawn).health
      /\ G!Answered(drawn, reads).moved = {x[1] : x \in {y \in G!bridgeReads : reads[y] # drawn[y[2].name]}}
    BY DEF G!Answered
<1>8. e \notin G!Answered(drawn, reads).moved => firm
    BY <1>1 DEF Firm
<1>9. firm \in BOOLEAN
    BY DEF Firm
<1> HIDE DEF refs
<1>2. e \in Entity /\ refs[e] # {} /\ b \in G!Badges(refs[e])
    BY <1>1
<1>3. \A r \in refs[e] : Rated(r, drawn, firm)
    BY <1>2, RefsRated DEF refs
<1> HIDE DEF firm
<1>4. /\ b \in {"running", "starting"} <=> G!rollup(refs[e]) = G!RefOK
      /\ b = "offline" => ~G!anyOnline
    BY <1>2, <1>3, <1>9, BadgesAre
<1>5. G!Answered(drawn, reads).health[G!entityNodeID(e)] = G!worstSupplier(refs[e], supplier)
    BY <1>1, <1>2, EntityHealth
<1>6. \A r \in refs[e] : /\ supplier[r.node] \in Healths
                         /\ r.node \in DOMAIN G!Observed(drawn) => supplier[r.node] = G!Observed(drawn)[r.node]
    BY <1>2, SupplierHealths
<1> HIDE DEF supplier
<1>7. /\ G!rollup(refs[e]) # G!RefOK => G!isBad(G!worstSupplier(refs[e], supplier))
      /\ firm /\ G!rollup(refs[e]) = G!RefOK => ~G!isBad(G!worstSupplier(refs[e], supplier))
    BY <1>2, <1>3, <1>6, <1>9, Worst
<1> QED
    BY <1>4, <1>5, <1>7, <1>8

LEMMA GraphInit == G!Init => GraphInv
<1> SUFFICES ASSUME G!Init PROVE GraphInv
    OBVIOUS
<1>1. up \in [Tier -> BOOLEAN]
    BY Zenon DEF G!Init
<1>2. /\ css \in [Process -> G!CSS] /\ bridge \in [BridgeName -> G!BridgeState]
      /\ listed = {} /\ answer = G!NoAnswer /\ held = [b \in BridgeName |-> {}]
    BY DEF G!Init
<1>3. seen \in [Declared -> G!ContainerState] /\ docker \in [Declared -> G!ContainerState]
    BY DEF G!Init, G!ContainerState
<1>4. probe \in [Tier \cup {G!Docker} -> G!PC] /\ \A t \in Tier : probe[t] # "list"
    BY DEF G!Init, G!PC
<1> QED
    BY <1>1, <1>2, <1>3, <1>4 DEF GraphInv, Observations, G!BadgeAgrees

LEMMA GraphNext == GraphInv /\ [G!Next]_(G!vars) => GraphInv'
<1> SUFFICES ASSUME GraphInv, [G!Next]_(G!vars) PROVE GraphInv'
    OBVIOUS
<1> USE DEF GraphInv, G!world
<1>1. ASSUME probe' \in [Tier \cup {G!Docker} -> G!PC], \A t \in Tier : probe'[t] = "list" => up'[t],
             Observations', UNCHANGED <<bridge, held, docker, answer>>,
             \E t \in Tier \cup {G!Docker} : probe[t] # "done"
      PROVE  GraphInv'
    BY <1>1 DEF G!BadgeAgrees
<1>2. CASE G!Gather
    <2>1. probe' = [t \in DOMAIN probe |-> IF t = G!Docker THEN "list" ELSE "ping"]
        BY <1>2 DEF G!Gather
    <2>2. probe' \in [Tier \cup {G!Docker} -> G!PC] /\ \A t \in Tier : probe'[t] # "list"
        BY <2>1, Constants DEF G!PC, G!Assumptions, G!Docker
    <2>3. Observations' /\ UNCHANGED <<bridge, held, docker, answer>>
        BY <1>2 DEF G!Gather, Observations
    <2>4. probe[G!Docker] # "done"
        BY <1>2 DEF G!Gather
    <2> QED
        BY <1>1, <2>2, <2>3, <2>4
<1>3. ASSUME NEW t \in Tier, G!Ping(t) PROVE GraphInv'
    <2>1. probe' \in [Tier \cup {G!Docker} -> G!PC] /\ probe[t] # "done"
        BY <1>3 DEF G!Ping, G!PC
    <2>2. UNCHANGED <<css, bridge, held, docker, seen, listed, answer>>
        BY <1>3 DEF G!Ping
    <2>3. up' = [up EXCEPT ![t] = TRUE] \/ up' = up
        BY <1>3 DEF G!Ping
    <2>4. up' \in [Tier -> BOOLEAN] /\ \A s \in Tier : up[s] => up'[s]
        BY <2>3, Zenon DEF Observations
    <2>5. \A s \in Tier : probe'[s] = "list" => probe[s] = "list" \/ (s = t /\ up' = [up EXCEPT ![t] = TRUE])
        BY <1>3 DEF G!Ping
    <2>6. \A s \in Tier : probe'[s] = "list" => up'[s]
        BY <2>4, <2>5, Zenon DEF Observations
    <2>7. Observations'
        BY <2>2, <2>4 DEF Observations
    <2> QED
        BY <1>1, <2>1, <2>2, <2>6, <2>7
<1>4. ASSUME NEW t \in Tier, G!Processes(t) PROVE GraphInv'
    <2>1. probe' \in [Tier \cup {G!Docker} -> G!PC] /\ probe[t] # "done"
        BY <1>4 DEF G!Processes, G!PC
    <2>2. \A s \in Tier : probe'[s] = "list" => probe[s] = "list"
        BY <1>4 DEF G!Processes
    <2>3. UNCHANGED <<css, bridge, held, docker, seen, up, answer>> /\ up[t]
        BY <1>4 DEF G!Processes
    <2>4. listed' = listed \cup {t} \/ listed' = listed
        BY <1>4 DEF G!Processes
    <2>5. Observations'
        BY <2>3, <2>4 DEF Observations
    <2> QED
        BY <1>1, <2>1, <2>2, <2>3, <2>5
<1>5. CASE G!Snapshot
    <2>1. /\ probe' \in [Tier \cup {G!Docker} -> G!PC] /\ probe[G!Docker] # "done"
          /\ \A s \in Tier : probe'[s] = "list" => probe[s] = "list"
        BY <1>5 DEF G!Snapshot, G!PC
    <2>2. UNCHANGED <<css, bridge, held, docker, up, listed, answer>>
        BY <1>5 DEF G!Snapshot
    <2>3. seen' \in [Declared -> G!ContainerState]
        BY <1>5 DEF G!Snapshot, G!ContainerState
    <2>4. Observations'
        BY <2>2, <2>3 DEF Observations
    <2> QED
        BY <1>1, <2>1, <2>2, <2>4
<1>6. CASE G!Answer
    <2>0. PICK drawn \in [BridgeName -> G!BridgeState], reads \in [G!bridgeReads -> G!BridgeState] :
              answer' = G!Answered(drawn, reads)
        BY <1>6 DEF G!Answer
    <2>1. /\ UNCHANGED <<css, bridge, docker, probe, up, listed, seen>>
          /\ held' = [b \in BridgeName |-> {}] /\ \A t \in Tier \cup {G!Docker} : probe[t] = "done"
        BY <1>6 DEF G!Answer
    <2>4. Reading(drawn, reads)
        BY DEF Reading
    <2>2. G!BadgeAgrees'
        BY <2>0, <2>1, <2>4, AnsweredAgrees DEF G!BadgeAgrees, G!anyOnline
    <2>3. Observations'
        BY <2>1 DEF Observations
    <2> QED
        BY <2>1, <2>2, <2>3
<1>8. CASE G!Build
    <2>1. /\ UNCHANGED <<css, bridge, docker, probe, up, listed, seen, answer>>
          /\ held' = [b \in BridgeName |-> {bridge[b]}]
        BY <1>8 DEF G!Build
    <2>2. /\ held' \in [BridgeName -> SUBSET G!BridgeState]
          /\ \A b \in BridgeName : bridge[b] \in held'[b]
        BY <2>1 DEF Observations
    <2> QED
        BY <2>1, <2>2 DEF Observations, G!BadgeAgrees, G!anyOnline
<1>9. ASSUME NEW b \in BridgeName, G!Rebuild(b) PROVE GraphInv'
    <2>1. /\ UNCHANGED <<css, docker, probe, up, listed, seen, answer>>
          /\ \E s \in G!BridgeState : /\ bridge' = [bridge EXCEPT ![b] = s]
                                      /\ held' = [held EXCEPT ![b] = @ \cup {s}]
        BY <1>9 DEF G!Rebuild
    <2>2. /\ bridge' \in [BridgeName -> G!BridgeState] /\ held' \in [BridgeName -> SUBSET G!BridgeState]
          /\ \A a \in BridgeName : held'[a] = {} \/ bridge'[a] \in held'[a]
        BY <2>1 DEF Observations
    <2> QED
        BY <2>1, <2>2 DEF Observations, G!BadgeAgrees, G!anyOnline
<1>7. CASE UNCHANGED G!vars
    BY <1>7 DEF G!vars, Observations, G!BadgeAgrees, G!anyOnline
<1> QED
    BY <1>2, <1>3, <1>4, <1>5, <1>6, <1>7, <1>8, <1>9 DEF G!Next

(* What the badge of an entity says is what the graph says of it, though   *)
(* the two are worked out apart: the worst ref against the worst supplier. *)
(* It is the refs' ratings, each tied to the node it points at, that makes *)
(* them agree.                                                             *)
THEOREM BadgesAgree == Spec => []BadgeAgrees
<1> DEFINE Inv == panel = "graph" => GraphInv
<1>1. Init => Inv
    BY GraphInit DEF Init
<1>2. Inv /\ [Next]_vars => Inv'
    <2>1. [Next]_vars => UNCHANGED panel /\ (panel = "graph" => [G!Next]_(G!vars))
        BY DEF Next, vars, G!vars, graphOwn, G!world
    <2> QED
        BY <2>1, GraphNext
<1>3. Inv => BadgeAgrees
    BY DEF BadgeAgrees, GraphInv
<1> QED
    BY <1>1, <1>2, <1>3, PTL DEF Spec
-----------------------------------------------------------------------------
(* Diagnosis: the graph of an answer is at most three deep, from entities  *)
(* over suppliers to instances; the walks need no more steps than it has   *)
(* nodes.                                                                  *)

(* The graph's own notions of finiteness and size are the usual ones. *)
LEMMA SameFinite ==
    /\ \A set : G!IsFiniteSet(set) <=> IsFiniteSet(set)
    /\ \A set : G!Cardinality(set) = Cardinality(set)
<1>1. ASSUME NEW set PROVE G!IsFiniteSet(set) <=> IsFiniteSet(set)
    BY Zenon DEF G!IsFiniteSet, IsFiniteSet
<1>2. ASSUME NEW set PROVE G!Cardinality(set) = Cardinality(set)
    BY Zenon DEF G!Cardinality, Cardinality
<1> QED
    BY <1>1, <1>2

(* The fault of a node that a diagnosis follows. *)
Foremost(h, es, n) ==
    LET bad == G!faults(h, es, n) IN CHOOSE s \in bad : \A o \in bad : h[o] <= h[s]

LEMMA WorstFault ==
    ASSUME NEW h, NEW es, NEW n, \A s \in DOMAIN h : h[s] \in Healths, G!faults(h, es, n) # {}
    PROVE  Foremost(h, es, n) \in G!faults(h, es, n)
<1> DEFINE bad == G!faults(h, es, n)
<1> DEFINE M == {h[s] : s \in bad}
<1>1. Healths = 0 .. 5
    BY DEF Healths, G!HealthOK, G!HealthDegraded, G!HealthOffline, G!HealthDown, G!HealthMissing,
           G!HealthUnknown
<1>2. bad \subseteq DOMAIN h
    BY DEF G!faults
<1> HIDE DEF bad
<1>3. M \in SUBSET (0 .. 5) /\ M # {}
    BY <1>1, <1>2 DEF bad
<1>4. G!Max(M) \in M /\ \A m \in M : m <= G!Max(M)
    <2> HIDE DEF M
    <2> QED
        BY <1>3, MaxOf
<1>5. \E s \in bad : \A o \in bad : h[o] <= h[s]
    BY <1>4
<1> QED
    BY <1>5 DEF Foremost, bad

(* The walk of a diagnosis. *)
Trail(h, es, id) ==
    LET path_[k \in Nat] == IF k = 0 THEN <<id>> ELSE G!further(h, es, path_[k - 1]) IN path_

LEMMA Walk ==
    ASSUME NEW h, NEW es, NEW id, \A s \in DOMAIN h : h[s] \in Healths
    PROVE  /\ Trail(h, es, id)[0] = <<id>>
           /\ \A n \in Nat : Trail(h, es, id)[n + 1] = G!further(h, es, Trail(h, es, id)[n])
           /\ G!Diagnose(h, es, id) = Trail(h, es, id)[Cardinality(DOMAIN h)]
<1> DEFINE Trails == Seq({id} \cup DOMAIN h)
<1> DEFINE F == [p \in Trails |-> G!further(h, es, p)]
<1>1. ASSUME NEW p \in Trails PROVE G!further(h, es, p) \in Trails
    <2> DEFINE n == p[Len(p)]
    <2>1. G!further(h, es, p) =
            IF G!faults(h, es, n) = {} \/ Foremost(h, es, n) \in {p[i] : i \in DOMAIN p}
            THEN p ELSE Append(p, Foremost(h, es, n))
        BY DEF G!further, Foremost
    <2>2. CASE G!faults(h, es, n) # {}
        <3>1. Foremost(h, es, n) \in DOMAIN h
            BY <2>2, WorstFault DEF G!faults
        <3> QED
            BY <2>1, <3>1
    <2>3. CASE G!faults(h, es, n) = {}
        BY <2>1, <2>3
    <2> QED
        BY <2>2, <2>3
<1> DEFINE b == <<id>>
<1>2. F \in [Trails -> Trails]
    BY <1>1
<1>3. b \in Trails
    OBVIOUS
<1> HIDE DEF F, Trails, b
<1>30. PICK g \in [Nat -> Trails] : g[0] = b /\ \A n \in Nat : g[n + 1] = F[g[n]]
    BY <1>2, <1>3, RecursionExists
<1>4. g[0] = <<id>> /\ \A n \in Nat : g[n + 1] = G!further(h, es, g[n])
    BY <1>30 DEF F, b
<1> DEFINE Is(f) == f = [k \in Nat |-> IF k = 0 THEN <<id>> ELSE G!further(h, es, f[k - 1])]
<1>5. Is(g)
    <2>1. ASSUME NEW k \in Nat, k # 0 PROVE g[k] = G!further(h, es, g[k - 1])
        <3>1. k - 1 \in Nat /\ (k - 1) + 1 = k
            BY <2>1
        <3> QED
            BY <1>4, <3>1
    <2> QED
        BY <1>4, <2>1
<1> DEFINE trail[k \in Nat] == IF k = 0 THEN <<id>> ELSE G!further(h, es, trail[k - 1])
<1>6. Is(trail)
    BY <1>5
<1>7. trail = Trail(h, es, id) /\ G!Diagnose(h, es, id) = trail[Cardinality(DOMAIN h)]
    BY SameFinite, Zenon DEF G!Diagnose, Trail
<1> HIDE DEF trail
<1>8. ASSUME NEW n \in Nat PROVE trail[n + 1] = G!further(h, es, trail[n])
    <2>1. n + 1 \in Nat /\ n + 1 # 0 /\ (n + 1) - 1 = n
        OBVIOUS
    <2> QED
        BY <1>6, <2>1
<1> QED
    BY <1>6, <1>7, <1>8

(* What the graph of an answer is like; of the entities in unsure, a       *)
(* bridge was written anew while it was made.                              *)
Suppliers == {"service", "bridge", "container"}
Shape(h, es, unsure) ==
    /\ IsFiniteSet(DOMAIN h)
    /\ \A s \in DOMAIN h : h[s] \in Healths
    /\ \A c, s \in DOMAIN h : <<c, s>> \in es =>
        \/ c[1] = "entity" /\ s[1] \in Suppliers /\ (s[1] # "service" => s[2] = "")
        \/ c[1] = "service" /\ s = G!instanceID(c[2])
    /\ \A c \in DOMAIN h : c[1] = "service" /\ c[2] # "" =>
        <<c, G!instanceID(c[2])>> \in es /\ G!instanceID(c[2]) \in DOMAIN h
    /\ \A t \in Tier : ~up[t] /\ G!instanceID(t) \in DOMAIN h => G!isBad(h[G!instanceID(t)])
    /\ \A id \in DOMAIN h :
        (id[1] = "entity" /\ G!isBad(h[id]) /\ \A e \in unsure : id # G!entityNodeID(e))
            => G!faults(h, es, id) # {}

(* A finite set with two or three members is that large. *)
LEMMA Room ==
    ASSUME NEW T, IsFiniteSet(T), NEW x \in T, NEW y \in T, x # y
    PROVE  /\ Cardinality(T) \in Nat /\ Cardinality(T) >= 2
           /\ \A z \in T : z # x /\ z # y => Cardinality(T) >= 3
<1>1. Cardinality(T) \in Nat
    BY FS_CardinalityType
<1>2. IsFiniteSet({x}) /\ Cardinality({x}) = 1
    BY FS_Singleton
<1>3. IsFiniteSet({x} \cup {y}) /\ Cardinality({x} \cup {y}) = 2
    BY <1>2, FS_AddElement
<1>4. Cardinality({x} \cup {y}) <= Cardinality(T)
    BY FS_Subset
<1>5. ASSUME NEW z \in T, z # x, z # y PROVE Cardinality(T) >= 3
    <2>1. Cardinality(({x} \cup {y}) \cup {z}) = 3
        BY <1>3, <1>5, FS_AddElement
    <2>2. Cardinality(({x} \cup {y}) \cup {z}) <= Cardinality(T)
        BY FS_Subset
    <2> QED
        BY <1>1, <2>1, <2>2
<1> QED
    BY <1>1, <1>3, <1>4, <1>5

(* What a step of a diagnosis does. *)
LEMMA Furthers ==
    ASSUME NEW h, NEW es, NEW p, NEW n, p[Len(p)] = n
    PROVE  /\ G!faults(h, es, n) = {} => G!further(h, es, p) = p
           /\ G!faults(h, es, n) # {} /\ Foremost(h, es, n) \notin {p[i] : i \in DOMAIN p}
                => G!further(h, es, p) = Append(p, Foremost(h, es, n))
BY DEF G!further, Foremost

(* Where a diagnosis can lead. *)
LEMMA Diagnoses ==
    ASSUME NEW h, NEW es, NEW unsure, Shape(h, es, unsure), NEW id \in DOMAIN h
    PROVE  \/ G!Diagnose(h, es, id) = <<id>> /\ G!faults(h, es, id) = {}
           \/ \E s \in G!faults(h, es, id) :
                G!Diagnose(h, es, id) = <<id, s>> /\ s # id /\ G!faults(h, es, s) = {}
           \/ \E s \in G!faults(h, es, id) : \E i \in G!faults(h, es, s) :
                /\ G!Diagnose(h, es, id) = <<id, s, i>> /\ G!faults(h, es, i) = {}
                /\ id # s /\ id # i /\ s # i
                /\ id[1] = "entity" /\ i = G!instanceID(s[2])
<1> DEFINE n1 == Foremost(h, es, id)
<1> DEFINE n2 == Foremost(h, es, n1)
<1> DEFINE trail == Trail(h, es, id)
<1>1. /\ trail[0] = <<id>>
      /\ \A n \in Nat : trail[n + 1] = G!further(h, es, trail[n])
      /\ G!Diagnose(h, es, id) = trail[Cardinality(DOMAIN h)]
    <2>1. \A s \in DOMAIN h : h[s] \in Healths
        BY DEF Shape
    <2> QED
        BY <2>1, Walk
<1> HIDE DEF trail
<1>2. Cardinality(DOMAIN h) \in Nat
    BY FS_CardinalityType DEF Shape
<1>6. ASSUME NEW k \in Nat, G!further(h, es, trail[k]) = trail[k], Cardinality(DOMAIN h) >= k
      PROVE  G!Diagnose(h, es, id) = trail[k]
    <2> DEFINE Rests == {n \in Nat : trail[n] = trail[k]}
    <2>1. k \in Rests /\ \A n \in Nat : n \in Rests => n + 1 \in Rests
        BY <1>1, <1>6
    <2>2. \A n \in Nat : n >= k => n \in Rests
        <3> HIDE DEF Rests
        <3> QED
            BY <2>1, Onwards
    <2> QED
        BY <1>1, <1>2, <1>6, <2>2
<1>7. \A c, s \in DOMAIN h : <<c, s>> \in es =>
        \/ c[1] = "entity" /\ s[1] \in Suppliers
        \/ c[1] = "service" /\ s = G!instanceID(c[2]) /\ s[1] = "instance"
    <2>1. \A t : G!instanceID(t)[1] = "instance"
        BY DEF G!instanceID
    <2> QED
        BY <2>1, ZenonT(30) DEF Shape
<1>3. trail[1] = G!further(h, es, <<id>>) /\ trail[2] = G!further(h, es, trail[1])
    BY <1>1
<1>4. CASE G!faults(h, es, id) = {}
    <2>1. G!further(h, es, <<id>>) = <<id>>
        BY <1>4, Furthers
    <2>2. G!Diagnose(h, es, id) = trail[0]
        BY <1>1, <1>2, <1>6, <2>1
    <2> QED
        BY <1>1, <1>4, <2>2
<1>5. CASE G!faults(h, es, id) # {}
    <2>1. n1 \in G!faults(h, es, id)
        BY <1>5, WorstFault DEF Shape
    <2>2. n1 \in DOMAIN h /\ <<id, n1>> \in es
        BY <2>1 DEF G!faults
    <2>3. /\ \/ id[1] = "entity" /\ n1[1] \in Suppliers
             \/ id[1] = "service" /\ n1[1] = "instance"
          /\ n1 # id
        BY <1>7, <2>2 DEF Suppliers
    <2> HIDE DEF n1
    <2>4. trail[1] = <<id, n1>>
        <3>1. n1 \notin {<<id>>[i] : i \in DOMAIN <<id>>}
            BY <2>3
        <3>2. <<id>>[Len(<<id>>)] = id
            OBVIOUS
        <3>3. G!further(h, es, <<id>>) = Append(<<id>>, n1)
            BY <1>5, <3>1, <3>2, Furthers DEF n1
        <3> QED
            BY <1>3, <3>3
    <2>5. <<id, n1>>[Len(<<id, n1>>)] = n1
        OBVIOUS
    <2>6. Cardinality(DOMAIN h) >= 2
        BY <2>2, <2>3, Room DEF Shape
    <2>7. CASE G!faults(h, es, n1) = {}
        <3>1. G!further(h, es, trail[1]) = trail[1]
            BY <2>4, <2>5, <2>7, Furthers
        <3>2. G!Diagnose(h, es, id) = trail[1]
            BY <1>2, <1>6, <2>6, <3>1
        <3> QED
            BY <1>1, <2>1, <2>3, <2>4, <2>7, <3>2
    <2>8. CASE G!faults(h, es, n1) # {}
        <3>1. n2 \in G!faults(h, es, n1)
            BY <2>8, WorstFault DEF Shape
        <3>2. n2 \in DOMAIN h /\ <<n1, n2>> \in es
            BY <3>1 DEF G!faults
        <3>3. /\ n1[1] = "service" /\ n2 = G!instanceID(n1[2]) /\ n2[1] = "instance"
              /\ id[1] = "entity"
            BY <1>7, <2>2, <2>3, <3>2 DEF Suppliers
        <3>4. n2 # id /\ n2 # n1
            BY <3>3
        <3> HIDE DEF n2
        <3>5. trail[2] = <<id, n1, n2>>
            <4>1. n2 \notin {<<id, n1>>[i] : i \in DOMAIN <<id, n1>>}
                BY <3>4
            <4>2. G!further(h, es, <<id, n1>>) = Append(<<id, n1>>, n2)
                BY <2>5, <2>8, <4>1, Furthers DEF n2
            <4> QED
                BY <1>3, <2>4, <4>2
        <3>6. G!faults(h, es, n2) = {}
            BY <1>7, <3>2, <3>3 DEF G!faults
        <3>7. <<id, n1, n2>>[Len(<<id, n1, n2>>)] = n2
            OBVIOUS
        <3>8. G!further(h, es, trail[2]) = trail[2]
            BY <3>5, <3>6, <3>7, Furthers
        <3>9. Cardinality(DOMAIN h) >= 3
            <4>1. IsFiniteSet(DOMAIN h)
                BY DEF Shape
            <4> QED
                BY <2>2, <2>3, <3>2, <3>4, <4>1, Room
        <3>10. G!Diagnose(h, es, id) = trail[2]
            BY <1>2, <1>6, <3>8, <3>9
        <3> QED
            BY <1>1, <2>1, <2>3, <3>1, <3>3, <3>4, <3>5, <3>6, <3>10
    <2> QED
        BY <2>7, <2>8
<1> QED
    BY <1>4, <1>5

(* The search of a blast radius. *)
Reach(h, es, id) ==
    LET reach_[k \in Nat] == IF k = 0 THEN {id} ELSE G!wider(h, es, reach_[k - 1]) IN reach_

LEMMA Spread ==
    ASSUME NEW h, NEW es, NEW id
    PROVE  /\ Reach(h, es, id)[0] = {id}
           /\ \A n \in Nat : Reach(h, es, id)[n + 1] = G!wider(h, es, Reach(h, es, id)[n])
           /\ G!BlastRadius(h, es, id) = Reach(h, es, id)[Cardinality(DOMAIN h)] \ {id}
<1> DEFINE Nodes == SUBSET ({id} \cup DOMAIN h)
<1> DEFINE F == [s \in Nodes |-> G!wider(h, es, s)]
<1> DEFINE b == {id}
<1>2. F \in [Nodes -> Nodes] /\ b \in Nodes
    BY DEF G!wider
<1> HIDE DEF F, Nodes, b
<1>3. PICK g \in [Nat -> Nodes] : g[0] = b /\ \A n \in Nat : g[n + 1] = F[g[n]]
    BY <1>2, RecursionExists
<1>4. g[0] = {id} /\ \A n \in Nat : g[n + 1] = G!wider(h, es, g[n])
    BY <1>3 DEF F, b
<1> DEFINE Is(f) == f = [k \in Nat |-> IF k = 0 THEN {id} ELSE G!wider(h, es, f[k - 1])]
<1>5. Is(g)
    <2>1. ASSUME NEW k \in Nat, k # 0 PROVE g[k] = G!wider(h, es, g[k - 1])
        <3>1. k - 1 \in Nat /\ (k - 1) + 1 = k
            BY <2>1
        <3> QED
            BY <1>4, <3>1
    <2> QED
        BY <1>4, <2>1
<1> DEFINE reach[k \in Nat] == IF k = 0 THEN {id} ELSE G!wider(h, es, reach[k - 1])
<1>6. Is(reach)
    BY <1>5
<1>7. reach = Reach(h, es, id) /\ G!BlastRadius(h, es, id) = reach[Cardinality(DOMAIN h)] \ {id}
    BY SameFinite, Zenon DEF G!BlastRadius, Reach
<1> HIDE DEF reach
<1>8. ASSUME NEW n \in Nat PROVE reach[n + 1] = G!wider(h, es, reach[n])
    <2>1. n + 1 \in Nat /\ n + 1 # 0 /\ (n + 1) - 1 = n
        OBVIOUS
    <2> QED
        BY <1>6, <2>1
<1> QED
    BY <1>6, <1>7, <1>8

LEMMA Widens ==
    ASSUME NEW h, NEW es, NEW reached
    PROVE  /\ reached \subseteq G!wider(h, es, reached)
           /\ \A c \in DOMAIN h : \A s \in reached : <<c, s>> \in es => c \in G!wider(h, es, reached)
<1> DEFINE arcs == {x \in es : x[2] \in reached}
<1>1. ASSUME NEW c \in DOMAIN h, NEW s \in reached, <<c, s>> \in es
      PROVE  c \in {edge[1] : edge \in arcs}
    <2>1. <<c, s>> \in arcs /\ <<c, s>>[1] = c
        BY <1>1
    <2> QED
        BY <2>1
<1>2. G!wider(h, es, reached) = reached \cup (DOMAIN h \cap {edge[1] : edge \in arcs})
    BY DEF G!wider
<1> QED
    BY <1>1, <1>2

(* A node is in the blast radius of a supplier, and of a supplier's.       *)
LEMMA Blasts ==
    ASSUME NEW h, NEW es, IsFiniteSet(DOMAIN h), NEW id \in DOMAIN h, NEW x \in DOMAIN h, id # x,
           \/ <<id, x>> \in es
           \/ \E s \in DOMAIN h : s # id /\ s # x /\ <<id, s>> \in es /\ <<s, x>> \in es
    PROVE  id \in G!BlastRadius(h, es, x)
<1> DEFINE reach == Reach(h, es, x)
<1>1. /\ reach[0] = {x}
      /\ \A n \in Nat : reach[n + 1] = G!wider(h, es, reach[n])
      /\ G!BlastRadius(h, es, x) = reach[Cardinality(DOMAIN h)] \ {x}
    BY Spread
<1> HIDE DEF reach
<1>2. ASSUME NEW k \in Nat, id \in reach[k], Cardinality(DOMAIN h) >= k
      PROVE  id \in G!BlastRadius(h, es, x)
    <2> DEFINE Stays == {n \in Nat : id \in reach[n]}
    <2>1. k \in Stays /\ \A n \in Nat : n \in Stays => n + 1 \in Stays
        BY <1>1, <1>2, Widens
    <2>2. \A n \in Nat : n >= k => n \in Stays
        <3> HIDE DEF Stays
        <3> QED
            BY <2>1, Onwards
    <2>3. Cardinality(DOMAIN h) \in Nat
        BY FS_CardinalityType
    <2>4. id \in reach[Cardinality(DOMAIN h)]
        BY <1>2, <2>2, <2>3
    <2> QED
        BY <1>1, <2>4
<1>3. Cardinality(DOMAIN h) \in Nat /\ Cardinality(DOMAIN h) >= 2
    BY Room
<1>4. reach[1] = G!wider(h, es, reach[0]) /\ reach[2] = G!wider(h, es, reach[1])
    BY <1>1
<1>5. CASE <<id, x>> \in es
    <2>1. id \in reach[1]
        BY <1>1, <1>4, <1>5, Widens
    <2> QED
        BY <1>2, <1>3, <2>1
<1>6. CASE \E s \in DOMAIN h : s # id /\ s # x /\ <<id, s>> \in es /\ <<s, x>> \in es
    <2>1. PICK s \in DOMAIN h : <<id, s>> \in es /\ <<s, x>> \in es
        BY <1>6
    <2>2. s \in reach[1]
        BY <1>1, <1>4, <2>1, Widens
    <2>3. id \in reach[2]
        BY <1>4, <2>1, <2>2, Widens
    <2> QED
        BY <1>2, <1>3, <2>3
<1> QED
    BY <1>5, <1>6

(* The cause is found in a graph of that shape. *)
LEMMA ShapeFinds == Shape(answer.health, answer.edges, answer.moved) => G!CauseFound
<1> SUFFICES ASSUME Shape(answer.health, answer.edges, answer.moved) PROVE G!CauseFound
    OBVIOUS
<1> DEFINE Sure(id) == \A e \in answer.moved : id # G!entityNodeID(e)
<1> DEFINE h == answer.health
<1> DEFINE es == answer.edges
<1>1. IsFiniteSet(DOMAIN h)
    BY DEF Shape
<1>2. \A c, s \in DOMAIN h : <<c, s>> \in es =>
        \/ c[1] = "entity" /\ s[1] \in Suppliers /\ (s[1] # "service" => s[2] = "")
        \/ c[1] = "service" /\ s = G!instanceID(c[2])
    BY Zenon DEF Shape
<1>3. \A c \in DOMAIN h : c[1] = "service" /\ c[2] # "" =>
        <<c, G!instanceID(c[2])>> \in es /\ G!instanceID(c[2]) \in DOMAIN h
    BY Zenon DEF Shape
<1>4. \A t \in Tier : ~up[t] /\ G!instanceID(t) \in DOMAIN h => G!isBad(h[G!instanceID(t)])
    BY Zenon DEF Shape
<1>5. \A id \in DOMAIN h :
        id[1] = "entity" /\ G!isBad(h[id]) /\ Sure(id) => G!faults(h, es, id) # {}
    BY Zenon DEF Shape
<1>6. ASSUME NEW id \in DOMAIN h PROVE
        \/ G!Diagnose(h, es, id) = <<id>> /\ G!faults(h, es, id) = {}
        \/ \E s \in G!faults(h, es, id) :
             G!Diagnose(h, es, id) = <<id, s>> /\ s # id /\ G!faults(h, es, s) = {}
        \/ \E s \in G!faults(h, es, id) : \E i \in G!faults(h, es, s) :
             /\ G!Diagnose(h, es, id) = <<id, s, i>> /\ G!faults(h, es, i) = {}
             /\ id # s /\ id # i /\ s # i
             /\ id[1] = "entity" /\ i = G!instanceID(s[2])
    BY Diagnoses
<1>7. \A n \in DOMAIN h : \A s \in G!faults(h, es, n) : s \in DOMAIN h /\ <<n, s>> \in es /\ G!isBad(h[s])
    BY DEF G!faults
<1> HIDE DEF h, es, Sure
<1> DEFINE Found(id, p) ==
        /\ G!faults(h, es, p[Len(p)]) = {}
        /\ \A i \in 2 .. Len(p) : G!isBad(h[p[i]]) /\ id \in G!BlastRadius(h, es, p[i])
        /\ (id[1] = "entity" /\ G!isBad(h[id]) /\ Sure(id)) => Len(p) > 1
        /\ \A t \in Tier : (~up[t] /\ {s[2] : s \in G!faults(h, es, id)} = {t})
                => p[Len(p)] = G!instanceID(t)
<1>8. ASSUME NEW id \in DOMAIN h PROVE Found(id, G!Diagnose(h, es, id))
    <2>1. CASE G!Diagnose(h, es, id) = <<id>> /\ G!faults(h, es, id) = {}
        BY <1>5, <2>1
    <2>2. ASSUME NEW s \in G!faults(h, es, id), s # id, G!faults(h, es, s) = {}
          PROVE  Found(id, <<id, s>>)
        <3>1. s \in DOMAIN h /\ <<id, s>> \in es /\ G!isBad(h[s])
            BY <1>7
        <3>2. id \in G!BlastRadius(h, es, s)
            BY <1>1, <2>2, <3>1, Blasts
        <3>3. ASSUME NEW t \in Tier, ~up[t], {r[2] : r \in G!faults(h, es, id)} = {t}
              PROVE  s = G!instanceID(t)
            <4>1. s[2] = t /\ t # ""
                BY <3>3, Constants DEF G!Assumptions
            <4>2. CASE id[1] = "entity" /\ s[1] \in Suppliers /\ (s[1] # "service" => s[2] = "")
                <5>1. s[1] = "service" /\ s[2] # ""
                    BY <4>1, <4>2
                <5>2. <<s, G!instanceID(t)>> \in es /\ G!instanceID(t) \in DOMAIN h
                    BY <1>3, <3>1, <4>1, <5>1
                <5>3. G!instanceID(t) \in G!faults(h, es, s)
                    BY <1>4, <3>3, <5>2 DEF G!faults
                <5> QED
                    BY <2>2, <5>3
            <4>3. CASE id[1] = "service" /\ s = G!instanceID(id[2])
                <5>1. s[2] = id[2]
                    BY <4>3 DEF G!instanceID
                <5> QED
                    BY <4>1, <4>3, <5>1
            <4> QED
                BY <1>2, <3>1, <4>2, <4>3
        <3> QED
            BY <2>2, <3>1, <3>2, <3>3
    <2>3. ASSUME NEW s \in G!faults(h, es, id), NEW i \in G!faults(h, es, s), G!faults(h, es, i) = {},
                 id # s, id # i, s # i, i = G!instanceID(s[2]), id[1] = "entity"
          PROVE  Found(id, <<id, s, i>>)
        <3>1. s \in DOMAIN h /\ <<id, s>> \in es /\ G!isBad(h[s])
            BY <1>7
        <3>2. i \in DOMAIN h /\ <<s, i>> \in es /\ G!isBad(h[i])
            BY <1>7, <3>1
        <3>3. id \in G!BlastRadius(h, es, s)
            BY <1>1, <2>3, <3>1, Blasts
        <3>4. id \in G!BlastRadius(h, es, i)
            BY <1>1, <2>3, <3>1, <3>2, Blasts
        <3>5. ASSUME NEW t \in Tier, {r[2] : r \in G!faults(h, es, id)} = {t}
              PROVE  i = G!instanceID(t)
            BY <2>3, <3>5
        <3> QED
            BY <2>3, <3>1, <3>2, <3>3, <3>4, <3>5
    <2> HIDE DEF Found
    <2> QED
        BY <1>6, <2>1, <2>2, <2>3
<1> QED
    BY <1>8 DEF G!CauseFound, h, es, Sure

(* A ref points at a supplier, at a faulty one if it is not in order and   *)
(* the supplier's node was not made of another state.                      *)
Blamed(r, drawn, firm) ==
    /\ r.node[1] \in Suppliers /\ (r.node[1] # "service" => r.node[2] = "")
    /\ firm /\ r.state # G!RefOK /\ r.node \in DOMAIN G!Observed(drawn)
        => G!isBad(G!Observed(drawn)[r.node])

(* What a node that was observed was observed of. *)
LEMMA OnlyObserved == \A drawn :
    /\ \A inst_, name_ : <<"service", inst_, name_>> \in DOMAIN G!Observed(drawn) => <<inst_, name_>> \in G!procs
    /\ \A name_ : <<"bridge", "", name_>> \in DOMAIN G!Observed(drawn) => name_ \in BridgeName
    /\ \A name_ : <<"container", "", name_>> \in DOMAIN G!Observed(drawn) => name_ \in Declared
    /\ \A id \in DOMAIN G!Observed(drawn) : id[1] \in Suppliers
<1> TAKE drawn
<1> DEFINE ids == DOMAIN G!Observed(drawn)
<1>1. ids = {<<"service", p[1], p[2]>> : p \in G!procs}
        \cup {<<"bridge", "", b>> : b \in BridgeName} \cup {<<"container", "", c>> : c \in Declared}
    BY DEF G!Observed
<1>2. \A p \in G!procs : p = <<p[1], p[2]>>
    BY Constants DEF G!Assumptions, G!procs
<1> HIDE DEF ids, G!procs
<1>3. ASSUME NEW id \in ids
      PROVE  \/ \E p \in G!procs : id = <<"service", p[1], p[2]>>
             \/ \E b \in BridgeName : id = <<"bridge", "", b>>
             \/ \E c \in Declared : id = <<"container", "", c>>
    BY <1>1
<1>4. ASSUME NEW inst_, NEW name_, <<"service", inst_, name_>> \in ids
      PROVE  <<inst_, name_>> \in G!procs
    <2>1. PICK p \in G!procs : <<"service", inst_, name_>> = <<"service", p[1], p[2]>>
        BY <1>3, <1>4
    <2>2. inst_ = p[1] /\ name_ = p[2]
        BY <2>1
    <2> QED
        BY <1>2, <2>2
<1>5. ASSUME NEW name_, <<"bridge", "", name_>> \in ids PROVE name_ \in BridgeName
    BY <1>3, <1>5
<1>6. ASSUME NEW name_, <<"container", "", name_>> \in ids PROVE name_ \in Declared
    BY <1>3, <1>6
<1>7. ASSUME NEW id \in ids PROVE id[1] \in Suppliers
    <2>1. ASSUME NEW kind_, NEW inst_, NEW name_, id = <<kind_, inst_, name_>> PROVE id[1] = kind_
        BY <2>1
    <2>2. \E kind_ \in Suppliers : \E inst_, name_ : id = <<kind_, inst_, name_>>
        BY <1>3 DEF Suppliers
    <2> QED
        BY <2>1, <2>2
<1> QED
    BY <1>4, <1>5, <1>6, <1>7 DEF ids

(* What does not run is bad. *)
LEMMA FaultyState ==
    /\ \A s : s \in {"drifted", "stopped", "missing", "unknown"} => G!isBad(G!healthFromState(s))
    /\ G!isBad(G!healthFromCSS("stopped"))
BY DEF G!healthFromState, G!healthFromCSS, G!isBad, G!HealthOK, G!HealthOffline, G!HealthDown,
       G!HealthMissing, G!HealthUnknown

LEMMA RefBlamed ==
    ASSUME NEW s, NEW kind_ \in Suppliers, NEW inst_, NEW name_, NEW raw_,
           kind_ # "service" => inst_ = "",
           NEW drawn, NEW firm \in BOOLEAN,
           firm /\ s # G!RefOK /\ <<kind_, inst_, name_>> \in DOMAIN G!Observed(drawn)
                => G!isBad(G!Observed(drawn)[<<kind_, inst_, name_>>])
    PROVE  Blamed(G!Ref(s, kind_, inst_, name_, raw_), drawn, firm)
<1> DEFINE r == G!Ref(s, kind_, inst_, name_, raw_)
<1>1. r.state = s /\ r.node = <<kind_, inst_, name_>>
    BY DEF G!Ref
<1>2. <<kind_, inst_, name_>>[1] = kind_ /\ <<kind_, inst_, name_>>[2] = inst_
    BY Zenon
<1> HIDE DEF r
<1>3. Blamed(r, drawn, firm)
    BY <1>1, <1>2, Zenon DEF Blamed
<1> QED
    BY <1>3 DEF r

LEMMA FoundBlamed ==
    ASSUME Observations, NEW p \in G!procs, NEW drawn, NEW firm \in BOOLEAN
    PROVE  Blamed(G!Ref(G!refStateFromCSS(css[p]), "service", p[1], p[2], css[p]), drawn, firm)
<1>1. css[p] \in G!CSS
    BY DEF Observations, G!procs
<1>2. G!refStateFromCSS(css[p]) # G!RefOK => css[p] = "stopped"
    BY <1>1 DEF G!refStateFromCSS, G!CSS
<1>3. G!Observed(drawn)[<<"service", p[1], p[2]>>] = G!healthFromCSS(css[p])
    BY ObservedNodes
<1>4. G!refStateFromCSS(css[p]) # G!RefOK => G!isBad(G!Observed(drawn)[<<"service", p[1], p[2]>>])
    BY <1>2, <1>3, FaultyState
<1> QED
    BY <1>4, RefBlamed DEF Suppliers

LEMMA RefsBlamed ==
    ASSUME Observations, NEW drawn, NEW reads, Reading(drawn, reads), NEW e \in Entity,
           NEW r \in G!Refs(e, reads)
    PROVE  Blamed(r, drawn, Firm(e, drawn, reads))
<1> DEFINE firm == Firm(e, drawn, reads)
<1>0. firm \in BOOLEAN
    BY DEF Firm
<1>1. ASSUME NEW n PROVE Blamed(G!resolveService(n), drawn, firm)
    <2> DEFINE hits == {p \in G!procs : p[2] = n.name /\ n.tier \in {"", p[1]}}
    <2> DEFINE p == CHOOSE q \in hits : \A o \in hits : G!TierOrder(q[1], o[1])
    <2>1. CASE hits # {}
        <3>1. p \in G!procs
            BY <2>1, FirstTier, ZenonT(30)
        <3>2. G!resolveService(n) = G!Ref(G!refStateFromCSS(css[p]), "service", p[1], p[2], css[p])
            BY <2>1 DEF G!resolveService
        <3> QED
            BY <3>1, <3>2, <1>0, FoundBlamed
    <2>2. CASE hits = {}
        <3>1. G!resolveService(n) = G!Ref(IF G!anyOnline THEN G!RefMissing ELSE G!RefOffline,
                                          "service", n.tier, n.name, "")
            BY <2>2 DEF G!resolveService
        <3>2. <<"service", n.tier, n.name>> \notin DOMAIN G!Observed(drawn)
            <4>1. ASSUME <<n.tier, n.name>> \in G!procs PROVE <<n.tier, n.name>> \in hits
                BY <4>1
            <4> QED
                BY <2>2, <4>1, OnlyObserved
        <3> QED
            BY <1>0, <3>1, <3>2, RefBlamed DEF Suppliers
    <2> QED
        BY <2>1, <2>2
<1>2. ASSUME NEW n \in G!Match(e), n.kind = "bridge"
      PROVE  Blamed(G!resolveBridge(e, n, reads), drawn, firm)
    <2> DEFINE id == <<"bridge", "", n.name>>
    <2> DEFINE s == reads[<<e, n>>]
    <2>1. CASE n.name \notin BridgeName
        <3>1. G!resolveBridge(e, n, reads) = G!Ref(G!RefMissing, "bridge", "", n.name, "")
            BY <2>1 DEF G!resolveBridge
        <3> QED
            BY <2>1, <3>1, <1>0, OnlyObserved, RefBlamed DEF Suppliers
    <2>2. CASE n.name \in BridgeName
        <3>5. <<e, n>> \in G!bridgeReads
            BY <1>2, <2>2 DEF G!bridgeReads
        <3>1. s \in G!BridgeState /\ (firm => s = drawn[n.name])
            <4>1. <<e, n>>[1] = e /\ <<e, n>>[2] = n
                OBVIOUS
            <4> QED
                BY <3>5, <4>1 DEF Reading, Firm
        <3>2. G!Observed(drawn)[id] = G!healthFromState(drawn[n.name])
            BY <2>2, ObservedNodes
        <3>3. PICK st, raw_ : /\ G!resolveBridge(e, n, reads) = G!Ref(st, "bridge", "", n.name, raw_)
                              /\ s = "active" => st = G!RefOK
            BY <2>2 DEF G!resolveBridge
        <3> HIDE DEF firm
        <3>4. firm /\ st # G!RefOK => G!isBad(G!Observed(drawn)[id])
            BY <3>1, <3>2, <3>3, FaultyState DEF G!BridgeState
        <3> QED
            BY <1>0, <3>3, <3>4, RefBlamed DEF Suppliers
    <2> QED
        BY <2>1, <2>2
<1>3. ASSUME NEW n PROVE Blamed(G!resolveContainer(n), drawn, firm)
    <2> DEFINE id == <<"container", "", n.name>>
    <2> DEFINE s == seen[n.name]
    <2>1. CASE n.name \notin Declared
        <3>1. G!resolveContainer(n) = G!Ref(G!RefMissing, "container", "", n.name, "")
            BY <2>1 DEF G!resolveContainer
        <3> QED
            BY <2>1, <3>1, <1>0, OnlyObserved, RefBlamed DEF Suppliers
    <2>2. CASE n.name \in Declared
        <3>1. s \in G!ContainerState
            BY <2>2 DEF Observations
        <3>2. G!Observed(drawn)[id] = G!healthFromState(s)
            BY <2>2, ObservedNodes
        <3>3. PICK st, raw_ : /\ G!resolveContainer(n) = G!Ref(st, "container", "", n.name, raw_)
                              /\ s = "running" => st = G!RefOK
            BY <2>2 DEF G!resolveContainer
        <3>4. st # G!RefOK => G!isBad(G!Observed(drawn)[id])
            BY <3>1, <3>2, <3>3, FaultyState DEF G!ContainerState
        <3> QED
            BY <1>0, <3>3, <3>4, RefBlamed DEF Suppliers
    <2> QED
        BY <2>1, <2>2
<1>4. Blamed(G!legacyMCPMatch(e), drawn, firm)
    <2>1. \/ \E p \in G!procs :
               G!legacyMCPMatch(e) = G!Ref(G!refStateFromCSS(css[p]), "service", p[1], p[2], css[p])
          \/ \E st : G!legacyMCPMatch(e) = G!Ref(st, "service", "", "", "")
        BY LegacyMatches
    <2>2. <<"service", "", "">> \notin DOMAIN G!Observed(drawn)
        <3>1. \A p \in G!procs : p[1] # ""
            BY Constants DEF G!Assumptions, G!procs
        <3>2. <<"", "">> \notin G!procs
            BY <3>1
        <3> QED
            BY <3>2, OnlyObserved
    <2> QED
        BY <2>1, <2>2, <1>0, FoundBlamed, RefBlamed DEF Suppliers
<1> HIDE DEF firm
<1>5. Blamed(r, drawn, firm)
    BY <1>1, <1>2, <1>3, <1>4 DEF G!Refs
<1> QED
    BY <1>5 DEF firm

(* The graph has finitely many nodes. *)
LEMMA Finites ==
    /\ IsFiniteSet(Process) /\ IsFiniteSet(BridgeName) /\ IsFiniteSet(Declared)
    /\ IsFiniteSet(Entity) /\ IsFiniteSet(DOMAIN Rules) /\ IsFiniteSet(Tier)
    /\ \A i \in DOMAIN Rules : IsFiniteSet(Rules[i].needs)
<1>1. /\ IsFiniteSet(Process) /\ IsFiniteSet(BridgeName) /\ IsFiniteSet(Declared)
      /\ IsFiniteSet(Entity) /\ IsFiniteSet(DOMAIN Rules)
      /\ \A i \in DOMAIN Rules : IsFiniteSet(Rules[i].needs)
      /\ Tier \subseteq {"windows", "wsl"}
    BY Constants, SameFinite DEF G!Assumptions
<1>2. IsFiniteSet({"windows"} \cup {"wsl"})
    BY FS_Singleton, FS_AddElement
<1>3. IsFiniteSet(Tier)
    <2>1. Tier \in SUBSET ({"windows"} \cup {"wsl"})
        BY <1>1
    <2> QED
        BY <1>2, <2>1, FS_Subset
<1> QED
    BY <1>1, <1>3

LEMMA ImageFinite ==
    ASSUME NEW X, IsFiniteSet(X), NEW Y, NEW f \in [X -> Y], \A y \in Y : \E x \in X : f[x] = y
    PROVE  IsFiniteSet(Y)
<1>1. f \in Surjection(X, Y)
    BY DEF Surjection
<1> QED
    BY <1>1, FS_Surjection

LEMMA MatchFinite == ASSUME NEW e PROVE IsFiniteSet(G!Match(e))
<1> DEFINE rules == {j \in DOMAIN Rules :
                        Rules[j].entity = e.key /\ G!scopeMatches(Rules[j].scope, e.scope)}
<1> DEFINE needs == {Rules[i].needs : i \in rules}
<1>1. G!Match(e) = UNION needs
    BY Zenon DEF G!Match
<1>2. rules \in SUBSET DOMAIN Rules
    OBVIOUS
<1> HIDE DEF rules
<1>3. IsFiniteSet(rules)
    BY <1>2, Finites, FS_Subset
<1>4. IsFiniteSet(needs)
    <2> DEFINE f == [i \in rules |-> Rules[i].needs]
    <2>1. f \in [rules -> needs] /\ \A t \in needs : \E x \in rules : f[x] = t
        OBVIOUS
    <2> HIDE DEF f, needs
    <2> QED
        BY <1>3, <2>1, ImageFinite
<1>5. \A t \in needs : IsFiniteSet(t)
    BY <1>2, Finites
<1> HIDE DEF needs
<1> QED
    BY <1>1, <1>4, <1>5, FS_UNION

LEMMA RefsFinite == ASSUME NEW e, NEW reads PROVE IsFiniteSet(G!Refs(e, reads))
<1> DEFINE needs == G!Match(e)
<1> DEFINE f == [n \in needs |-> CASE n.kind = "service" -> G!resolveService(n)
                                   [] n.kind = "bridge" -> G!resolveBridge(e, n, reads)
                                   [] OTHER -> G!resolveContainer(n)]
<1>1. CASE needs = {}
    <2>1. G!Refs(e, reads) = IF e.mcp THEN {G!legacyMCPMatch(e)} ELSE {}
        BY <1>1 DEF G!Refs
    <2>2. IsFiniteSet({G!legacyMCPMatch(e)}) /\ IsFiniteSet({})
        BY FS_Singleton, FS_EmptySet
    <2> QED
        BY <2>1, <2>2
<1>2. CASE needs # {}
    <2>1. G!Refs(e, reads) = {f[n] : n \in needs}
        BY <1>2 DEF G!Refs
    <2>2. IsFiniteSet(needs)
        BY MatchFinite
    <2> HIDE DEF f, needs
    <2>3. f \in [needs -> G!Refs(e, reads)] /\ \A t \in G!Refs(e, reads) : \E x \in needs : f[x] = t
        BY <2>1 DEF f
    <2> QED
        BY <2>2, <2>3, ImageFinite
<1> QED
    BY <1>1, <1>2

LEMMA ObservedFinite == ASSUME NEW drawn PROVE IsFiniteSet(DOMAIN G!Observed(drawn))
<1> DEFINE services == {<<"service", p[1], p[2]>> : p \in G!procs}
<1> DEFINE bridges_ == {<<"bridge", "", b>> : b \in BridgeName}
<1> DEFINE containers_ == {<<"container", "", c>> : c \in Declared}
<1>1. DOMAIN G!Observed(drawn) = (services \cup bridges_) \cup containers_
    BY DEF G!Observed
<1>2. IsFiniteSet(services)
    <2> DEFINE f == [p \in G!procs |-> <<"service", p[1], p[2]>>]
    <2>1. f \in [G!procs -> services] /\ \A t \in services : \E x \in G!procs : f[x] = t
        OBVIOUS
    <2>2. IsFiniteSet(G!procs)
        BY Finites, FS_Subset DEF G!procs
    <2> HIDE DEF f, services
    <2> QED
        BY <2>1, <2>2, ImageFinite
<1>3. IsFiniteSet(bridges_)
    <2> DEFINE f == [b \in BridgeName |-> <<"bridge", "", b>>]
    <2>1. f \in [BridgeName -> bridges_] /\ \A t \in bridges_ : \E x \in BridgeName : f[x] = t
        OBVIOUS
    <2> HIDE DEF f, bridges_
    <2> QED
        BY <2>1, Finites, ImageFinite
<1>4. IsFiniteSet(containers_)
    <2> DEFINE f == [c \in Declared |-> <<"container", "", c>>]
    <2>1. f \in [Declared -> containers_] /\ \A t \in containers_ : \E x \in Declared : f[x] = t
        OBVIOUS
    <2> HIDE DEF f, containers_
    <2> QED
        BY <2>1, Finites, ImageFinite
<1> HIDE DEF services, bridges_, containers_
<1> QED
    BY <1>1, <1>2, <1>3, <1>4, FS_Union

(* An entity in trouble has a supplier in trouble. *)
LEMMA WorstIsBad ==
    ASSUME Observations, NEW refs, NEW drawn, NEW firm \in [Entity -> BOOLEAN],
           NEW e \in Entity, refs[e] # {},
           \A f \in Entity : \A r \in refs[f] : Rated(r, drawn, firm[f]) /\ Blamed(r, drawn, firm[f])
    PROVE  /\ G!worstSupplier(refs[e], G!supplierHealth(refs, drawn)) \in Healths
           /\ firm[e] /\ G!isBad(G!worstSupplier(refs[e], G!supplierHealth(refs, drawn))) =>
                \E r \in refs[e] : G!isBad(G!supplierHealth(refs, drawn)[r.node])
<1> DEFINE supplier == G!supplierHealth(refs, drawn)
<1>1. \A r \in refs[e] : /\ supplier[r.node] \in Healths
                         /\ r.node \in DOMAIN G!Observed(drawn) => supplier[r.node] = G!Observed(drawn)[r.node]
    BY SupplierHealths
<1>2. ASSUME NEW r \in refs[e], r.node \notin DOMAIN G!Observed(drawn) PROVE G!isBad(supplier[r.node])
    <2> DEFINE all == UNION {refs[f] : f \in Entity}
    <2> DEFINE q == CHOOSE o \in all : o.node = r.node
    <2>1. r \in all
        OBVIOUS
    <2>2. q \in all /\ q.node = r.node
        BY <2>1
    <2>7. PICK f \in Entity : q \in refs[f]
        BY <2>2
    <2>3. supplier[r.node] = G!synthesized(q)
        BY <1>2, <2>1 DEF G!supplierHealth
    <2>4. Rated(q, drawn, firm[f])
        BY <2>7
    <2> HIDE DEF q, all, supplier
    <2>5. q.state \in Ratings \ {G!RefOK}
        BY <1>2, <2>2, <2>4 DEF Rated
    <2>6. G!isBad(G!healthFromRefState(q.state)) /\ G!isBad(G!HealthOffline)
        BY <2>5, HealthRatings DEF G!isBad
    <2> QED
        BY <2>3, <2>6 DEF G!synthesized
<1> HIDE DEF supplier
<1>3. ASSUME firm[e], G!isBad(G!worstSupplier(refs[e], supplier))
      PROVE  \E r \in refs[e] : G!isBad(supplier[r.node])
    <2>1. G!rollup(refs[e]) # G!RefOK
        BY <1>1, <1>3, Worst
    <2>2. PICK r \in refs[e] : r.state = G!rollup(refs[e])
        BY RollUp DEF Rated
    <2>3. CASE r.node \in DOMAIN G!Observed(drawn)
        BY <1>1, <1>3, <2>1, <2>2, <2>3 DEF Blamed
    <2>4. CASE r.node \notin DOMAIN G!Observed(drawn)
        BY <1>2, <2>4
    <2> QED
        BY <2>3, <2>4
<1>4. G!worstSupplier(refs[e], supplier) \in Healths
    <2> DEFINE M == {G!healthFromRefState(G!rollup(refs[e]))} \cup {supplier[r.node] : r \in refs[e]}
    <2>1. M \in SUBSET Healths /\ M # {}
        BY <1>1, HealthRatings
    <2>2. Healths = 0 .. 5
        BY DEF Healths, G!HealthOK, G!HealthDegraded, G!HealthOffline, G!HealthDown, G!HealthMissing,
               G!HealthUnknown
    <2>3. G!worstSupplier(refs[e], supplier) = G!Max(M)
        BY DEF G!worstSupplier
    <2> HIDE DEF M
    <2> QED
        BY <2>1, <2>2, <2>3, MaxOf
<1> QED
    BY <1>3, <1>4 DEF supplier

(* What is in the graph. *)
LEMMA GraphIs ==
    ASSUME NEW refs, NEW drawn
    PROVE  LET supplier == G!supplierHealth(refs, drawn)
               services == {id \in DOMAIN supplier : id[1] = "service" /\ id[2] # ""}
               tiers == {G!instanceID(t) : t \in Tier \cup {s[2] : s \in services}}
               graphed == {e \in Entity : refs[e] # {}}
               entities == {G!entityNodeID(e) : e \in graphed}
               g == G!BuildGraph(refs, drawn)
           IN  /\ DOMAIN g.health = (DOMAIN supplier \cup tiers) \cup entities
               /\ \A id \in tiers : g.health[id] = G!instanceHealth(id[2])
               /\ \A id \in DOMAIN supplier \ (tiers \cup entities) : g.health[id] = supplier[id]
               /\ g.edges = (UNION {{<<G!entityNodeID(e), r.node>> : r \in refs[e]} : e \in graphed})
                            \cup {<<id, G!instanceID(id[2])>> : id \in services}
<1> DEFINE supplier == G!supplierHealth(refs, drawn)
<1> DEFINE services == {id \in DOMAIN supplier : id[1] = "service" /\ id[2] # ""}
<1> DEFINE tiers == {G!instanceID(t) : t \in Tier \cup {s[2] : s \in services}}
<1> DEFINE graphed == {e \in Entity : refs[e] # {}}
<1> DEFINE entities == {G!entityNodeID(e) : e \in graphed}
<1> DEFINE g == G!BuildGraph(refs, drawn)
<1>1. /\ g.health =
        [i \in DOMAIN supplier \cup tiers \cup entities |->
            CASE i \in tiers -> G!instanceHealth(i[2])
              [] i \in entities -> LET f == CHOOSE e \in graphed : G!entityNodeID(e) = i
                                   IN G!worstSupplier(refs[f], supplier)
              [] OTHER -> supplier[i]]
      /\ g.edges = (UNION {{<<G!entityNodeID(e), r.node>> : r \in refs[e]} : e \in graphed})
                   \cup {<<id, G!instanceID(id[2])>> : id \in services}
    BY DEF G!BuildGraph
<1>2. \A i \in tiers : i \notin entities
    <2>1. \A t, e : G!instanceID(t) # G!entityNodeID(e)
        BY DEF G!entityNodeID, G!instanceID
    <2> QED
        BY <2>1
<1> HIDE DEF g, entities, graphed, tiers, services, supplier
<1>3. DOMAIN g.health = (DOMAIN supplier \cup tiers) \cup entities
    BY <1>1
<1>4. \A id \in tiers : g.health[id] = G!instanceHealth(id[2])
    BY <1>1, <1>2
<1>5. \A id \in DOMAIN supplier \ (tiers \cup entities) : g.health[id] = supplier[id]
    BY <1>1
<1> QED
    BY <1>1, <1>3, <1>4, <1>5 DEF g, entities, graphed, tiers, services, supplier

(* The graph that is made of such refs has the shape. *)
LEMMA GraphShape ==
    ASSUME Observations, NEW refs, NEW drawn, NEW firm \in [Entity -> BOOLEAN], NEW unsure,
           \A e \in Entity : /\ IsFiniteSet(refs[e])
                             /\ \A r \in refs[e] : Rated(r, drawn, firm[e]) /\ Blamed(r, drawn, firm[e])
                             /\ e \notin unsure => firm[e]
    PROVE  Shape(G!BuildGraph(refs, drawn).health, G!BuildGraph(refs, drawn).edges, unsure)
<1> DEFINE supplier == G!supplierHealth(refs, drawn)
<1> DEFINE services == {id \in DOMAIN supplier : id[1] = "service" /\ id[2] # ""}
<1> DEFINE tiers == {G!instanceID(t) : t \in Tier \cup {s[2] : s \in services}}
<1> DEFINE graphed == {e \in Entity : refs[e] # {}}
<1> DEFINE entities == {G!entityNodeID(e) : e \in graphed}
<1> DEFINE all == UNION {refs[e] : e \in Entity}
<1> DEFINE h == G!BuildGraph(refs, drawn).health
<1> DEFINE es == G!BuildGraph(refs, drawn).edges
<1>1. /\ DOMAIN h = (DOMAIN supplier \cup tiers) \cup entities
      /\ \A id \in tiers : h[id] = G!instanceHealth(id[2])
      /\ \A id \in DOMAIN supplier \ (tiers \cup entities) : h[id] = supplier[id]
      /\ es = (UNION {{<<G!entityNodeID(e), r.node>> : r \in refs[e]} : e \in graphed})
              \cup {<<id, G!instanceID(id[2])>> : id \in services}
    BY GraphIs, Zenon
<1>2. \A t : G!instanceID(t)[1] = "instance" /\ G!instanceID(t)[2] = t
    BY DEF G!instanceID
<1>3. \A e : G!entityNodeID(e)[1] = "entity"
    BY DEF G!entityNodeID
<1>4. DOMAIN supplier = DOMAIN G!Observed(drawn) \cup {r.node : r \in all}
    BY DEF G!supplierHealth
<1>5. \A id \in DOMAIN supplier : id[1] \in Suppliers
    <2>1. \A r \in all : r.node[1] \in Suppliers
        BY DEF Blamed
    <2> QED
        BY <1>4, <2>1, OnlyObserved
<1>6. \A e \in graphed :
        /\ G!entityNodeID(e) \in DOMAIN h
        /\ h[G!entityNodeID(e)] = G!worstSupplier(refs[e], supplier)
        /\ G!worstSupplier(refs[e], supplier) \in Healths
        /\ firm[e] /\ G!isBad(G!worstSupplier(refs[e], supplier))
            => \E r \in refs[e] : G!isBad(supplier[r.node])
    <2> SUFFICES ASSUME NEW e \in graphed
                 PROVE  /\ G!entityNodeID(e) \in DOMAIN h
                        /\ h[G!entityNodeID(e)] = G!worstSupplier(refs[e], supplier)
                        /\ G!worstSupplier(refs[e], supplier) \in Healths
                        /\ firm[e] /\ G!isBad(G!worstSupplier(refs[e], supplier))
                            => \E r \in refs[e] : G!isBad(supplier[r.node])
        OBVIOUS
    <2>1. e \in Entity /\ refs[e] # {}
        OBVIOUS
    <2> QED
        BY <2>1, EntityHealth, WorstIsBad
<1>7. /\ \A id \in DOMAIN supplier : supplier[id] \in Healths
      /\ \A e \in Entity : \A r \in refs[e] : r.node \in DOMAIN supplier
    BY SupplierHealths
<1>8. \A e \in Entity : \A r \in refs[e] :
        r.node[1] \in Suppliers /\ (r.node[1] # "service" => r.node[2] = "")
    BY DEF Blamed
<1>9. IsFiniteSet(all)
    <2> DEFINE sets == {refs[e] : e \in Entity}
    <2> DEFINE f == [e \in Entity |-> refs[e]]
    <2>1. f \in [Entity -> sets] /\ \A t \in sets : \E x \in Entity : f[x] = t
        OBVIOUS
    <2>2. \A t \in sets : IsFiniteSet(t)
        OBVIOUS
    <2> HIDE DEF f, sets
    <2>3. IsFiniteSet(sets)
        BY <2>1, Finites, ImageFinite
    <2>4. IsFiniteSet(UNION sets)
        BY <2>2, <2>3, FS_UNION
    <2> QED
        BY <2>4 DEF sets
<1> HIDE DEF h, es, supplier, all
<1>10. IsFiniteSet(DOMAIN supplier)
    <2> DEFINE nodes == {r.node : r \in all}
    <2> DEFINE f == [r \in all |-> r.node]
    <2>1. f \in [all -> nodes] /\ \A t \in nodes : \E x \in all : f[x] = t
        OBVIOUS
    <2>2. DOMAIN supplier = DOMAIN G!Observed(drawn) \cup nodes
        BY <1>4
    <2> HIDE DEF f, nodes
    <2>3. IsFiniteSet(nodes)
        BY <1>9, <2>1, ImageFinite
    <2>4. IsFiniteSet(DOMAIN G!Observed(drawn))
        BY ObservedFinite
    <2> QED
        BY <2>2, <2>3, <2>4, FS_Union
<1>11. IsFiniteSet(tiers)
    <2> DEFINE ts == {s[2] : s \in services}
    <2> DEFINE f == [s \in services |-> s[2]]
    <2> DEFINE tt == Tier \cup ts
    <2> DEFINE k == [t \in tt |-> G!instanceID(t)]
    <2>1. services \in SUBSET DOMAIN supplier
        OBVIOUS
    <2>2. f \in [services -> ts] /\ \A t \in ts : \E x \in services : f[x] = t
        OBVIOUS
    <2>3. k \in [tt -> tiers] /\ \A t \in tiers : \E x \in tt : k[x] = t
        OBVIOUS
    <2> HIDE DEF f, k, services, ts, tiers
    <2>4. IsFiniteSet(services)
        BY <1>10, <2>1, FS_Subset
    <2>5. IsFiniteSet(ts)
        BY <2>2, <2>4, ImageFinite
    <2>6. IsFiniteSet(tt)
        BY <2>5, Finites, FS_Union
    <2> HIDE DEF tt
    <2> QED
        BY <2>3, <2>6, ImageFinite
<1>12. IsFiniteSet(entities)
    <2> DEFINE f == [e \in graphed |-> G!entityNodeID(e)]
    <2>1. f \in [graphed -> entities] /\ \A t \in entities : \E x \in graphed : f[x] = t
        OBVIOUS
    <2>2. graphed \in SUBSET Entity
        OBVIOUS
    <2> HIDE DEF f, graphed, entities
    <2>3. IsFiniteSet(graphed)
        BY <2>2, Finites, FS_Subset
    <2> QED
        BY <2>1, <2>3, ImageFinite
<1>13. IsFiniteSet(DOMAIN h)
    <2>1. DOMAIN h = (DOMAIN supplier \cup tiers) \cup entities
        BY <1>1
    <2> HIDE DEF tiers, entities
    <2>2. IsFiniteSet(DOMAIN supplier \cup tiers)
        BY <1>10, <1>11, FS_Union
    <2>3. IsFiniteSet((DOMAIN supplier \cup tiers) \cup entities)
        BY <1>12, <2>2, FS_Union
    <2> QED
        BY <2>1, <2>3
<1>22. /\ \A x \in es : \/ \E e \in graphed : \E r \in refs[e] : x = <<G!entityNodeID(e), r.node>>
                       \/ \E id \in services : x = <<id, G!instanceID(id[2])>>
       /\ \A e \in graphed : \A r \in refs[e] : <<G!entityNodeID(e), r.node>> \in es
       /\ \A id \in services : <<id, G!instanceID(id[2])>> \in es
    <2> DEFINE needed == (UNION {{<<G!entityNodeID(e), r.node>> : r \in refs[e]} : e \in graphed})
    <2> DEFINE hosted == {<<id, G!instanceID(id[2])>> : id \in services}
    <2>1. es = needed \cup hosted
        BY <1>1, Zenon
    <2>2. \A x \in hosted : \E id \in services : x = <<id, G!instanceID(id[2])>>
        OBVIOUS
    <2>3. \A id \in services : <<id, G!instanceID(id[2])>> \in hosted
        OBVIOUS
    <2>4. \A x \in needed : \E e \in graphed : \E r \in refs[e] : x = <<G!entityNodeID(e), r.node>>
        OBVIOUS
    <2>5. \A e \in graphed : \A r \in refs[e] : <<G!entityNodeID(e), r.node>> \in needed
        OBVIOUS
    <2> HIDE DEF needed, hosted, graphed, services
    <2> QED
        BY <2>1, <2>2, <2>3, <2>4, <2>5, Zenon
<1>14. \A id \in DOMAIN supplier : id \notin tiers \cup entities
    BY <1>2, <1>3, <1>5 DEF Suppliers
<1>15. \A id \in DOMAIN supplier : id \in DOMAIN h /\ h[id] = supplier[id]
    BY <1>1, <1>14
<1>16. ASSUME NEW id \in DOMAIN h PROVE h[id] \in Healths
    <2>1. CASE id \in tiers
        <3>1. h[id] = G!instanceHealth(id[2])
            BY <1>1, <2>1
        <3>2. \A t : G!instanceHealth(t) \in Healths
            BY DEF G!instanceHealth, Healths
        <3> QED
            BY <3>1, <3>2
    <2>2. CASE id \in entities
        BY <1>6, <2>2
    <2>3. CASE id \in DOMAIN supplier
        BY <1>7, <1>15, <2>3
    <2> QED
        BY <1>1, <2>1, <2>2, <2>3
<1>17. ASSUME NEW c \in DOMAIN h, NEW s \in DOMAIN h, <<c, s>> \in es
       PROVE  \/ c[1] = "entity" /\ s[1] \in Suppliers /\ (s[1] # "service" => s[2] = "")
              \/ c[1] = "service" /\ s = G!instanceID(c[2])
    <2>1. \/ \E e \in graphed : \E r \in refs[e] : <<c, s>> = <<G!entityNodeID(e), r.node>>
          \/ \E id \in services : <<c, s>> = <<id, G!instanceID(id[2])>>
        BY <1>17, <1>22
    <2>2. ASSUME NEW e \in graphed, NEW r \in refs[e], <<c, s>> = <<G!entityNodeID(e), r.node>>
          PROVE  c[1] = "entity" /\ s[1] \in Suppliers /\ (s[1] # "service" => s[2] = "")
        <3>1. c = G!entityNodeID(e) /\ s = r.node /\ e \in Entity
            BY <2>2
        <3> QED
            BY <1>3, <1>8, <3>1
    <2>3. ASSUME NEW id \in services, <<c, s>> = <<id, G!instanceID(id[2])>>
          PROVE  c[1] = "service" /\ s = G!instanceID(c[2])
        <3>1. c = id /\ s = G!instanceID(id[2]) /\ id[1] = "service"
            BY <2>3
        <3> QED
            BY <3>1
    <2> HIDE DEF services, graphed
    <2> QED
        BY <2>1, <2>2, <2>3
<1>18. ASSUME NEW c \in DOMAIN h, c[1] = "service", c[2] # ""
       PROVE  <<c, G!instanceID(c[2])>> \in es /\ G!instanceID(c[2]) \in DOMAIN h
    <2>1. c \in DOMAIN supplier
        BY <1>1, <1>2, <1>3, <1>18
    <2>2. c \in services /\ G!instanceID(c[2]) \in tiers
        BY <1>18, <2>1
    <2>3. G!instanceID(c[2]) \in DOMAIN h
        BY <1>1, <2>2
    <2> HIDE DEF services
    <2> QED
        BY <1>22, <2>2, <2>3
<1>19. ASSUME NEW t \in Tier, ~up[t] PROVE G!isBad(h[G!instanceID(t)])
    <2>1. h[G!instanceID(t)] = G!instanceHealth(t)
        BY <1>1, <1>2
    <2>2. G!instanceHealth(t) = G!HealthOffline
        BY <1>19 DEF G!instanceHealth
    <2> QED
        BY <2>1, <2>2 DEF G!isBad
<1>20. ASSUME NEW id \in DOMAIN h, id[1] = "entity", G!isBad(h[id]),
              \A e \in unsure : id # G!entityNodeID(e)
       PROVE  G!faults(h, es, id) # {}
    <2>1. PICK e \in graphed : id = G!entityNodeID(e)
        BY <1>1, <1>2, <1>5, <1>20 DEF Suppliers
    <2>5. firm[e]
        BY <1>20, <2>1
    <2>2. PICK r \in refs[e] : G!isBad(supplier[r.node])
        BY <1>6, <1>20, <2>1, <2>5
    <2>3. r.node \in DOMAIN h /\ G!isBad(h[r.node])
        BY <1>7, <1>15, <2>2
    <2>4. <<id, r.node>> \in es
        BY <1>22, <2>1
    <2> QED
        BY <2>3, <2>4 DEF G!faults
<1>21. Shape(h, es, unsure)
    BY <1>13, <1>16, <1>17, <1>18, <1>19, <1>20 DEF Shape
<1> QED
    BY <1>21 DEF h, es

(* So is every answer. *)
LEMMA AnswerShape ==
    ASSUME Observations, NEW drawn, NEW reads, Reading(drawn, reads)
    PROVE  LET a == G!Answered(drawn, reads) IN Shape(a.health, a.edges, a.moved)
<1> DEFINE refs == [e \in Entity |-> G!Refs(e, reads)]
<1> DEFINE firm == [e \in Entity |-> Firm(e, drawn, reads)]
<1> DEFINE a == G!Answered(drawn, reads)
<1>1. /\ a.health = G!BuildGraph(refs, drawn).health /\ a.edges = G!BuildGraph(refs, drawn).edges
      /\ a.moved = {x[1] : x \in {y \in G!bridgeReads : reads[y] # drawn[y[2].name]}}
    BY DEF G!Answered
<1>2. \A e \in Entity : /\ IsFiniteSet(refs[e])
                        /\ \A r \in refs[e] : Rated(r, drawn, firm[e]) /\ Blamed(r, drawn, firm[e])
    BY RefsFinite, RefsRated, RefsBlamed
<1>3. firm \in [Entity -> BOOLEAN]
    BY DEF Firm
<1>4. \A e \in Entity : e \notin a.moved => firm[e]
    BY <1>1 DEF Firm
<1> HIDE DEF refs, firm, a
<1>5. Shape(a.health, a.edges, a.moved)
    BY <1>1, <1>2, <1>3, <1>4, GraphShape
<1> QED
    BY <1>5 DEF a

(* What the proof needs of every state: an answer of that shape, which     *)
(* stays one since no instance is probed any more.                         *)
AnswerInv == GraphInv /\ (answer # G!NoAnswer => Shape(answer.health, answer.edges, answer.moved))

LEMMA AnswerNext == AnswerInv /\ [G!Next]_(G!vars) => AnswerInv'
<1> SUFFICES ASSUME AnswerInv, [G!Next]_(G!vars) PROVE AnswerInv'
    OBVIOUS
<1>1. GraphInv'
    BY GraphNext DEF AnswerInv
<1>2. CASE G!Answer
    <2>1. PICK drawn \in [BridgeName -> G!BridgeState], reads \in [G!bridgeReads -> G!BridgeState] :
              answer' = G!Answered(drawn, reads)
        BY <1>2 DEF G!Answer
    <2>3. Reading(drawn, reads) /\ up' = up
        BY <1>2 DEF G!Answer, Reading
    <2>2. Shape(answer'.health, answer'.edges, answer'.moved)
        BY <2>1, <2>3, AnswerShape DEF AnswerInv, GraphInv
    <2> QED
        BY <1>1, <2>2, <2>3 DEF AnswerInv, Shape
<1>3. CASE ~G!Answer
    <2>1. answer' = answer
        BY <1>3 DEF G!Next, G!Gather, G!Snapshot, G!Ping, G!Processes, G!Build, G!Rebuild, G!world, G!vars
    <2>2. answer # G!NoAnswer => up' = up
        <3>1. answer # G!NoAnswer => \A t \in Tier : probe[t] = "done"
            BY DEF AnswerInv, GraphInv
        <3> QED
            BY <1>3, <3>1 DEF G!Next, G!Gather, G!Snapshot, G!Ping, G!Processes, G!Build, G!Rebuild, G!vars
    <2> QED
        BY <1>1, <2>1, <2>2 DEF AnswerInv, Shape
<1> QED
    BY <1>2, <1>3

(* A diagnosis ends at a node without a fault below it, each step of it    *)
(* has what it started from in its blast radius, an entity in trouble has  *)
(* a cause, and trouble with one unreachable tier leads to that tier.      *)
THEOREM CauseIsFound == Spec => []CauseFound
<1> DEFINE Inv == panel = "graph" => AnswerInv
<1>1. Init => Inv
    <2>1. G!Init => answer = G!NoAnswer
        BY DEF G!Init
    <2> QED
        BY <2>1, GraphInit DEF Init, AnswerInv
<1>2. Inv /\ [Next]_vars => Inv'
    <2>1. [Next]_vars => UNCHANGED panel /\ (panel = "graph" => [G!Next]_(G!vars))
        BY DEF Next, vars, G!vars, graphOwn, G!world
    <2> QED
        BY <2>1, AnswerNext
<1>3. Inv => CauseFound
    <2>1. answer = G!NoAnswer => DOMAIN answer.health = {}
        BY DEF G!NoAnswer
    <2>2. answer = G!NoAnswer => G!CauseFound
        BY <2>1 DEF G!CauseFound
    <2> QED
        BY <2>2, ShapeFinds DEF CauseFound, AnswerInv
<1> QED
    BY <1>1, <1>2, <1>3, PTL DEF Spec

-----------------------------------------------------------------------------
LEMMA SameFiniteS ==
    /\ \A set : S!IsFiniteSet(set) <=> IsFiniteSet(set)
    /\ \A set : S!Cardinality(set) = Cardinality(set)
<1>1. ASSUME NEW set PROVE S!IsFiniteSet(set) <=> IsFiniteSet(set)
    BY Zenon DEF S!IsFiniteSet, IsFiniteSet
<1>2. ASSUME NEW set PROVE S!Cardinality(set) = Cardinality(set)
    BY Zenon DEF S!Cardinality, Cardinality
<1> QED
    BY <1>1, <1>2

-----------------------------------------------------------------------------
(* Sums over a finite set: of the sizes of sets that have nothing in       *)
(* common, the sum is the size of their union.                             *)

Apart(fam, T) ==
    /\ \A i \in T : IsFiniteSet(fam[i])
    /\ \A i, j \in T : i # j => fam[i] \cap fam[j] = {}
Together(fam, T) == UNION {fam[i] : i \in T}
(* The equation of a fold that adds up the sizes. *)
Adds(sum, fam, T) ==
    sum = [s \in SUBSET T |-> IF s = {} THEN 0
                              ELSE LET x == CHOOSE x \in s : TRUE
                                   IN  Cardinality(fam[x]) + sum[s \ {x}]]

(* A finite union of finite sets is finite. *)
LEMMA TogetherFinite ==
    ASSUME NEW T, IsFiniteSet(T), NEW fam, \A i \in T : IsFiniteSet(fam[i])
    PROVE  IsFiniteSet(Together(fam, T))
<1> DEFINE all == {fam[i] : i \in T}
           f == [i \in T |-> fam[i]]
<1>1. f \in Surjection(T, all)
    BY DEF Surjection
<1>2. IsFiniteSet(all)
    BY <1>1, FS_Surjection
<1>3. \A A \in all : IsFiniteSet(A)
    OBVIOUS
<1> HIDE DEF all
<1>4. IsFiniteSet(UNION all)
    BY <1>2, <1>3, FS_UNION
<1> QED
    BY <1>4 DEF all, Together

(* One of the sets is counted apart from the others. *)
LEMMA ApartSplit ==
    ASSUME NEW T, IsFiniteSet(T), NEW fam, Apart(fam, T), NEW x, x \in T
    PROVE  /\ Apart(fam, T \ {x}) /\ IsFiniteSet(T \ {x})
           /\ Cardinality(Together(fam, T)) = Cardinality(fam[x]) + Cardinality(Together(fam, T \ {x}))
<1> DEFINE A == fam[x]
           B == Together(fam, T \ {x})
<1>1. Apart(fam, T \ {x}) /\ IsFiniteSet(T \ {x})
    BY FS_RemoveElement DEF Apart
<1>2. IsFiniteSet(A) /\ IsFiniteSet(B)
    BY <1>1, TogetherFinite DEF Apart
<1>3. A \cap B = {} /\ Together(fam, T) = A \cup B
    BY DEF Apart, Together
<1> HIDE DEF A, B
<1>4. Cardinality(A \cup B) = Cardinality(A) + Cardinality(B) - Cardinality(A \cap B)
    BY <1>2, FS_Union
<1>5. Cardinality(A \cap B) = 0
    BY <1>3, FS_EmptySet
<1>6. Cardinality(A) \in Nat /\ Cardinality(B) \in Nat
    BY <1>2, FS_CardinalityType
<1>7. Cardinality(A \cup B) = Cardinality(A) + Cardinality(B)
    BY <1>4, <1>5, <1>6
<1> QED
    BY <1>1, <1>3, <1>7 DEF A, B

(* There is a sum for every finite set. *)
LEMMA SumsExist ==
    ASSUME NEW T, IsFiniteSet(T), NEW fam, Apart(fam, T)
    PROVE  Adds([s \in SUBSET T |-> Cardinality(Together(fam, s))], fam, T)
<1> DEFINE h == [s \in SUBSET T |-> Cardinality(Together(fam, s))]
<1>1. ASSUME NEW s \in SUBSET T, s = {} PROVE h[s] = 0
    <2>1. Together(fam, s) = {}
        BY <1>1 DEF Together
    <2> QED
        BY <2>1, FS_EmptySet
<1>2. ASSUME NEW s \in SUBSET T, s # {}, NEW x, x \in s
      PROVE  h[s] = Cardinality(fam[x]) + h[s \ {x}]
    <2>1. Apart(fam, s) /\ IsFiniteSet(s)
        BY FS_Subset DEF Apart
    <2>2. Cardinality(Together(fam, s)) = Cardinality(fam[x]) + Cardinality(Together(fam, s \ {x}))
        BY <1>2, <2>1, ApartSplit
    <2> QED
        BY <2>2
<1>3. \A s \in SUBSET T : s # {} => (CHOOSE x \in s : TRUE) \in s
    OBVIOUS
<1> HIDE DEF h
<1>4. \A s \in SUBSET T : h[s] = IF s = {} THEN 0
                              ELSE LET x == CHOOSE x \in s : TRUE
                                   IN  Cardinality(fam[x]) + h[s \ {x}]
    BY <1>1, <1>2, <1>3
<1>5. h = [s \in SUBSET T |-> h[s]]
    BY DEF h
<1>6. Adds(h, fam, T)
    BY <1>4, <1>5 DEF Adds
<1> QED
    BY <1>6 DEF h

(* The sum is the size of the union. *)
LEMMA SumIsSize ==
    ASSUME NEW T, IsFiniteSet(T), NEW fam, Apart(fam, T), NEW sum, Adds(sum, fam, T)
    PROVE  sum[T] = Cardinality(Together(fam, T))
<1> DEFINE Good == {n \in Nat : \A s \in SUBSET T : Cardinality(s) = n =>
                                    sum[s] = Cardinality(Together(fam, s))}
<1>1. \A s \in SUBSET T : IsFiniteSet(s) /\ Cardinality(s) \in Nat
    BY FS_Subset, FS_CardinalityType
<1>2. 0 \in Good
    <2>1. \A s \in SUBSET T : Cardinality(s) = 0 => s = {}
        BY <1>1, FS_EmptySet
    <2>2. sum[{}] = 0
        BY DEF Adds
    <2>3. Together(fam, {}) = {}
        BY DEF Together
    <2> QED
        BY <2>1, <2>2, <2>3, FS_EmptySet
<1>3. ASSUME NEW n \in Nat, n \in Good PROVE n + 1 \in Good
    <2> SUFFICES ASSUME NEW s \in SUBSET T, Cardinality(s) = n + 1
                 PROVE  sum[s] = Cardinality(Together(fam, s))
        OBVIOUS
    <2>1. s # {}
        BY FS_EmptySet
    <2> DEFINE x == CHOOSE x \in s : TRUE
    <2>2. x \in s
        BY <2>1
    <2>3. sum[s] = Cardinality(fam[x]) + sum[s \ {x}]
        BY <2>1 DEF Adds
    <2> HIDE DEF x
    <2>4. Cardinality(s \ {x}) = n
        BY <1>1, <2>2, FS_RemoveElement
    <2>5. sum[s \ {x}] = Cardinality(Together(fam, s \ {x}))
        BY <1>3, <2>4
    <2>6. Apart(fam, s)
        BY DEF Apart
    <2>7. Cardinality(Together(fam, s)) = Cardinality(fam[x]) + Cardinality(Together(fam, s \ {x}))
        BY <1>1, <2>2, <2>6, ApartSplit
    <2> QED
        BY <2>3, <2>5, <2>7
<1>4. Good \subseteq Nat
    OBVIOUS
<1>5. Cardinality(T) \in Nat /\ T \in SUBSET T
    BY <1>1
<1>6. Nat \subseteq Good
    <2> HIDE DEF Good
    <2> QED
        BY <1>2, <1>3, SetInduction
<1> QED
    BY <1>5, <1>6
-----------------------------------------------------------------------------
(* The sizes of images that are unique, and the full ones.                 *)
Alone(i) == Layers[i] \ UNION {Layers[j] : j \in images \ {i}}

(* The unique sizes of some images add up to the layers only they have. *)
LEMMA UniqueSizeIs ==
    ASSUME images \subseteq Image, NEW T, T \subseteq images
    PROVE  /\ S!UniqueSize(T) \in Nat
           /\ S!UniqueSize(T) = Cardinality(UNION {Alone(i) : i \in T})
<1> DEFINE fam == [i \in T |-> Alone(i)]
<1>1. IsFiniteSet(T) /\ \A i \in T : IsFiniteSet(Layers[i])
    BY Constants, SameFiniteS, FS_Subset DEF S!Assumptions
<1>2. Apart(fam, T)
    <2>1. \A i \in T : IsFiniteSet(fam[i])
        BY <1>1, FS_Difference DEF Alone
    <2>2. \A i, j \in T : i # j => fam[i] \cap fam[j] = {}
        BY DEF Alone
    <2> QED
        BY <2>1, <2>2 DEF Apart
<1>3. \A i \in T : S!Unique(i) = Cardinality(fam[i])
    BY SameFiniteS DEF S!Unique, Alone
<1> HIDE DEF fam
<1> DEFINE Is(g) == g = [s \in SUBSET T |-> IF s = {} THEN 0
                                            ELSE LET x == CHOOSE x \in s : TRUE
                                                 IN  S!Unique(x) + g[s \ {x}]]
<1>4. ASSUME NEW g PROVE Is(g) <=> Adds(g, fam, T)
    <2>1. \A s \in SUBSET T : s # {} => (CHOOSE x \in s : TRUE) \in T
        OBVIOUS
    <2>2. [s \in SUBSET T |-> IF s = {} THEN 0
                               ELSE LET x == CHOOSE x \in s : TRUE IN S!Unique(x) + g[s \ {x}]]
          = [s \in SUBSET T |-> IF s = {} THEN 0
                               ELSE LET x == CHOOSE x \in s : TRUE IN Cardinality(fam[x]) + g[s \ {x}]]
        BY <1>3, <2>1
    <2> QED
        BY <2>2 DEF Adds
<1>5. \E g : Is(g)
    BY <1>1, <1>2, <1>4, SumsExist
<1> DEFINE total[s \in SUBSET T] ==
               IF s = {} THEN 0 ELSE S!Unique(CHOOSE x \in s : TRUE) + total[s \ {CHOOSE x \in s : TRUE}]
<1>6. Is(total)
    BY <1>5
<1>7. S!UniqueSize(T) = total[T]
    BY DEF S!UniqueSize, S!MapThenSumSet, S!MapThenFoldSet
<1> HIDE DEF total, Is
<1>8. total[T] = Cardinality(Together(fam, T))
    BY <1>1, <1>2, <1>4, <1>6, SumIsSize
<1>9. Together(fam, T) = UNION {Alone(i) : i \in T}
    BY DEF Together, fam
<1>10. Cardinality(Together(fam, T)) \in Nat
    BY <1>1, <1>2, TogetherFinite, FS_CardinalityType DEF Apart
<1> QED
    BY <1>7, <1>8, <1>9, <1>10

(* Sums of full sizes are numbers. *)
LEMMA FullSizeNat ==
    ASSUME NEW T, T \subseteq Image
    PROVE  S!FullSize(T) \in Nat
<1> DEFINE fam == [i \in T |-> {i} \X Layers[i]]
<1>1. IsFiniteSet(T) /\ \A i \in T : IsFiniteSet(Layers[i])
    BY Constants, SameFiniteS, FS_Subset DEF S!Assumptions
<1>2. ASSUME NEW i \in T
      PROVE  IsFiniteSet(fam[i]) /\ S!Cardinality(Layers[i]) = Cardinality(fam[i])
    <2>1. IsFiniteSet({i}) /\ Cardinality({i}) = 1 /\ IsFiniteSet(Layers[i])
        BY <1>1, FS_Singleton
    <2>2. IsFiniteSet({i} \X Layers[i]) /\ Cardinality({i} \X Layers[i]) = 1 * Cardinality(Layers[i])
        BY <2>1, FS_Product
    <2>3. Cardinality(Layers[i]) \in Nat
        BY <2>1, FS_CardinalityType
    <2>4. Cardinality({i} \X Layers[i]) = Cardinality(Layers[i])
        BY <2>2, <2>3
    <2> QED
        BY <2>2, <2>4, SameFiniteS
<1>3. Apart(fam, T)
    <2>1. \A i, j \in T : i # j => fam[i] \cap fam[j] = {}
        OBVIOUS
    <2> QED
        BY <1>2, <2>1 DEF Apart
<1> HIDE DEF fam
<1> DEFINE Is(g) == g = [s \in SUBSET T |-> IF s = {} THEN 0
                                            ELSE LET x == CHOOSE x \in s : TRUE
                                                 IN  S!Cardinality(Layers[x]) + g[s \ {x}]]
<1>4. ASSUME NEW g PROVE Is(g) <=> Adds(g, fam, T)
    <2>1. \A s \in SUBSET T : s # {} => (CHOOSE x \in s : TRUE) \in T
        OBVIOUS
    <2>2. [s \in SUBSET T |-> IF s = {} THEN 0
                               ELSE LET x == CHOOSE x \in s : TRUE
                                    IN  S!Cardinality(Layers[x]) + g[s \ {x}]]
          = [s \in SUBSET T |-> IF s = {} THEN 0
                               ELSE LET x == CHOOSE x \in s : TRUE
                                    IN  Cardinality(fam[x]) + g[s \ {x}]]
        BY <1>2, <2>1
    <2> QED
        BY <2>2 DEF Adds
<1>5. \E g : Is(g)
    BY <1>1, <1>3, <1>4, SumsExist
<1> DEFINE total[s \in SUBSET T] ==
               IF s = {} THEN 0
               ELSE S!Cardinality(Layers[CHOOSE x \in s : TRUE]) + total[s \ {CHOOSE x \in s : TRUE}]
<1>6. Is(total)
    BY <1>5
<1>7. S!FullSize(T) = total[T]
    BY DEF S!FullSize, S!MapThenSumSet, S!MapThenFoldSet
<1> HIDE DEF total, Is
<1>8. total[T] = Cardinality(Together(fam, T))
    BY <1>1, <1>3, <1>4, <1>6, SumIsSize
<1>9. Cardinality(Together(fam, T)) \in Nat
    BY <1>1, <1>3, TogetherFinite, FS_CardinalityType DEF Apart
<1> QED
    BY <1>7, <1>8, <1>9
-----------------------------------------------------------------------------
(* The estimate: what the calls to come would free makes up for what the   *)
(* modal promised and the calls before them have not freed.                *)

Stock ==
    /\ images \subseteq Image /\ volumes \subseteq Volume /\ records.all \subseteq Record
    /\ engine \in {"docker", "podman"} /\ (engine = "podman" => records.all = {})
Loose == {i \in images \cap dangling : ~S!Held(i)}
Gain == S!Footprint(images) - S!Footprint(images \ Loose)
Cache == Cardinality(S!Sized("buildcache", records.all \ records.used))

Promised ==
    /\ freed \in Nat /\ modal.safe \in Nat /\ modal.all \in Nat
    /\ modal.safe <= modal.all
    /\ op.key # "__safe__" => modal.safe = 0
    /\ op.key = "__safe__" => op.act = "prune"
    /\ pc = "idle" => modal.safe = 0
    /\ pc = "done" => ~broken
    /\ op.key = "__safe__" /\ calls = <<"dangling">> => engine = "podman"
Due ==
    calm /\ ~broken /\ op.key = "__safe__" =>
        /\ pc = "modal" \/ calls \in {<<"dangling", "buildcache">>, <<"dangling">>} =>
                modal.safe <= Gain + Cache
        /\ calls = <<"buildcache">> => modal.safe <= freed + Cache
        /\ pc \in {"act", "done"} /\ calls = <<>> => modal.safe <= freed
EstimateInv == DiskTypes /\ Queue /\ Stock /\ Promised /\ Due

LEMMA FiniteStock ==
    /\ IsFiniteSet(Image) /\ IsFiniteSet(EngineContainer) /\ IsFiniteSet(Volume) /\ IsFiniteSet(Record)
    /\ \A i \in Image : IsFiniteSet(Layers[i])
BY Constants, SameFiniteS DEF S!Assumptions

(* What the engine stores is finite. *)
LEMMA SizedFinite ==
    ASSUME NEW k, NEW ns, IsFiniteSet(ns) PROVE IsFiniteSet(S!Sized(k, ns))
<1> DEFINE f == [n \in ns |-> <<k, n>>]
<1>1. f \in Surjection(ns, S!Sized(k, ns))
    BY DEF Surjection, S!Sized
<1> QED
    BY <1>1, FS_Surjection

Objects == S!Sized("images", Image) \cup S!Sized("containers", EngineContainer)
           \cup S!Sized("volumes", Volume) \cup S!Sized("buildcache", Record)

LEMMA ObjectsFinite ==
    ASSUME NEW U, U \subseteq Objects PROVE IsFiniteSet(U) /\ Cardinality(U) \in Nat
<1>1. IsFiniteSet(Objects)
    BY FiniteStock, SizedFinite, FS_Union DEF Objects
<1> QED
    BY <1>1, FS_Subset, FS_CardinalityType

(* A reading lists objects of the engine. *)
LEMMA UnusedObjects ==
    ASSUME Stock, NEW lost PROVE S!Unused(lost) \subseteq Objects
BY DEF Stock, S!Unused, S!Sized, S!Live, Objects

(* Fewer images have fewer layers. *)
LEMMA FootprintGrows ==
    ASSUME NEW U, U \subseteq Image, NEW T, T \subseteq U
    PROVE  /\ S!Footprint(T) \in Nat /\ S!Footprint(U) \in Nat
           /\ S!Footprint(T) <= S!Footprint(U)
           /\ S!Footprint(U) = Cardinality(UNION {Layers[i] : i \in U})
           /\ IsFiniteSet(UNION {Layers[i] : i \in U})
<1> DEFINE A == UNION {Layers[i] : i \in T}
           B == UNION {Layers[i] : i \in U}
<1>1. IsFiniteSet(U) /\ \A i \in U : IsFiniteSet(Layers[i])
    BY FiniteStock, FS_Subset
<1>2. IsFiniteSet(B)
    <2>1. IsFiniteSet(Together(Layers, U))
        BY <1>1, TogetherFinite
    <2> QED
        BY <2>1 DEF Together
<1>3. A \in SUBSET B
    OBVIOUS
<1>4. S!Footprint(T) = Cardinality(A) /\ S!Footprint(U) = Cardinality(B)
    BY SameFiniteS DEF S!Footprint
<1> HIDE DEF A, B
<1>5. IsFiniteSet(A) /\ Cardinality(A) <= Cardinality(B)
    BY <1>2, <1>3, FS_Subset
<1>6. Cardinality(A) \in Nat /\ Cardinality(B) \in Nat
    BY <1>2, <1>5, FS_CardinalityType
<1>7. IsFiniteSet(B) /\ S!Footprint(U) = Cardinality(B)
    BY <1>2, <1>4
<1> QED
    BY <1>4, <1>5, <1>6, <1>7 DEF B

(* Deleting images frees at least what is unique to them. *)
LEMMA UniqueIsFreed ==
    ASSUME Stock, NEW T, T \subseteq Loose
    PROVE  S!UniqueSize(T) <= Gain /\ Gain \in Nat
<1> DEFINE A == UNION {Layers[i] : i \in images}
           B == UNION {Layers[i] : i \in images \ Loose}
           U == UNION {Alone(i) : i \in T}
<1>1. T \subseteq images /\ images \subseteq Image /\ images \ Loose \subseteq images
    BY DEF Stock, Loose
<1>2. S!UniqueSize(T) = Cardinality(U)
    BY <1>1, UniqueSizeIs
<1>3. /\ S!Footprint(images) = Cardinality(A) /\ S!Footprint(images \ Loose) = Cardinality(B)
      /\ S!Footprint(images) \in Nat /\ S!Footprint(images \ Loose) \in Nat
      /\ S!Footprint(images \ Loose) <= S!Footprint(images)
      /\ IsFiniteSet(A)
    BY <1>1, FootprintGrows
<1>4. U \in SUBSET (A \ B) /\ A \cap B = B
    BY <1>1 DEF Alone
<1> HIDE DEF A, B, U
<1>5. IsFiniteSet(A \ B) /\ Cardinality(A \ B) = Cardinality(A) - Cardinality(B)
    <2>0. IsFiniteSet(A)
        BY <1>3
    <2>1. IsFiniteSet(A \ B) /\ Cardinality(A \ B) = Cardinality(A) - Cardinality(A \cap B)
        BY ONLY <2>0, FS_Difference
    <2>2. A \cap B = B
        BY <1>4
    <2> QED
        BY <2>1, <2>2
<1>6. IsFiniteSet(U) /\ Cardinality(U) <= Cardinality(A \ B)
    BY <1>4, <1>5, FS_Subset
<1> QED
    BY <1>2, <1>3, <1>5, <1>6 DEF Gain

(* The rows of a reading. *)
LEMMA Rows ==
    ASSUME Stock, NEW lost, NEW row \in S!Reclaimables(S!Unused(lost))
    PROVE  /\ \A k \in S!Category : row[k] \in Nat
           /\ row["buildcache"] = Cache
<1> DEFINE unused == S!Unused(lost)
           free == {i \in images : ~S!Held(i)}
           of_(k) == S!Cardinality({o \in unused : o[1] = k})
           row_(n) == [k \in S!Category |-> CASE k = "images" -> n
                                            [] k = "volumes" /\ engine = "podman" -> 0
                                            [] OTHER -> of_(k)]
           inUse == {i \in images : S!Held(i)}
<1>1. \E n : n \in {0, S!UniqueSize(free), S!FullSize(free),
                    S!Footprint(images) - S!UniqueSize(inUse)} /\ row = row_(n)
    BY DEF S!Reclaimables
<1>2. images \subseteq Image /\ free \subseteq images /\ inUse \subseteq images
    BY DEF Stock
<1>3. S!UniqueSize(free) \in Nat /\ S!FullSize(free) \in Nat
    BY <1>2, UniqueSizeIs, FullSizeNat
<1>4. S!Footprint(images) - S!UniqueSize(inUse) \in Nat
    <2> DEFINE A == UNION {Layers[i] : i \in images}
               U == UNION {Alone(i) : i \in inUse}
    <2>1. S!UniqueSize(inUse) = Cardinality(U) /\ S!UniqueSize(inUse) \in Nat
        BY <1>2, UniqueSizeIs
    <2>2. S!Footprint(images) = Cardinality(A) /\ S!Footprint(images) \in Nat /\ IsFiniteSet(A)
        BY <1>2, FootprintGrows
    <2>3. U \in SUBSET A
        BY DEF Alone
    <2> HIDE DEF A, U, inUse
    <2>4. Cardinality(U) <= Cardinality(A)
        BY <2>2, <2>3, FS_Subset
    <2> QED
        BY <2>1, <2>2, <2>4
<1>5. \A k : of_(k) = Cardinality({o \in unused : o[1] = k}) /\ of_(k) \in Nat
    <2>1. \A k : {o \in unused : o[1] = k} \subseteq Objects
        BY UnusedObjects
    <2> QED
        BY <2>1, ObjectsFinite, SameFiniteS
<1>6. {o \in unused : o[1] = "buildcache"} = S!Sized("buildcache", records.all \ records.used)
    BY DEF S!Unused, S!Sized
<1> HIDE DEF free, inUse, unused, of_
<1>7. PICK n \in Nat : row = row_(n)
    BY <1>1, <1>3, <1>4
<1>8. \A k \in S!Category : row[k] \in Nat
    BY <1>5, <1>7
<1>9. row["buildcache"] = of_("buildcache")
    BY <1>7 DEF S!Category
<1> QED
    BY <1>5, <1>6, <1>8, <1>9 DEF Cache
LEMMA CacheNat == ASSUME Stock PROVE Cache \in Nat
<1>1. S!Sized("buildcache", records.all \ records.used) \subseteq Objects
    BY DEF Stock, S!Sized, Objects
<1> QED
    BY <1>1, ObjectsFinite DEF Cache

(* What a safe prune is said to reclaim. *)
LEMMA SafeRow ==
    ASSUME Stock, NEW lost, NEW row \in S!Reclaimables(S!Unused(lost))
    PROVE  /\ S!SafeReclaim(S!Unused(lost), row) \in Nat
           /\ S!SafeReclaim(S!Unused(lost), row) <= Gain + Cache
           /\ S!SafeReclaim(S!Unused(lost), row) <= row["images"] + row["buildcache"]
<1> DEFINE loose == {i \in images \cap dangling : <<"images", i>> \in S!Unused(lost)}
           n == row["images"]
           b == row["buildcache"]
           size == S!UniqueSize(loose)
<1>1. loose \subseteq Loose /\ loose \subseteq images /\ images \subseteq Image
    BY DEF Loose, S!Unused, S!Sized, Stock
<1>2. size \in Nat
    BY <1>1, UniqueSizeIs
<1>3. size <= Gain /\ Gain \in Nat
    BY <1>1, UniqueIsFreed
<1>4. n \in Nat /\ b \in Nat /\ b = Cache
    BY Rows DEF S!Category
<1>5. S!SafeReclaim(S!Unused(lost), row) = b + IF size > n THEN n ELSE size
    BY DEF S!SafeReclaim
<1> HIDE DEF size, n, b
<1>6. /\ b + (IF size > n THEN n ELSE size) \in Nat
      /\ b + (IF size > n THEN n ELSE size) <= Gain + b
      /\ b + (IF size > n THEN n ELSE size) <= n + b
    BY <1>2, <1>3, <1>4
<1> QED
    BY <1>4, <1>5, <1>6 DEF n, b

(* A modal promises no more than there is to gain. *)
LEMMA ModalEstimates ==
    ASSUME Stock, NEW o, S!Confirm(o), pc' = "modal"
    PROVE  /\ modal'.safe \in Nat /\ modal'.all \in Nat /\ modal'.safe <= modal'.all
           /\ o.key # "__safe__" => modal'.safe = 0
           /\ modal'.safe <= Gain + Cache
<1> DEFINE Made(lost, row) ==
        /\ row \in S!Reclaimables(S!Unused(lost))
        /\ modal'.safe = IF o.key = "__safe__" THEN S!SafeReclaim(S!Unused(lost), row) ELSE 0
        /\ modal'.all = row["images"] + row["containers"] + row["volumes"] + row["buildcache"]
<1>0. \E lost, row : Made(lost, row)
    BY SMTT(30) DEF S!Confirm
<1>1. PICK lost, row : Made(lost, row)
    BY <1>0
<1> DEFINE safe == S!SafeReclaim(S!Unused(lost), row)
<1>2. safe \in Nat /\ safe <= Gain + Cache /\ safe <= row["images"] + row["buildcache"]
    BY <1>1, SafeRow
<1>3. row["images"] \in Nat /\ row["containers"] \in Nat /\ row["volumes"] \in Nat /\ row["buildcache"] \in Nat
    BY <1>1, Rows DEF S!Category
<1>4. Gain + Cache \in Nat
    <2>1. Gain \in Nat
        BY UniqueIsFreed
    <2> QED
        BY <2>1, CacheNat
<1> HIDE DEF safe
<1>5. CASE o.key = "__safe__"
    BY <1>1, <1>2, <1>3, <1>5 DEF safe
<1>6. CASE o.key # "__safe__"
    BY <1>1, <1>3, <1>4, <1>6
<1> QED
    BY <1>5, <1>6

(* What a call frees. *)
LEMMA CallFrees ==
    ASSUME Stock, DiskTypes, freed \in Nat, NEW gone, gone \subseteq Objects, S!Delete(gone), engine' = engine
    PROVE  /\ Stock'
           /\ freed' \in Nat /\ freed <= freed'
           /\ gone = S!Sized("images", Loose) => freed' = freed + Gain /\ Cache' = Cache
           /\ gone = S!Sized("buildcache", records.all \ records.used) => freed' = freed + Cache
<1> DEFINE left == {i \in images : <<"images", i>> \notin gone}
           others == {o \in gone : o[1] # "images"}
           m == S!Footprint(images) - S!Footprint(left)
           n == Cardinality(others)
<1>1. images' = left /\ left \subseteq images /\ images \subseteq Image
    BY DEF S!Delete, Stock
<1>2. volumes' \subseteq volumes /\ records'.all \subseteq records.all /\ records'.used = records.used
      /\ records'.all = {b \in records.all : <<"buildcache", b>> \notin gone}
    BY DEF DiskTypes, S!Delete
<1>3. Stock'
    BY <1>1, <1>2 DEF Stock
<1>4. freed' = freed + m + n
    BY SameFiniteS DEF S!Delete
<1>5. m \in Nat
    <2>1. S!Footprint(left) \in Nat /\ S!Footprint(images) \in Nat /\ S!Footprint(left) <= S!Footprint(images)
        BY <1>1, FootprintGrows
    <2> QED
        BY <2>1
<1>6. n \in Nat
    BY ObjectsFinite
<1>7. ASSUME gone = S!Sized("images", Loose) PROVE m = Gain /\ n = 0 /\ Cache' = Cache
    <2>1. left = images \ Loose
        BY <1>7 DEF S!Sized
    <2>2. others = {}
        BY <1>7 DEF S!Sized
    <2>3. records'.all = records.all
        BY <1>2, <1>7 DEF S!Sized
    <2> QED
        BY <1>2, <2>1, <2>2, <2>3, FS_EmptySet DEF Gain, Cache, S!Sized
<1>8. ASSUME gone = S!Sized("buildcache", records.all \ records.used) PROVE m = 0 /\ n = Cache
    <2>1. left = images
        BY <1>8 DEF S!Sized
    <2>2. others = gone
        BY <1>8 DEF S!Sized
    <2>3. S!Footprint(images) \in Nat
        BY <1>1, FootprintGrows
    <2>4. m = 0
        <3> HIDE DEF left
        <3>1. S!Footprint(left) = S!Footprint(images)
            BY <2>1
        <3> QED
            BY <2>3, <3>1
    <2>5. n = Cache
        BY <1>8, <2>2 DEF Cache
    <2> QED
        BY <2>4, <2>5
<1>9. Gain \in Nat /\ Cache \in Nat
    BY CacheNat, UniqueIsFreed
<1> HIDE DEF m, n
<1>10. freed' \in Nat /\ freed <= freed'
    BY <1>4, <1>5, <1>6
<1>11. gone = S!Sized("images", Loose) => freed' = freed + Gain /\ Cache' = Cache
    BY <1>4, <1>7, <1>9
<1>12. gone = S!Sized("buildcache", records.all \ records.used) => freed' = freed + Cache
    BY <1>4, <1>8, <1>9
<1> QED
    BY <1>3, <1>10, <1>11, <1>12

(* A call deletes objects of the engine. *)
LEMMA PrunableObjects ==
    ASSUME Stock, NEW call
    PROVE  S!Prunable(call) \subseteq Objects
BY DEF Stock, S!Prunable, S!Sized, S!Live, Objects

LEMMA EstimateInit == S!Init => EstimateInv
<1> SUFFICES ASSUME S!Init PROVE EstimateInv
    OBVIOUS
<1>1. DiskTypes /\ Queue
    BY DiskInit DEF DiskInv
<1>2. Stock
    BY DEF S!Init, Stock
<1>3. Promised
    BY DEF S!Init, S!NoModal, Promised
<1>4. Due
    BY DEF S!Init, Due
<1> QED
    BY <1>1, <1>2, <1>3, <1>4 DEF EstimateInv
(* A call frees what it was counted on for. *)
LEMMA EstimateCall ==
    ASSUME EstimateInv, S!Call PROVE Stock' /\ Promised' /\ Due'
<1>1. /\ UNCHANGED <<engine, pc, op, modal, dangling, calm>> /\ pc = "act" /\ calls # <<>>
      /\ calls' = Tail(calls)
    BY DEF S!Call, S!engineVars
<1>2. /\ Stock /\ DiskTypes /\ Queue /\ Promised /\ Due
      /\ modal.safe \in Nat /\ modal.all \in Nat /\ freed \in Nat /\ Gain \in Nat /\ Cache \in Nat
    BY CacheNat, UniqueIsFreed DEF EstimateInv, Promised
<1>3. op.key = "__safe__" =>
        \/ /\ calls = <<"dangling", "buildcache">> /\ calls' = <<"buildcache">> /\ Head(calls) = "dangling"
        \/ calls = <<"dangling">> /\ calls' = <<>> /\ Head(calls) = "dangling" /\ engine = "podman"
        \/ calls = <<"buildcache">> /\ calls' = <<>> /\ Head(calls) = "buildcache"
    <2>1. /\ Tail(<<"dangling", "buildcache">>) = <<"buildcache">> /\ Head(<<"dangling", "buildcache">>) = "dangling"
          /\ Tail(<<"dangling">>) = <<>> /\ Tail(<<"buildcache">>) = <<>>
          /\ Head(<<"dangling">>) = "dangling" /\ Head(<<"buildcache">>) = "buildcache"
        BY Tails
    <2>2. op.key = "__safe__" => calls \in {<<"dangling", "buildcache">>, <<"dangling">>, <<"buildcache">>}
        BY <1>1, <1>2 DEF Queue, Promised, S!Category
    <2>3. op.key = "__safe__" /\ calls = <<"dangling">> => engine = "podman"
        BY <1>2 DEF Promised
    <2> QED
        BY <1>1, <2>1, <2>2, <2>3
<1>4. calls' # <<"dangling">> \/ op.key # "__safe__"
    BY <1>3
<1>5. ASSUME freed' \in Nat PROVE Promised'
    BY <1>1, <1>2, <1>4, <1>5 DEF Promised
<1>6. CASE broken' = TRUE /\ UNCHANGED <<images, ctr, volumes, records, freed>>
    <2>1. Stock'
        BY <1>1, <1>2, <1>6 DEF Stock
    <2>2. Due'
        BY <1>6 DEF Due
    <2> QED
        BY <1>2, <1>5, <1>6, <2>1, <2>2
<1>7. CASE S!Delete(S!Prunable(Head(calls))) /\ UNCHANGED broken
    <2> DEFINE gone == S!Prunable(Head(calls))
    <2>1. gone \subseteq Objects
        BY <1>2, PrunableObjects
    <2>2. /\ Stock' /\ freed' \in Nat /\ freed <= freed'
          /\ gone = S!Sized("images", Loose) => freed' = freed + Gain /\ Cache' = Cache
          /\ gone = S!Sized("buildcache", records.all \ records.used) => freed' = freed + Cache
        BY <1>1, <1>2, <1>7, <2>1, CallFrees
    <2>3. Head(calls) = "dangling" => gone = S!Sized("images", Loose)
        BY DEF S!Prunable, Loose
    <2>4. Head(calls) = "buildcache" => gone = S!Sized("buildcache", records.all \ records.used)
        BY DEF S!Prunable
    <2>5. engine = "podman" => Cache = 0
        <3>1. S!Sized("buildcache", {}) = {}
            BY DEF S!Sized
        <3>2. engine = "podman" => records.all \ records.used = {}
            BY <1>2 DEF Stock
        <3> QED
            BY <3>1, <3>2, FS_EmptySet DEF Cache
    <2> HIDE DEF gone
    <2>6. ASSUME calm, ~broken, op.key = "__safe__"
          PROVE  /\ calls' = <<"buildcache">> => modal.safe <= freed' + Cache'
                 /\ calls' = <<>> => modal.safe <= freed'
                 /\ calls' \in {<<>>, <<"buildcache">>}
        <3>1. CASE calls = <<"dangling", "buildcache">> /\ calls' = <<"buildcache">> /\ Head(calls) = "dangling"
            <4>1. modal.safe <= Gain + Cache
                BY <1>2, <2>6, <3>1 DEF Due
            <4>2. modal.safe <= freed' + Cache'
                BY <1>2, <2>2, <2>3, <3>1, <4>1
            <4> QED
                BY <3>1, <4>2
        <3>2. CASE calls = <<"dangling">> /\ calls' = <<>> /\ Head(calls) = "dangling" /\ engine = "podman"
            <4>1. modal.safe <= Gain + Cache
                BY <1>2, <2>6, <3>2 DEF Due
            <4>2. modal.safe <= freed'
                BY <1>2, <2>2, <2>3, <2>5, <3>2, <4>1
            <4> QED
                BY <3>2, <4>2
        <3>3. CASE calls = <<"buildcache">> /\ calls' = <<>> /\ Head(calls) = "buildcache"
            <4>1. modal.safe <= freed + Cache
                BY <1>2, <2>6, <3>3 DEF Due
            <4>2. modal.safe <= freed'
                BY <1>2, <2>2, <2>4, <3>3, <4>1
            <4> QED
                BY <3>3, <4>2
        <3> QED
            BY <1>3, <2>6, <3>1, <3>2, <3>3
    <2>7. Due'
        BY <1>1, <1>7, <2>6 DEF Due
    <2> QED
        BY <1>5, <2>2, <2>7
<1> QED
    BY <1>6, <1>7 DEF S!Call, S!engineVars

(* What the estimate rests on changes with the engine only. *)
LEMMA EstimateFrame ==
    ASSUME UNCHANGED <<images, dangling, ctr, volumes, records>>
    PROVE  Gain' = Gain /\ Cache' = Cache
<1>1. Loose' = Loose
    BY DEF Loose, S!Held, S!Live
<1>2. \A T : S!Footprint(T)' = S!Footprint(T)
    BY DEF S!Footprint
<1> QED
    BY <1>1, <1>2 DEF Gain, Cache

LEMMA EstimateNext == EstimateInv /\ DiskInv /\ [S!Next]_(S!vars) => EstimateInv'
<1> SUFFICES ASSUME EstimateInv, DiskInv, [S!Next]_(S!vars) PROVE EstimateInv'
    OBVIOUS
<1>0. (DiskTypes /\ Queue)'
    BY DiskNext DEF DiskInv
<1> SUFFICES Stock' /\ Promised' /\ Due'
    BY <1>0 DEF EstimateInv
<1>a. Stock /\ Promised /\ Due /\ DiskTypes /\ Queue
    BY DEF EstimateInv
<1>1. ASSUME NEW o \in S!Op, S!Confirm(o) PROVE Stock' /\ Promised' /\ Due'
    <2>1. UNCHANGED <<engine, images, dangling, ctr, volumes, records, calls, freed, calm, broken>>
          /\ pc = "idle" /\ op' = o /\ pc' \in {"modal", "refused"}
          /\ (pc' = "refused" => modal' = modal)
        BY <1>1 DEF S!Confirm, S!engineVars
    <2>2. calls = <<>> /\ modal.safe = 0
        BY <1>a, <2>1 DEF Queue, Promised
    <2>3. Stock' /\ Gain' = Gain /\ Cache' = Cache
        BY <1>a, <2>1, EstimateFrame DEF Stock
    <2>4. pc' = "modal" =>
            /\ modal'.safe \in Nat /\ modal'.all \in Nat /\ modal'.safe <= modal'.all
            /\ o.key # "__safe__" => modal'.safe = 0
            /\ modal'.safe <= Gain + Cache
        BY <1>1, <1>a, ModalEstimates
    <2>5. o.key = "__safe__" => o.act = "prune"
        BY DEF S!Op, S!Category
    <2>6. Promised'
        BY <1>a, <2>1, <2>2, <2>4, <2>5 DEF Promised
    <2>7. Due'
        BY <2>1, <2>2, <2>3, <2>4 DEF Due
    <2> QED
        BY <2>3, <2>6, <2>7
<1>2. CASE S!Proceed
    <2>1. UNCHANGED <<engine, images, dangling, ctr, volumes, records, op, modal, freed, calm, broken>>
          /\ pc = "modal" /\ calls' = Plan(op) /\ pc' = "act"
        BY <1>2 DEF S!Proceed, S!engineVars, Plan
    <2>2. Stock' /\ Gain' = Gain /\ Cache' = Cache
        BY <1>a, <2>1, EstimateFrame DEF Stock
    <2>3. op.key = "__safe__" =>
            /\ calls' \in {<<"dangling", "buildcache">>, <<"dangling">>}
            /\ calls' = <<"dangling">> => engine = "podman"
        <3>1. op.key = "__safe__" => op.act = "prune"
            BY <1>a DEF Promised
        <3>2. op.key = "__safe__" =>
                Plan(op) = IF engine = "docker" THEN <<"dangling", "buildcache">> ELSE <<"dangling">>
            BY <3>1 DEF Plan, S!Calls
        <3>3. <<"dangling", "buildcache">> # <<"dangling">>
            OBVIOUS
        <3>4. engine \in {"docker", "podman"}
            BY <1>a DEF Stock
        <3> QED
            BY <2>1, <3>2, <3>3, <3>4
    <2>4. Promised'
        BY <1>a, <2>1, <2>3 DEF Promised
    <2>5. Due'
        BY <1>a, <2>1, <2>2, <2>3 DEF Due
    <2> QED
        BY <2>2, <2>4, <2>5
<1>3. CASE S!Call
    BY <1>3, EstimateCall
<1>4. CASE S!Finish
    <2>1. UNCHANGED <<engine, images, dangling, ctr, volumes, records, op, modal, calls, freed, calm, broken>>
          /\ pc = "act" /\ calls = <<>> /\ pc' \in {"failed", "done"} /\ (pc' = "done" => ~broken)
        BY <1>4 DEF S!Finish, S!engineVars
    <2>2. Stock' /\ Promised'
        BY <1>a, <2>1 DEF Stock, Promised
    <2>3. Due'
        BY <1>a, <2>1 DEF Due
    <2> QED
        BY <2>2, <2>3
<1>5. CASE S!Event
    <2>1. UNCHANGED <<engine, images, volumes, records, pc, op, modal, calls, freed, broken>> /\ ~calm'
        BY <1>5 DEF S!Event
    <2> QED
        BY <1>a, <2>1 DEF Stock, Promised, Due
<1>6. CASE UNCHANGED S!vars
    <2>1. UNCHANGED <<engine, images, dangling, ctr, volumes, records, pc, op, modal, calls, freed, calm, broken>>
        BY <1>6 DEF S!vars, S!engineVars
    <2>2. Stock' /\ Promised'
        BY <1>a, <2>1 DEF Stock, Promised
    <2>3. Gain' = Gain /\ Cache' = Cache
        BY <2>1, EstimateFrame
    <2>4. Due'
        BY <1>a, <2>1, <2>3 DEF Due
    <2> QED
        BY <2>2, <2>4
<1> QED
    BY <1>1, <1>2, <1>3, <1>4, <1>5, <1>6 DEF S!Next

(* The estimate of a safe prune is not above what the modal for everything *)
(* says, and the prune frees at least that much on an unchanged engine.    *)
THEOREM SafeEstimate == Spec => []EstimateHonest
<1> DEFINE Inv == panel = "system" => DiskInv /\ EstimateInv
<1>1. Init => Inv
    BY DiskInit, EstimateInit DEF Init
<1>2. Inv /\ [Next]_vars => Inv'
    <2>1. [Next]_vars => UNCHANGED panel /\ (panel = "system" => [S!Next]_(S!vars))
        BY DEF Next, vars, S!vars, S!engineVars, systemOwn
    <2> QED
        BY <2>1, DiskNext, EstimateNext
<1>3. Inv => EstimateHonest
    <2>1. EstimateInv => modal.safe <= modal.all
        BY DEF EstimateInv, Promised
    <2>2. EstimateInv => (pc = "done" /\ calm => modal.safe <= freed)
        <3> SUFFICES ASSUME EstimateInv, pc = "done", calm PROVE modal.safe <= freed
            OBVIOUS
        <3>1. calls = <<>>
            BY DEF EstimateInv, Queue
        <3> QED
            BY <3>1 DEF EstimateInv, Due, Promised
    <2> QED
        BY <2>1, <2>2 DEF EstimateHonest, S!EstimateHonest
<1> QED
    BY <1>1, <1>2, <1>3, PTL DEF Spec

-----------------------------------------------------------------------------
(* Discovery: the sequences it makes of sets and of other sequences.       *)

(* The sieves of discovery are the usual ones. *)
LEMMA SameSieveD == \A s, A : D!Sieve(s, A) = Sieve(s, A)
<1> SUFFICES ASSUME NEW s, NEW A PROVE D!Sieve(s, A) = Sieve(s, A)
    OBVIOUS
<1> QED
    BY Zenon DEF D!Sieve, Sieve

LEMMA SievedD ==
    ASSUME NEW Val, NEW s, s \in Seq(Val), NEW A
    PROVE  /\ D!Sieved(s, A) \in Seq(Val)
           /\ \A i \in 1 .. Len(D!Sieved(s, A)) : D!Sieved(s, A)[i] \in A
           /\ \A j \in 1 .. Len(s) : s[j] \in A => \E i \in 1 .. Len(D!Sieved(s, A)) : D!Sieved(s, A)[i] = s[j]
<1>1. D!Sieved(s, A) = Sieved(s, A)
    BY SameSieveD DEF D!Sieved, Sieved
<1>2. Sieved(s, A) \in Seq(Val) /\ Has(Sieved(s, A), s, A, Len(s))
    BY SieveHas
<1>3. \A i \in 1 .. Len(Sieved(s, A)) : Sieved(s, A)[i] \in A
    BY <1>2 DEF Has
<1> QED
    BY <1>1, <1>2, <1>3 DEF Has

(* A finite set as a sequence has just its elements. *)
LEMMA SetAsSequence ==
    ASSUME NEW T, IsFiniteSet(T)
    PROVE  /\ D!SetToSeq(T) \in Seq(T)
           /\ \A x \in T : \E i \in 1 .. Len(D!SetToSeq(T)) : D!SetToSeq(T)[i] = x
<1> DEFINE n == Cardinality(T)
           f == D!SetToSeq(T)
<1>1. n \in Nat /\ ExistsBijection(1 .. n, T)
    BY FS_CardinalityType
<1>2. D!Cardinality(T) = n
    BY Zenon DEF D!Cardinality, Cardinality
<1>3. PICK g : g \in Bijection(1 .. n, T)
    BY <1>1 DEF ExistsBijection
<1>4. g \in [1 .. n -> T] /\ D!IsInjective(g)
    BY <1>3 DEF Bijection, Injection, IsInjective, D!IsInjective
<1>5. f = CHOOSE h \in [1 .. n -> T] : D!IsInjective(h)
    BY <1>2 DEF D!SetToSeq
<1> HIDE DEF f, n
<1>6. f \in [1 .. n -> T] /\ D!IsInjective(f)
    BY <1>4, <1>5
<1>7. f \in Injection(1 .. n, T)
    BY <1>6 DEF Injection, IsInjective, D!IsInjective
<1>8. IsFiniteSet(1 .. n) /\ Cardinality(1 .. n) = n
    BY <1>1, FS_Interval
<1>9. f \in Surjection(1 .. n, T)
    BY <1>7, <1>8, FS_Injection DEF n
<1>10. f \in Seq(T) /\ Len(f) = n
    BY <1>1, <1>6
<1> QED
    BY <1>9, <1>10 DEF Surjection, f

(* An element of a concatenation. *)
LEMMA InConcat ==
    ASSUME NEW Val, NEW s, s \in Seq(Val), NEW t, t \in Seq(Val)
    PROVE  /\ s \o t \in Seq(Val)
           /\ \A i \in 1 .. Len(s) : i \in 1 .. Len(s \o t) /\ (s \o t)[i] = s[i]
           /\ \A j \in 1 .. Len(t) : \E i \in 1 .. Len(s \o t) : (s \o t)[i] = t[j]
<1>1. /\ Len(s) \in Nat /\ Len(t) \in Nat /\ Len(s \o t) = Len(s) + Len(t) /\ s \o t \in Seq(Val)
      /\ \A i \in 1 .. Len(s) + Len(t) : (s \o t)[i] = IF i <= Len(s) THEN s[i] ELSE t[i - Len(s)]
    BY ConcatProperties, LenProperties
<1> DEFINE m == Len(s)
           n == Len(t)
           u == s \o t
<1> HIDE DEF m, n, u
<1>2. \A i \in 1 .. m : i \in 1 .. Len(u) /\ u[i] = s[i]
    BY <1>1 DEF m, n, u
<1>3. ASSUME NEW j \in 1 .. n PROVE \E i \in 1 .. Len(u) : u[i] = t[j]
    <2>1. m + j \in 1 .. Len(u) /\ m + j > m /\ (m + j) - m = j
        BY <1>1 DEF m, n, u
    <2>2. u[m + j] = t[j]
        BY <1>1, <2>1 DEF m, n, u
    <2> QED
        BY <2>1, <2>2
<1> QED
    BY <1>1, <1>2, <1>3 DEF m, n, u
-----------------------------------------------------------------------------
(* What a discovery finds. *)

DiscoveryTypes ==
    /\ ctrs \in Seq(Shapes)
    /\ dirs \subseteq UNION {D!ConfigDirs(d) : d \in HostDirs}
    /\ \A s \in sources : s.by \in {"host", "docker"} /\ s.id[1] \in {"host", "vol"}

LEMMA DiscoveryConstants ==
    /\ ExtraPaths \in Seq(HostDirs) /\ Home \in HostDirs /\ Cwd \in HostDirs
    /\ IsFiniteSet(HostDirs)
    /\ \A c \in Shapes : c.mount.type = "bind" => D!Parent(c.mount.at) # D!None
    /\ \A c \in Shapes : c.labels \subseteq {D!Labels[1], D!Labels[2], D!Labels[3]}
<1>1. IsFiniteSet(HostDirs)
    <2>1. D!IsFiniteSet(HostDirs)
        BY Constants DEF D!Assumptions
    <2> QED
        BY <2>1, Zenon DEF D!IsFiniteSet, IsFiniteSet
<1>2. D!ToSet(D!Labels) = {D!Labels[1], D!Labels[2], D!Labels[3]}
    BY DEF D!ToSet, D!Labels
<1> QED
    BY <1>1, <1>2, Constants DEF D!Assumptions, D!Parent, D!None

(* Every container with one of the labels is listed. *)
LEMMA ManagedListed ==
    ASSUME DiscoveryTypes, NEW lost
    PROVE  /\ D!ListManaged(lost) \in Seq(Shapes)
           /\ \A i \in DOMAIN ctrs : ctrs[i].labels \ lost # {} =>
                \E j \in 1 .. Len(D!ListManaged(lost)) : D!ListManaged(lost)[j] = ctrs[i]
<1> DEFINE a == D!Sieved(ctrs, D!Listed(1, lost))
           b == D!Sieved(ctrs, D!Listed(2, lost))
           c == D!Sieved(ctrs, D!Listed(3, lost))
<1>1. ctrs \in Seq(Shapes) /\ DOMAIN ctrs = 1 .. Len(ctrs) /\ \A i \in 1 .. Len(ctrs) : ctrs[i] \in Shapes
    BY LenProperties DEF DiscoveryTypes
<1>2. /\ a \in Seq(Shapes)
      /\ \A j \in 1 .. Len(ctrs) : ctrs[j] \in D!Listed(1, lost) => \E i \in 1 .. Len(a) : a[i] = ctrs[j]
    BY <1>1, SievedD
<1>3. /\ b \in Seq(Shapes)
      /\ \A j \in 1 .. Len(ctrs) : ctrs[j] \in D!Listed(2, lost) => \E i \in 1 .. Len(b) : b[i] = ctrs[j]
    BY <1>1, SievedD
<1>4. /\ c \in Seq(Shapes)
      /\ \A j \in 1 .. Len(ctrs) : ctrs[j] \in D!Listed(3, lost) => \E i \in 1 .. Len(c) : c[i] = ctrs[j]
    BY <1>1, SievedD
<1>5. \A x \in Shapes : x.labels \ lost # {} =>
            x \in D!Listed(1, lost) \/ x \in D!Listed(2, lost) \/ x \in D!Listed(3, lost)
    <2> SUFFICES ASSUME NEW x \in Shapes, x.labels \ lost # {}
                 PROVE  x \in D!Listed(1, lost) \/ x \in D!Listed(2, lost) \/ x \in D!Listed(3, lost)
        OBVIOUS
    <2>1. \/ D!Labels[1] \in x.labels \ lost \/ D!Labels[2] \in x.labels \ lost
          \/ D!Labels[3] \in x.labels \ lost
        BY DiscoveryConstants
    <2>2. 1 .. 1 - 1 = {} /\ 1 .. 2 - 1 = {1} /\ 1 .. 3 - 1 = {1, 2}
        OBVIOUS
    <2> QED
        BY <2>1, <2>2 DEF D!Listed
<1>6. D!ListManaged(lost) = (a \o b) \o c
    BY DEF D!ListManaged
<1> HIDE DEF a, b, c
<1>7. /\ a \o b \in Seq(Shapes)
      /\ \A i \in 1 .. Len(a) : i \in 1 .. Len(a \o b) /\ (a \o b)[i] = a[i]
      /\ \A j \in 1 .. Len(b) : \E i \in 1 .. Len(a \o b) : (a \o b)[i] = b[j]
    BY <1>2, <1>3, InConcat
<1> DEFINE ab == a \o b
           abc == ab \o c
<1> HIDE DEF ab, abc
<1>8. /\ abc \in Seq(Shapes)
      /\ \A i \in 1 .. Len(ab) : i \in 1 .. Len(abc) /\ abc[i] = ab[i]
      /\ \A j \in 1 .. Len(c) : \E i \in 1 .. Len(abc) : abc[i] = c[j]
    <2>1. ab \in Seq(Shapes)
        BY <1>7 DEF ab
    <2> QED
        BY <1>4, <2>1, InConcat DEF abc
<1>9. ASSUME NEW x \in Shapes, \/ \E i \in 1 .. Len(a) : a[i] = x
                               \/ \E i \in 1 .. Len(b) : b[i] = x
                               \/ \E i \in 1 .. Len(c) : c[i] = x
      PROVE  \E i \in 1 .. Len(abc) : abc[i] = x
    <2>1. (\E i \in 1 .. Len(ab) : ab[i] = x) \/ (\E i \in 1 .. Len(c) : c[i] = x)
        BY <1>7, <1>9 DEF ab
    <2> QED
        BY <1>8, <2>1
<1>10. D!ListManaged(lost) = abc
    BY <1>6 DEF ab, abc
<1> QED
    BY <1>1, <1>2, <1>3, <1>4, <1>5, <1>8, <1>9, <1>10

(* A sequence over a set is one over a larger set. *)
LEMMA Widen ==
    ASSUME NEW A, NEW B, A \subseteq B, NEW s, s \in Seq(A)
    PROVE  s \in Seq(B)
<1>1. Len(s) \in Nat /\ s \in [1 .. Len(s) -> A]
    BY LenProperties
<1> DEFINE n == Len(s)
<1> HIDE DEF n
<1>2. n \in Nat /\ s \in [1 .. n -> B]
    BY <1>1 DEF n
<1> QED
    BY <1>2

(* The roots it looks at. *)
Looked(roots, lost) ==
    \A i \in DOMAIN ctrs :
        D!ProjectRoot(ctrs[i], lost) # D!None /\ ctrs[i].labels \ lost # {} =>
            \A root \in D!Around(D!ProjectRoot(ctrs[i], lost)) : \E j \in 1 .. Len(roots) : roots[j] = root

(* The project of every container listed is among the roots. *)
LEMMA ProjectsFound ==
    ASSUME DiscoveryTypes, NEW lost
    PROVE  /\ D!projectRoots(lost) \in Seq({D!ProjectRoot(c, lost) : c \in Shapes})
           /\ \A i \in DOMAIN ctrs : D!ProjectRoot(ctrs[i], lost) # D!None /\ ctrs[i].labels \ lost # {} =>
                \E j \in 1 .. Len(D!projectRoots(lost)) : D!projectRoots(lost)[j] = D!ProjectRoot(ctrs[i], lost)
<1> DEFINE all == D!ListManaged(lost)
           A == {c \in Shapes : D!ProjectRoot(c, lost) # D!None}
           s == D!Sieved(all, A)
           t == D!projectRoots(lost)
<1>1. /\ all \in Seq(Shapes)
      /\ \A i \in DOMAIN ctrs : ctrs[i].labels \ lost # {} => \E j \in 1 .. Len(all) : all[j] = ctrs[i]
    BY ManagedListed
<1>2. t = [i \in DOMAIN s |-> D!ProjectRoot(s[i], lost)]
    BY DEF D!projectRoots
<1> HIDE DEF all, A
<1>3. /\ s \in Seq(Shapes)
      /\ \A j \in 1 .. Len(all) : all[j] \in A => \E i \in 1 .. Len(s) : s[i] = all[j]
    BY <1>1, SievedD
<1>4. \A i \in DOMAIN ctrs : ctrs[i] \in Shapes
    BY LenProperties DEF DiscoveryTypes
<1> HIDE DEF s, t
<1>5. Len(s) \in Nat /\ DOMAIN s = 1 .. Len(s) /\ \A i \in 1 .. Len(s) : s[i] \in Shapes
    BY <1>3, LenProperties
<1>6. t \in Seq({D!ProjectRoot(c, lost) : c \in Shapes}) /\ Len(t) = Len(s)
      /\ \A i \in 1 .. Len(s) : t[i] = D!ProjectRoot(s[i], lost)
    <2> DEFINE n == Len(s)
               Projects == {D!ProjectRoot(c, lost) : c \in Shapes}
    <2>1. \A i \in 1 .. n : D!ProjectRoot(s[i], lost) \in Projects
        BY <1>5
    <2> HIDE DEF n, Projects
    <2>2. t \in [1 .. n -> Projects] /\ n \in Nat /\ \A i \in 1 .. n : t[i] = D!ProjectRoot(s[i], lost)
        BY <1>2, <1>5, <2>1 DEF n
    <2>3. t \in Seq(Projects) /\ Len(t) = n
        BY <2>2
    <2> QED
        BY <2>2, <2>3 DEF n, Projects
<1> QED
    BY <1>1, <1>3, <1>4, <1>6, SMTT(30) DEF t, A

(* The projects and their neighbours are among the roots. *)
LEMMA RootsFound ==
    ASSUME DiscoveryTypes, NEW lost
    PROVE  /\ DOMAIN D!Roots(lost) = 1 .. Len(D!Roots(lost)) /\ Len(D!Roots(lost)) \in Nat
           /\ 1 \in DOMAIN D!Roots(lost) /\ D!Roots(lost)[1] = Home
           /\ Looked(D!Roots(lost), lost)
<1> DEFINE Projects == {D!ProjectRoot(c, lost) : c \in Shapes}
           Val == HostDirs \cup Projects
           near == {d \in HostDirs : D!Parent(d) \in
                        {D!Parent(r) : r \in D!ToSet(D!projectRoots(lost))} \ {D!None}}
           a == <<Home, Cwd>>
           b == a \o ExtraPaths
           p == D!projectRoots(lost)
           c == b \o p
           s == D!siblings(lost)
           roots == c \o s
<1>1. a \in Seq(Val) /\ Len(a) = 2 /\ a[1] = Home
    BY DiscoveryConstants
<1>2. ExtraPaths \in Seq(Val)
    BY DiscoveryConstants, Widen
<1>3. p \in Seq(Val)
    BY ProjectsFound, Widen
<1>4. s = D!SetToSeq(near)
    BY DEF D!siblings
<1>5. IsFiniteSet(near) /\ near \subseteq Val
    BY DiscoveryConstants, FS_Subset
<1> HIDE DEF near
<1>6. s \in Seq(near) /\ \A x \in near : \E i \in 1 .. Len(s) : s[i] = x
    BY <1>4, <1>5, SetAsSequence
<1>7. s \in Seq(Val)
    BY <1>5, <1>6, Widen
<1> HIDE DEF Val, Projects, a, p, s
<1>8. b \in Seq(Val) /\ \A i \in 1 .. Len(a) : i \in 1 .. Len(b) /\ b[i] = a[i]
    BY ONLY <1>1, <1>2, InConcat DEF b
<1> HIDE DEF b
<1>9. /\ c \in Seq(Val) /\ \A i \in 1 .. Len(b) : i \in 1 .. Len(c) /\ c[i] = b[i]
      /\ \A j \in 1 .. Len(p) : \E i \in 1 .. Len(c) : c[i] = p[j]
    BY <1>3, <1>8, InConcat
<1> HIDE DEF c
<1>10. /\ roots \in Seq(Val) /\ \A i \in 1 .. Len(c) : i \in 1 .. Len(roots) /\ roots[i] = c[i]
       /\ \A j \in 1 .. Len(s) : \E i \in 1 .. Len(roots) : roots[i] = s[j]
    BY <1>7, <1>9, InConcat
<1>11. D!Roots(lost) = roots
    BY DEF D!Roots, a, b, c, p, s
<1> HIDE DEF roots
<1>12. 1 \in 1 .. Len(roots) /\ roots[1] = Home
    <2>1. 1 \in 1 .. Len(a)
        BY <1>1
    <2> QED
        BY <1>1, <1>8, <1>9, <1>10, <2>1
<1>13. ASSUME NEW i \in DOMAIN ctrs, D!ProjectRoot(ctrs[i], lost) # D!None, ctrs[i].labels \ lost # {},
              NEW root \in D!Around(D!ProjectRoot(ctrs[i], lost))
       PROVE  \E j \in 1 .. Len(roots) : roots[j] = root
    <2> DEFINE project == D!ProjectRoot(ctrs[i], lost)
    <2>1. PICK j \in 1 .. Len(p) : p[j] = project
        BY <1>13, ProjectsFound DEF p
    <2>2. CASE root = project
        <3>1. \E k \in 1 .. Len(c) : c[k] = root
            BY <1>9, <2>1, <2>2
        <3> QED
            BY <1>10, <3>1
    <2>3. CASE root \in HostDirs /\ D!Parent(root) = D!Parent(project) /\ D!Parent(root) # D!None
        <3>1. project \in D!ToSet(p)
            <4>1. DOMAIN p = 1 .. Len(p)
                BY <1>3, LenProperties
            <4> QED
                BY <2>1, <4>1 DEF D!ToSet
        <3>2. root \in near
            BY <2>3, <3>1 DEF near, p
        <3> QED
            BY <1>6, <1>10, <3>2
    <2> QED
        BY <1>13, <2>2, <2>3 DEF D!Around
<1>14. Looked(roots, lost)
    BY <1>13 DEF Looked
<1>15. DOMAIN roots = 1 .. Len(roots) /\ Len(roots) \in Nat
    BY <1>10, LenProperties
<1> QED
    BY <1>11, <1>12, <1>14, <1>15
(* A directory is added for the first root that leads to it, and once. *)
LEMMA HostsOnce ==
    ASSUME NEW roots, DOMAIN roots = 1 .. Len(roots), Len(roots) \in Nat
    PROVE  /\ \A s \in D!hostSources(roots) : s.by = "host" /\ s.id[1] = "host"
           /\ \A s, t \in D!hostSources(roots) : s.id = t.id => s = t
           /\ \A p \in D!Under(roots) : \E s \in D!hostSources(roots) : s.id = <<"host", p[2]>>
           /\ \A d \in D!ConfigDirs(roots[1]) \cap dirs : 1 \in DOMAIN roots =>
                [id |-> <<"host", d>>, by |-> "host", scope |-> D!Global] \in D!hostSources(roots)
<1> DEFINE Pairs == D!Under(roots)
           firsts == {q \in Pairs : \A o \in Pairs : o[2] = q[2] => q[1] <= o[1]}
<1>1. D!hostSources(roots) = {D!hostSource(roots, p) : p \in firsts}
    BY DEF D!hostSources
<1>2. \A p \in Pairs : p[1] \in Nat /\ p[1] >= 1 /\ p[1] \in DOMAIN roots /\ p = <<p[1], p[2]>>
    BY DEF D!Under
<1>3. \A p : /\ D!hostSource(roots, p).id = <<"host", p[2]>> /\ D!hostSource(roots, p).by = "host"
             /\ p[1] = 1 => D!hostSource(roots, p) = [id |-> <<"host", p[2]>>, by |-> "host", scope |-> D!Global]
    BY DEF D!hostSource
<1>4. \A x, y : <<"host", x>> = <<"host", y>> => x = y
    OBVIOUS
<1>5. \A x : <<"host", x>>[1] = "host"
    OBVIOUS
<1>6. ASSUME NEW p \in firsts, NEW q \in firsts, p[2] = q[2] PROVE p = q
    <2>1. p[1] <= q[1] /\ q[1] <= p[1]
        BY <1>6
    <2> QED
        BY <1>2, <1>6, <2>1
<1>7. ASSUME NEW p \in Pairs PROVE \E q \in firsts : q[2] = p[2]
    <2> DEFINE T == {o[1] : o \in {x \in Pairs : x[2] = p[2]}}
    <2>1. T \in SUBSET Nat /\ T # {}
        <3> HIDE DEF Pairs
        <3> QED
            BY <1>2
    <2> HIDE DEF T
    <2>2. PICK n \in T : \A m \in T : n <= m
        BY <2>1, NatLeast
    <2> USE DEF T
    <2>3. PICK q \in Pairs : q[2] = p[2] /\ q[1] = n
        <3> HIDE DEF Pairs
        <3> QED
            BY <2>2
    <2> HIDE DEF Pairs
    <2>4. \A o \in Pairs : o[2] = q[2] => q[1] <= o[1]
        BY <2>2, <2>3
    <2> QED
        BY <2>3, <2>4
<1>8. ASSUME NEW d \in D!ConfigDirs(roots[1]) \cap dirs, 1 \in DOMAIN roots
      PROVE  \E q \in firsts : q[2] = d /\ q[1] = 1
    <2> DEFINE q == <<1, d>>
    <2>1. q \in Pairs /\ q[1] = 1 /\ q[2] = d
        BY <1>8 DEF D!Under
    <2> HIDE DEF Pairs, q
    <2>2. \A o \in Pairs : q[1] <= o[1]
        BY <1>2, <2>1
    <2> QED
        BY <2>1, <2>2
<1> HIDE DEF Pairs, firsts
<1>9. \A s \in D!hostSources(roots) : s.by = "host" /\ s.id[1] = "host"
    BY <1>1, <1>3, <1>5
<1>10. \A s, t \in D!hostSources(roots) : s.id = t.id => s = t
    <2> SUFFICES ASSUME NEW s \in D!hostSources(roots), NEW t \in D!hostSources(roots), s.id = t.id
                 PROVE  s = t
        OBVIOUS
    <2>1. PICK p \in firsts : s = D!hostSource(roots, p)
        BY <1>1
    <2>2. PICK q \in firsts : t = D!hostSource(roots, q)
        BY <1>1
    <2>3. p[2] = q[2]
        BY <1>3, <1>4, <2>1, <2>2
    <2> QED
        BY <1>6, <2>1, <2>2, <2>3
<1>11. \A p \in Pairs : \E s \in D!hostSources(roots) : s.id = <<"host", p[2]>>
    BY <1>1, <1>3, <1>7
<1>12. \A d \in D!ConfigDirs(roots[1]) \cap dirs : 1 \in DOMAIN roots =>
                [id |-> <<"host", d>>, by |-> "host", scope |-> D!Global] \in D!hostSources(roots)
    <2> SUFFICES ASSUME NEW d \in D!ConfigDirs(roots[1]) \cap dirs, 1 \in DOMAIN roots
                 PROVE  [id |-> <<"host", d>>, by |-> "host", scope |-> D!Global] \in D!hostSources(roots)
        OBVIOUS
    <2>1. PICK q \in firsts : q[2] = d /\ q[1] = 1
        BY <1>8
    <2>2. D!hostSource(roots, q) = [id |-> <<"host", d>>, by |-> "host", scope |-> D!Global]
        BY <1>3, <2>1
    <2> QED
        BY <1>1, <2>2
<1> QED
    BY <1>9, <1>10, <1>11, <1>12 DEF Pairs

(* A source of Docker is listed once. *)
LEMMA DockerOnce ==
    ASSUME DiscoveryTypes, NEW lost
    PROVE  /\ \A s \in D!Firsts(D!dockerSources(lost)) : s.by = "docker" /\ s.id[1] \in {"host", "vol"}
           /\ \A s, t \in D!Firsts(D!dockerSources(lost)) : s.id = t.id => s = t
<1> DEFINE mounted == D!Sieved(D!ListManaged(lost), {c \in Shapes : D!ConfigMount(c).type # "none"})
           found_ == D!dockerSources(lost)
<1>1. mounted \in Seq(Shapes)
    BY ManagedListed, SievedD
<1>2. found_ = [i \in DOMAIN mounted |-> D!dockerSource(mounted[i], lost)]
    BY DEF D!dockerSources
<1> HIDE DEF mounted, found_
<1>3. DOMAIN found_ = 1 .. Len(mounted) /\ Len(mounted) \in Nat
    BY <1>1, <1>2, LenProperties
<1>4. \A i \in DOMAIN found_ : found_[i].by = "docker" /\ found_[i].id[1] \in {"host", "vol"}
    BY <1>2 DEF D!dockerSource
<1> DEFINE firsts == {j \in DOMAIN found_ : \A k \in 1 .. j - 1 : found_[k].id # found_[j].id}
<1>5. D!Firsts(found_) = {found_[i] : i \in firsts}
    BY DEF D!Firsts
<1>6. ASSUME NEW i \in firsts, NEW j \in firsts, found_[i].id = found_[j].id PROVE i = j
    <2>1. i \in Nat /\ j \in Nat /\ i >= 1 /\ j >= 1
        BY <1>3
    <2>2. i < j => i \in 1 .. j - 1
        BY <2>1
    <2>3. j < i => j \in 1 .. i - 1
        BY <2>1
    <2>4. ~(i < j) /\ ~(j < i)
        BY <1>6, <2>2, <2>3
    <2> QED
        BY <2>1, <2>4
<1> HIDE DEF firsts
<1>7. \A s, t \in D!Firsts(found_) : s.id = t.id => s = t
    BY <1>5, <1>6
<1>8. \A s \in D!Firsts(found_) : s.by = "docker" /\ s.id[1] \in {"host", "vol"}
    BY <1>4, <1>5 DEF firsts
<1> QED
    BY <1>7, <1>8 DEF found_

DiscoveryInv == DiscoveryTypes /\ D!SourcesUnique

LEMMA DiscoveryInit == D!Init => DiscoveryInv
<1> SUFFICES ASSUME D!Init PROVE DiscoveryInv
    OBVIOUS
<1>1. DiscoveryTypes
    BY EmptySeq DEF D!Init, DiscoveryTypes
<1>2. D!SourcesUnique
    BY DEF D!Init, D!SourcesUnique
<1> QED
    BY <1>1, <1>2 DEF DiscoveryInv

(* What is found by a discovery, and by one that reads everything. *)
FoundAll(list_, lost) ==
    /\ \A s \in list_ : s.by \in {"host", "docker"} /\ s.id[1] \in {"host", "vol"}
    /\ \A s, t \in list_ : (s.id = t.id /\ s # t) => s.by # t.by /\ s.id[1] = "host"
    /\ \A d \in D!ConfigDirs(Home) \cap dirs :
        \E s \in list_ : s = [id |-> <<"host", d>>, by |-> "host", scope |-> D!Global]
    /\ lost = {} => \A i \in DOMAIN ctrs : D!Bound(ctrs[i]) =>
        \A root \in D!Around(D!Parent(ctrs[i].mount.at)) :
            \A d \in D!ConfigDirs(root) \cap dirs : \E s \in list_ : s.id = <<"host", d>>

(* A complete discovery has found what the property names. *)
LEMMA AllFound ==
    ASSUME DiscoveryTypes, NEW lost
    PROVE  FoundAll(D!discovered(lost), lost)
<1> DEFINE roots == D!Roots(lost)
           hosts == D!hostSources(roots)
           mounts == D!Firsts(D!dockerSources(lost))
           found_ == D!discovered(lost)
<1>1. /\ DOMAIN roots = 1 .. Len(roots) /\ Len(roots) \in Nat
      /\ 1 \in DOMAIN roots /\ roots[1] = Home /\ Looked(roots, lost)
    BY RootsFound
<1> HIDE DEF roots
<1>2. /\ \A s \in hosts : s.by = "host" /\ s.id[1] = "host"
      /\ \A s, t \in hosts : s.id = t.id => s = t
      /\ \A p \in D!Under(roots) : \E s \in hosts : s.id = <<"host", p[2]>>
      /\ \A d \in D!ConfigDirs(roots[1]) \cap dirs : 1 \in DOMAIN roots =>
                [id |-> <<"host", d>>, by |-> "host", scope |-> D!Global] \in hosts
    BY <1>1, HostsOnce
<1>3. /\ \A s \in mounts : s.by = "docker" /\ s.id[1] \in {"host", "vol"}
      /\ \A s, t \in mounts : s.id = t.id => s = t
    BY DockerOnce
<1>4. found_ = hosts \cup mounts
    BY DEF roots, D!discovered
<1> HIDE DEF hosts, mounts, found_
<1>5. \A s \in found_ : s.by \in {"host", "docker"} /\ s.id[1] \in {"host", "vol"}
    BY <1>2, <1>3, <1>4
<1>6. "host" # "docker"
    OBVIOUS
<1>7. \A s, t \in found_ : (s.id = t.id /\ s # t) => s.by # t.by /\ s.id[1] = "host"
    BY <1>2, <1>3, <1>4, <1>6
<1>8. ASSUME lost = {}, NEW i \in DOMAIN ctrs, D!Bound(ctrs[i]),
             NEW root \in D!Around(D!Parent(ctrs[i].mount.at)), NEW d \in D!ConfigDirs(root) \cap dirs
      PROVE  \E s \in found_ : s.id = <<"host", d>>
    <2>1. ctrs[i] \in Shapes
        BY LenProperties DEF DiscoveryTypes
    <2>2. D!ProjectRoot(ctrs[i], lost) = D!Parent(ctrs[i].mount.at)
        BY <1>8 DEF D!Bound, D!ProjectRoot
    <2>3. D!ProjectRoot(ctrs[i], lost) # D!None /\ ctrs[i].labels \ lost # {}
        BY <1>8, <2>1, <2>2, DiscoveryConstants DEF D!Bound
    <2>4. PICK j \in 1 .. Len(roots) : roots[j] = root
        BY <1>1, <1>8, <2>2, <2>3 DEF Looked
    <2>5. <<j, d>> \in D!Under(roots)
        BY <1>1, <2>4 DEF D!Under
    <2>6. <<j, d>>[2] = d
        OBVIOUS
    <2> QED
        BY <1>2, <1>4, <2>5, <2>6
<1>9. \A d \in D!ConfigDirs(Home) \cap dirs :
                \E s \in found_ : s = [id |-> <<"host", d>>, by |-> "host", scope |-> D!Global]
    BY <1>1, <1>2, <1>4
<1> QED
    BY <1>5, <1>7, <1>8, <1>9 DEF FoundAll, found_

LEMMA DiscoveryNext == DiscoveryInv /\ [D!Next]_(D!vars) => DiscoveryInv'
<1> SUFFICES ASSUME DiscoveryInv, [D!Next]_(D!vars) PROVE DiscoveryInv'
    OBVIOUS
<1>0. DiscoveryTypes /\ D!SourcesUnique
    BY DEF DiscoveryInv
<1>1. CASE D!Discover /\ client = "none" /\ sources' = D!hostSources(<<Home, Cwd>> \o ExtraPaths) /\ ~fresh'
    <2> DEFINE roots == <<Home, Cwd>> \o ExtraPaths
    <2>1. roots \in Seq(HostDirs)
        <3>1. <<Home, Cwd>> \in Seq(HostDirs)
            BY DiscoveryConstants
        <3> QED
            BY <3>1, DiscoveryConstants, InConcat
    <2> HIDE DEF roots
    <2>2. DOMAIN roots = 1 .. Len(roots) /\ Len(roots) \in Nat
        BY <2>1, LenProperties
    <2>3. /\ \A s \in D!hostSources(roots) : s.by = "host" /\ s.id[1] = "host"
          /\ \A s, t \in D!hostSources(roots) : s.id = t.id => s = t
        BY <2>2, HostsOnce
    <2>4. sources' = D!hostSources(roots) /\ UNCHANGED <<dirs, ctrs>>
        BY <1>1 DEF roots, D!Discover
    <2>5. DiscoveryTypes'
        BY <1>0, <2>3, <2>4 DEF DiscoveryTypes
    <2>6. D!SourcesUnique'
        BY <1>1, <2>3, <2>4 DEF D!SourcesUnique
    <2> QED
        BY <2>5, <2>6 DEF DiscoveryInv
<1>2. ASSUME NEW lost, sources' = D!discovered(lost), fresh' = (lost = {}), UNCHANGED <<dirs, ctrs, events>>
      PROVE  DiscoveryInv'
    <2>1. FoundAll(D!discovered(lost), lost)
        BY <1>0, AllFound
    <2>2. FoundAll(sources', lost)
        BY <1>2, <2>1
    <2>3. DiscoveryTypes'
        BY <1>0, <1>2, <2>2 DEF FoundAll, DiscoveryTypes
    <2>4. D!SourcesUnique'
        BY <1>2, <2>2 DEF FoundAll, D!SourcesUnique
    <2> QED
        BY <2>3, <2>4 DEF DiscoveryInv
<1>3. CASE D!Change
    <2>1. UNCHANGED sources /\ ~fresh'
        BY <1>3 DEF D!Change
    <2>2. D!SourcesUnique'
        BY <1>0, <2>1 DEF D!SourcesUnique
    <2>3. ctrs' \in Seq(Shapes)
        <3>1. \A c \in Shapes : Append(ctrs, c) \in Seq(Shapes)
            BY <1>0, AppendProperties DEF DiscoveryTypes
        <3>2. ctrs # <<>> => Tail(ctrs) \in Seq(Shapes)
            BY <1>0 DEF DiscoveryTypes
        <3> QED
            BY <1>0, <1>3, <3>1, <3>2 DEF D!Change, DiscoveryTypes
    <2>4. dirs' \subseteq UNION {D!ConfigDirs(d) : d \in HostDirs}
        BY <1>0, <1>3 DEF D!Change, DiscoveryTypes
    <2> QED
        BY <1>0, <2>1, <2>2, <2>3, <2>4 DEF DiscoveryInv, DiscoveryTypes
<1>4. CASE UNCHANGED D!vars
    BY <1>0, <1>4 DEF D!vars, DiscoveryInv, DiscoveryTypes, D!SourcesUnique
<1> QED
    BY <1>1, <1>2, <1>3, <1>4 DEF D!Next, D!Discover

LEMMA DiscoverySpec == Spec => [](panel = "discovery" => DiscoveryInv)
<1> DEFINE Inv == panel = "discovery" => DiscoveryInv
<1>1. Init => Inv
    BY DiscoveryInit DEF Init
<1>2. Inv /\ [Next]_vars => Inv'
    <2>1. [Next]_vars => UNCHANGED panel /\ (panel = "discovery" => [D!Next]_(D!vars))
        BY DEF Next, vars, D!vars, discoveryOwn
    <2> QED
        BY <2>1, DiscoveryNext
<1> QED
    BY <1>1, <1>2, PTL DEF Spec

(* A source is listed once, and a complete discovery leaves nothing out. *)
THEOREM SourcesFound == Spec => []SourcesUnique
<1>1. (panel = "discovery" => DiscoveryInv) => SourcesUnique
    BY DEF SourcesUnique, DiscoveryInv
<1> QED
    BY <1>1, DiscoverySpec, PTL

-----------------------------------------------------------------------------
(* Disk: a container's image is there, as no call deletes one that is held. *)
HoldInv ==
    /\ DiskInv /\ Stock
    /\ pc \in {"idle", "modal", "refused", "act", "failed", "done"}
    /\ ctr \in [EngineContainer -> {S!NoContainer} \cup
                    [image : Image, state : S!State, vols : SUBSET Volume]]
    /\ \A c \in S!Live : ctr[c].image \in images
    /\ modal.unused \subseteq Objects

LEMMA HoldInit == S!Init => HoldInv
<1> SUFFICES ASSUME S!Init PROVE HoldInv
    OBVIOUS
<1>1. DiskInv /\ Stock
    BY DiskInit, EstimateInit DEF EstimateInv
<1>2. ctr \in [EngineContainer -> {S!NoContainer} \cup
                    [image : Image, state : S!State, vols : SUBSET Volume]]
    BY DEF S!Init
<1>3. \A c \in S!Live : ctr[c].image \in images
    BY <1>2 DEF S!Init, S!Live, S!NoContainer
<1>4. modal.unused \subseteq Objects /\ pc = "idle"
    BY DEF S!Init, S!NoModal
<1> QED
    BY <1>1, <1>2, <1>3, <1>4 DEF HoldInv

(* What is held is not pruned. *)
LEMMA HeldStays ==
    ASSUME NEW call, NEW i, <<"images", i>> \in S!Prunable(call) PROVE ~S!Held(i)
BY DEF S!Prunable, S!Sized

LEMMA HoldNext == HoldInv /\ EstimateInv /\ [S!Next]_(S!vars) => HoldInv'
<1> SUFFICES ASSUME HoldInv, EstimateInv, [S!Next]_(S!vars) PROVE HoldInv'
    OBVIOUS
<1> DEFINE Container_ == {S!NoContainer} \cup [image : Image, state : S!State, vols : SUBSET Volume]
<1>0. DiskInv' /\ Stock'
    BY DiskNext, EstimateNext DEF HoldInv, EstimateInv
<1> DEFINE Kept == /\ pc \in {"idle", "modal", "refused", "act", "failed", "done"}
                   /\ ctr \in [EngineContainer -> Container_]
                   /\ \A c \in S!Live : ctr[c].image \in images
                   /\ modal.unused \subseteq Objects
<1>a. Kept /\ Stock
    BY DEF HoldInv
<1> SUFFICES Kept'
    BY <1>0 DEF HoldInv
<1>1. ASSUME NEW o \in S!Op, S!Confirm(o) PROVE Kept'
    <2>1. UNCHANGED <<images, ctr>> /\ pc' \in {"modal", "refused"}
        BY <1>1 DEF S!Confirm, S!engineVars
    <2>2. UNCHANGED modal \/ \E lost : modal'.unused \subseteq S!Unused(lost)
        <3> DEFINE Made(lost) ==
                modal'.unused =
                    CASE o.act = "remove" -> S!Unused(lost) \cap {<<o.key, o.id>>}
                      [] o.key = "__safe__" ->
                           {u \in S!Unused(lost) : u[1] = "buildcache" \/
                                u \in S!Sized("images", {i \in dangling : <<"images", i>> \in S!Unused(lost)})}
                      [] o.key = "__all__" -> S!Unused(lost)
                      [] OTHER -> {u \in S!Unused(lost) : u[1] = o.key}
        <3>1. CASE pc' # "modal"
            BY <1>1, <3>1 DEF S!Confirm
        <3>2. CASE pc' = "modal"
            <4>1. \E lost : Made(lost)
                BY <1>1, <3>2, SMTT(30) DEF S!Confirm
            <4>2. \A lost : Made(lost) => modal'.unused \subseteq S!Unused(lost)
                OBVIOUS
            <4> QED
                BY <4>1, <4>2
        <3> QED
            BY <3>1, <3>2
    <2>3. modal'.unused \subseteq Objects
        BY <1>a, <2>2, UnusedObjects
    <2> QED
        BY <1>a, <2>1, <2>3 DEF S!Live
<1>2. CASE S!Proceed \/ S!Finish \/ UNCHANGED S!vars
    <2>1. UNCHANGED <<images, ctr, modal>> /\ pc' \in {pc, "act", "failed", "done"}
        BY <1>2 DEF S!Proceed, S!Finish, S!vars, S!engineVars
    <2> QED
        BY <1>a, <2>1 DEF S!Live
<1>3. CASE S!Call
    <2>1. UNCHANGED <<pc, modal>>
        BY <1>3 DEF S!Call
    <2>2. CASE S!Delete(S!Prunable(Head(calls)))
        <3> DEFINE gone == S!Prunable(Head(calls))
        <3>1. /\ images' = {i \in images : <<"images", i>> \notin gone}
              /\ ctr' = [c \in EngineContainer |-> IF <<"containers", c>> \in gone THEN S!NoContainer ELSE ctr[c]]
            BY <2>2 DEF S!Delete
        <3>2. \A i : <<"images", i>> \in gone => ~S!Held(i)
            BY HeldStays
        <3> HIDE DEF gone
        <3>3. ctr' \in [EngineContainer -> Container_]
            BY <1>a, <3>1
        <3>4. ASSUME NEW c \in S!Live' PROVE (ctr[c].image \in images)'
            <4>1. c \in S!Live /\ ctr'[c] = ctr[c]
                BY <3>1 DEF S!Live, S!NoContainer
            <4>2. S!Held(ctr[c].image)
                BY <4>1 DEF S!Held
            <4>3. <<"images", ctr[c].image>> \notin gone
                BY <3>2, <4>2
            <4>4. ctr[c].image \in images
                BY <1>a, <4>1
            <4>5. ctr[c].image \in images'
                BY <3>1, <4>3, <4>4
            <4> QED
                BY <4>1, <4>5
        <3> QED
            BY <1>a, <2>1, <3>3, <3>4
    <2>3. CASE UNCHANGED <<images, ctr>>
        BY <1>a, <2>1, <2>3 DEF S!Live
    <2> QED
        BY <1>3, <2>2, <2>3 DEF S!Call, S!engineVars
<1>4. CASE S!Event
    <2>1. UNCHANGED <<pc, modal, images>>
        BY <1>4 DEF S!Event
    <2>2. CASE UNCHANGED ctr
        BY <1>a, <2>1, <2>2 DEF S!Live
    <2>3. ASSUME NEW c \in EngineContainer, NEW new,
                 ctr' = [ctr EXCEPT ![c] = new], new \in Container_,
                 new.image = NoImage \/ new.image \in images
          PROVE  Kept'
        <3>1. ctr' \in [EngineContainer -> Container_]
            BY <1>a, <2>3
        <3>2. \A d \in S!Live' : ctr'[d].image \in images
            BY <1>a, <2>3 DEF S!Live
        <3> QED
            BY <1>a, <2>1, <3>1, <3>2
    <2>4. ASSUME NEW c \in EngineContainer, NEW i \in images, NEW vs \in SUBSET volumes,
                 ctr' = [ctr EXCEPT ![c] = [image |-> i, state |-> "running", vols |-> vs]]
          PROVE  Kept'
        <3> DEFINE new == [image |-> i, state |-> "running", vols |-> vs]
        <3>1. new \in Container_ /\ new.image \in images
            BY <1>a DEF Stock, S!State
        <3> HIDE DEF new
        <3>2. ctr' = [ctr EXCEPT ![c] = new]
            BY <2>4 DEF new
        <3> QED
            BY <2>3, <3>1, <3>2
    <2>5. ASSUME NEW c \in EngineContainer, NEW s \in S!State, ctr[c] # S!NoContainer,
                 ctr' = [ctr EXCEPT ![c].state = s]
          PROVE  Kept'
        <3> DEFINE new == [ctr[c] EXCEPT !.state = s]
        <3>1. ctr[c] \in [image : Image, state : S!State, vols : SUBSET Volume]
            BY <1>a, <2>5
        <3>2. c \in S!Live
            BY <3>1, Constants DEF S!Live, S!Assumptions
        <3>3. new \in Container_ /\ new.image \in images
            BY <1>a, <3>1, <3>2
        <3>4. ctr' = [ctr EXCEPT ![c] = new]
            BY <2>5
        <3> HIDE DEF new
        <3> QED
            BY <2>3, <3>3, <3>4
    <2>6. ASSUME NEW c \in EngineContainer, ctr' = [ctr EXCEPT ![c] = S!NoContainer] PROVE Kept'
        <3>1. S!NoContainer \in Container_ /\ S!NoContainer.image = NoImage
            BY DEF S!NoContainer
        <3> HIDE DEF Container_
        <3> QED
            BY <2>3, <2>6, <3>1
    <2> QED
        BY <1>4, <2>2, <2>4, <2>5, <2>6 DEF S!Event
<1> QED
    BY <1>1, <1>2, <1>3, <1>4 DEF S!Next

(* Every panel's variables have the values their declarations speak of.    *)
THEOREM PanelsType == Spec => []TypeOK
<1> DEFINE Inv ==
        /\ panel = "listing" => ListingInv
        /\ panel = "containers" => WalkInv
        /\ panel = "llama" => LlamaInv
        /\ panel = "vault" => VaultInv
        /\ panel = "supervisor" => SupervisorInv
        /\ panel = "system" => HoldInv /\ EstimateInv
        /\ panel = "graph" => GraphInv
        /\ panel = "index" => KeyInv
        /\ panel = "discovery" => DiscoveryInv
<1>1. Init => Inv
    BY ListingInit, WalkInit, LlamaInit, VaultInit, SupervisorInit, HoldInit, EstimateInit, GraphInit,
       KeyInit, DiscoveryInit DEF Init
<1>2. Inv /\ [Next]_vars => Inv'
    <2>1. [Next]_vars => UNCHANGED panel
        BY DEF Next, vars
    <2>2. [Next]_vars =>
            /\ panel = "listing" => [E!Next]_(E!vars)
            /\ panel = "containers" => [C!Next]_(C!vars)
            /\ panel = "llama" => [L!Next]_(L!vars)
        BY DEF Next, vars, E!vars, listingOwn, C!vars, containersOwn, L!vars, L!serverVars,
           L!drainVars, llamaOwn
    <2>3. [Next]_vars =>
            /\ panel = "vault" => [V!Next]_(V!vars)
            /\ panel = "supervisor" => [P!Next]_(P!vars)
        BY DEF Next, vars, V!vars, V!reqVars, vaultOwn, P!vars, supervisorOwn
    <2>4. [Next]_vars => (panel = "system" => [S!Next]_(S!vars))
        BY DEF Next, vars, S!vars, S!engineVars, systemOwn
    <2>5. [Next]_vars =>
            /\ panel = "graph" => [G!Next]_(G!vars)
            /\ panel = "index" => [I!Next]_(I!vars)
            /\ panel = "discovery" => [D!Next]_(D!vars)
        BY DEF Next, vars, G!vars, G!world, graphOwn, I!vars, I!scanVars, indexOwn, D!vars, discoveryOwn
    <2> QED
        BY <2>1, <2>2, <2>3, <2>4, <2>5, ListingNext, WalkNext, LlamaNext, VaultNext, SupervisorNext, HoldNext,
           EstimateNext, GraphNext, KeyNext, DiscoveryNext DEF HoldInv
<1>3. Inv => TypeOK
    <2>1. ListingInv => E!TypeOK
        BY StoredList, LenProperties DEF ListingInv, ListingTypes, Loop, E!TypeOK
    <2>2. WalkInv => C!TypeOK
        BY DEF WalkInv, ListInv, ListTypes, WalkKept, C!TypeOK
    <2>3. LlamaInv => L!TypeOK
        BY DEF LlamaInv, DrainInv, DrainTypes, CardTypes, CardKept, L!TypeOK
    <2>4. VaultInv => V!TypeOK
        BY DEF VaultInv, VaultTypes
    <2>5. SupervisorInv => P!TypeOK
        BY DEF SupervisorInv, UpInv, UpTypes, P!TypeOK
    <2>6. HoldInv => S!TypeOK
        BY DEF HoldInv, DiskInv, DiskTypes, Stock, Objects, S!TypeOK
    <2>7. GraphInv => G!TypeOK
        BY DEF GraphInv, Observations, G!TypeOK
    <2>8. KeyInv => I!TypeOK
        BY DEF KeyInv, IndexInv, IndexTypes, I!TypeOK
    <2>9. DiscoveryInv => D!TypeOK
        BY DEF DiscoveryInv, DiscoveryTypes, D!TypeOK, D!ToSet
    <2> QED
        BY <2>1, <2>2, <2>3, <2>4, <2>5, <2>6, <2>7, <2>8, <2>9 DEF TypeOK
<1> QED
    BY <1>1, <1>2, <1>3, PTL DEF Spec

=============================================================================
