------------------------------ MODULE SyncModel ------------------------------
(***************************************************************************)
(* packages/marketplace/src/model/sync-model.ts: the reference model of    *)
(* the synchronisation of one listing over several channels, a pure        *)
(* reducer (World, Input) -> World and effects, folded over the inputs by  *)
(* replay.  The specification feeds it every input in every order, as the  *)
(* generators of its property tests do.  STALE_DROP, the trace of an input *)
(* that changes nothing, is left out of the effects.                       *)
(***************************************************************************)
EXTENDS Naturals, FiniteSets

CONSTANTS Channel,       \* the channels the listing has a line for
          Uncorrelated,  \* a channel it has none for
          EventKey,
          Initial,       \* the states a world may be created in
          NoSale,
          MaxAttempts, MaxEpoch   \* bounds of the two counters of a line

VARIABLES world,    \* the World
          effects   \* what replay has collected of the effects

vars == <<world, effects>>

ChannelState == {"QUEUED", "SUBMITTED", "PUBLISHED", "RETRACTING", "SOLD",
                 "OVERSOLD", "RETRACTED", "ENDED", "FAILED", "DIRTY"}
Line == [state : ChannelState, attempts : 0 .. MaxAttempts, epoch : 0 .. MaxEpoch]
SaleFact == [channel : Channel, eventKey : EventKey]
World == [lines : [Channel -> Line],
          sale : SaleFact \cup {NoSale},
          seenEventKeys : SUBSET (Channel \X EventKey)]
Effect == [kind : {"RETRACT_INTENT", "INCIDENT", "DASHBOARD_EVENT"}, channel : Channel]

TerminalTruth == {"SOLD", "ENDED", "RETRACTED"}

ASSUME SyncAssumption ==
    /\ Uncorrelated \notin Channel
    /\ NoSale \notin SaleFact \cup Channel
    /\ Initial \subseteq ChannelState \ (TerminalTruth \cup {"OVERSOLD", "DIRTY"})
    /\ MaxAttempts \in Nat /\ MaxEpoch \in Nat

EventKind == {"PUBLISH_CONFIRMED", "PUBLISH_REJECTED", "SOLD", "RETRACT_CONFIRMED",
              "LISTING_ENDED", "OFFER_RECEIVED", "MESSAGE_RECEIVED"}
OutcomeKind == {"OUTCOME_PUBLISHED", "OUTCOME_SUBMITTED", "OUTCOME_FAILED_TRANSIENT",
                "OUTCOME_FAILED_PERMANENT", "OUTCOME_RETRACT_OK",
                "OUTCOME_RETRACT_TRANSIENT", "OUTCOME_RETRACT_PERMANENT"}
CommandKind == {"CMD_PUBLISH", "CMD_RETRACT", "CMD_REPUBLISH", "CMD_COMPENSATE"}
TimerKind == {"TIMER_TIMEOUT_SUBMITTED", "TIMER_TIMEOUT_RETRACT"}

(* The fields of an input: kind, channel and, for an event, its key. *)
Event == [kind : EventKind, channel : Channel \cup {Uncorrelated}, eventKey : EventKey]
Operation == [kind : OutcomeKind \cup CommandKind \cup TimerKind,
              channel : Channel \cup {Uncorrelated}]

-----------------------------------------------------------------------------
(* The cases of transition that concern the line alone. *)

FromQueued ==
    {<<"QUEUED", "OUTCOME_FAILED_TRANSIENT", "QUEUED">>,
     <<"QUEUED", "OUTCOME_PUBLISHED", "PUBLISHED">>,
     <<"QUEUED", "OUTCOME_SUBMITTED", "SUBMITTED">>,
     <<"QUEUED", "OUTCOME_FAILED_PERMANENT", "FAILED">>,
     <<"QUEUED", "CMD_RETRACT", "RETRACTED">>}

FromSubmitted ==
    {<<"SUBMITTED", "PUBLISH_CONFIRMED", "PUBLISHED">>,
     <<"SUBMITTED", "PUBLISH_REJECTED", "FAILED">>,
     <<"SUBMITTED", "TIMER_TIMEOUT_SUBMITTED", "FAILED">>,
     <<"SUBMITTED", "CMD_RETRACT", "RETRACTING">>}

FromPublished ==
    {<<"PUBLISHED", "CMD_RETRACT", "RETRACTING">>,
     <<"PUBLISHED", "LISTING_ENDED", "ENDED">>,
     <<"PUBLISHED", "RETRACT_CONFIRMED", "ENDED">>}

\* The end of an annonce is not expected while it is being retracted.
FromRetracting_NoListingEnded ==
    {<<"RETRACTING", "OUTCOME_RETRACT_TRANSIENT", "RETRACTING">>,
     <<"RETRACTING", "OUTCOME_RETRACT_OK", "RETRACTED">>,
     <<"RETRACTING", "RETRACT_CONFIRMED", "RETRACTED">>,
     <<"RETRACTING", "OUTCOME_RETRACT_PERMANENT", "DIRTY">>,
     <<"RETRACTING", "TIMER_TIMEOUT_RETRACT", "DIRTY">>}

FromRetracting ==
    {<<"RETRACTING", "OUTCOME_RETRACT_TRANSIENT", "RETRACTING">>,
     <<"RETRACTING", "OUTCOME_RETRACT_OK", "RETRACTED">>,
     <<"RETRACTING", "RETRACT_CONFIRMED", "RETRACTED">>,
     <<"RETRACTING", "LISTING_ENDED", "RETRACTED">>,
     <<"RETRACTING", "OUTCOME_RETRACT_PERMANENT", "DIRTY">>,
     <<"RETRACTING", "TIMER_TIMEOUT_RETRACT", "DIRTY">>}

FromDirty ==
    {<<"DIRTY", "OUTCOME_RETRACT_OK", "RETRACTED">>,
     <<"DIRTY", "RETRACT_CONFIRMED", "RETRACTED">>}

FromFailed ==
    {<<"FAILED", "CMD_REPUBLISH", "QUEUED">>,
     <<"FAILED", "PUBLISH_CONFIRMED", "PUBLISHED">>}

FromOversold == {<<"OVERSOLD", "CMD_COMPENSATE", "RETRACTED">>}

Edge == FromQueued \cup FromSubmitted \cup FromPublished \cup FromRetracting
        \cup FromDirty \cup FromFailed \cup FromOversold

(* A sale is arbitrated from these states, and dropped in the others. *)
Arbitrated == {"SUBMITTED", "PUBLISHED", "RETRACTING", "DIRTY"}

Transient == {"OUTCOME_FAILED_TRANSIENT", "OUTCOME_RETRACT_TRANSIENT"}

Moved(line, kind, to) ==
    [state |-> to,
     attempts |-> CASE kind \in Transient -> line.attempts + 1
                    [] kind = "CMD_REPUBLISH" -> 0
                    [] OTHER -> line.attempts,
     epoch |-> IF kind = "CMD_REPUBLISH" THEN line.epoch + 1 ELSE line.epoch]

Alarm(c) == {[kind |-> "INCIDENT", channel |-> c], [kind |-> "DASHBOARD_EVENT", channel |-> c]}

Result(w, fx) == [world |-> w, effects |-> fx]

Follow(w, c, kind, to) ==
    Result([w EXCEPT !.lines[c] = Moved(@, kind, to)],
           IF to = "DIRTY" THEN Alarm(c) ELSE {})

-----------------------------------------------------------------------------
(* The sale is set once; the winning step retracts every other line. *)

\* The cascade forgets the lines whose publication failed.
Cascaded_SkipsFailed(w, c) ==
    {d \in Channel \ {c} : w.lines[d].state \notin TerminalTruth \cup {"FAILED"}}

\* The cascade retracts the lines that are over too.
Cascaded_Everything(w, c) == Channel \ {c}

Cascaded(w, c) == {d \in Channel \ {c} : w.lines[d].state \notin TerminalTruth}

Win(w, c, key) ==
    Result([lines |-> [d \in Channel |->
                         IF d = c THEN [w.lines[d] EXCEPT !.state = "SOLD"]
                         ELSE IF d \in Cascaded(w, c)
                              THEN [w.lines[d] EXCEPT !.state = "RETRACTING"]
                              ELSE w.lines[d]],
            sale |-> [channel |-> c, eventKey |-> key],
            seenEventKeys |-> w.seenEventKeys],
           {[kind |-> "RETRACT_INTENT", channel |-> d] : d \in Cascaded(w, c)})

\* The oversold line is marked, the incident is not raised.
Lose_Silently(w, c) == Result([w EXCEPT !.lines[c].state = "OVERSOLD"], {})

Lose(w, c) == Result([w EXCEPT !.lines[c].state = "OVERSOLD"], Alarm(c))

\* Last commit wins: a later sale replaces the first.
ArbitrateSale_LastWins(w, c, key) ==
    IF w.sale # NoSale /\ w.sale.channel = c THEN Result(w, {}) ELSE Win(w, c, key)

ArbitrateSale(w, c, key) ==
    IF w.sale = NoSale THEN Win(w, c, key)
    ELSE IF w.sale.channel = c THEN Result(w, {})
    ELSE Lose(w, c)

-----------------------------------------------------------------------------
(* transition of one line, and step: deduplication of the events first. *)

Transition(w, i) ==
    LET from == w.lines[i.channel].state
        next == {to \in ChannelState : <<from, i.kind, to>> \in Edge}
    IN IF i.kind = "SOLD" /\ from \in Arbitrated THEN ArbitrateSale(w, i.channel, i.eventKey)
       ELSE IF next # {} THEN Follow(w, i.channel, i.kind, CHOOSE to \in next : TRUE)
       ELSE Result(w, {})

\* The key of an event is consumed before its line is looked up.
Step(w, i) ==
    IF i.channel \notin Channel THEN Result(w, {})
    ELSE IF i.kind \notin EventKind THEN Transition(w, i)
    ELSE LET key == <<i.channel, i.eventKey>>
         IN IF key \in w.seenEventKeys THEN Result(w, {})
            ELSE [Transition(w, i) EXCEPT !.world.seenEventKeys = @ \cup {key}]

Replay(i) ==
    LET result == Step(world, i)
    IN /\ \A c \in Channel : /\ result.world.lines[c].attempts <= MaxAttempts
                             /\ result.world.lines[c].epoch <= MaxEpoch
       /\ world' = result.world
       /\ effects' = effects \cup result.effects

-----------------------------------------------------------------------------
Init ==
    /\ \E s \in Initial :
          world = [lines |-> [c \in Channel |-> [state |-> s, attempts |-> 0, epoch |-> 0]],
                   sale |-> NoSale,
                   seenEventKeys |-> {}]
    /\ effects = {}

ReceiveEvent == \E i \in Event : Replay(i)
ReceiveOutcome == \E i \in Operation : i.kind \in OutcomeKind /\ Replay(i)
ReceiveCommand == \E i \in Operation : i.kind \in CommandKind /\ Replay(i)
ReceiveTimer == \E i \in Operation : i.kind \in TimerKind /\ Replay(i)

Next == ReceiveEvent \/ ReceiveOutcome \/ ReceiveCommand \/ ReceiveTimer

Spec == Init /\ [][Next]_vars

-----------------------------------------------------------------------------
(* Type invariant: the world is a World, the effects are Effects. *)
TypeOK ==
    /\ world \in World
    /\ effects \subseteq Effect

SoldLines == {c \in Channel : world.lines[c].state = "SOLD"}
MaySell == {c \in Channel : world.lines[c].state \in {"QUEUED", "SUBMITTED", "PUBLISHED", "FAILED"}}

Outcome ==
    INSTANCE OneSale WITH NoWinner <- NoSale,
                          winner <- IF world.sale = NoSale THEN NoSale ELSE world.sale.channel,
                          onSale <- MaySell

(* INV-18 and INV-2: whatever the order of the sales, of the commands and   *)
(* of the outcomes, the object is sold once for ever, and from that step on *)
(* no other channel can ever have it for sale again: not a line still       *)
(* queued, nor one whose publication failed and is confirmed later.         *)
SoldOnce == Outcome!Spec

(* The sale that is recorded and the line that says SOLD are the same fact, *)
(* written by one step (INV-18): no line is SOLD without it, none lost.     *)
SaleIsTheSoldLine ==
    SoldLines = IF world.sale = NoSale THEN {} ELSE {world.sale.channel}

(* INV-24: no input of any kind moves a line the channel has attested as   *)
(* over, the cascade of a sale elsewhere included.                         *)
TerminalsAbsorb ==
    [][\A c \in Channel : world.lines[c].state \in TerminalTruth
                             => world'.lines[c] = world.lines[c]]_vars

(* INV-19 and INV-25: what has to be done outside is never lost.  A line    *)
(* that leaves the sale behind its winner was told to retract, unless it    *)
(* was over before; one that is DIRTY or OVERSOLD raised its incident and   *)
(* its dashboard event.                                                     *)
EffectsAreComplete ==
    \A c \in Channel :
       /\ world.lines[c].state \in {"DIRTY", "OVERSOLD"} => Alarm(c) \subseteq effects
       /\ world.sale # NoSale /\ world.lines[c].state \notin TerminalTruth
             => [kind |-> "RETRACT_INTENT", channel |-> c] \in effects

(* P-17a: on a world created PUBLISHED, two events may be delivered in      *)
(* either order; the lines end in the same states, which of the terminals   *)
(* is left open, and so does whether it is sold.  At most one of them is a  *)
(* sale, on a channel that gets nothing else (the ambiguity of ERRATA E-5). *)
Verdict(w) ==
    [lines |-> [c \in Channel |-> IF w.lines[c].state \in TerminalTruth THEN "over"
                                  ELSE w.lines[c].state],
     sold |-> w.sale # NoSale]
Fresh == {i \in Event : i.channel \in Channel /\ <<i.channel, i.eventKey>> \notin world.seenEventKeys}
Independent(i, j) ==
    /\ i.kind # "SOLD"
    /\ j.kind = "SOLD" => world.sale = NoSale /\ i.channel # j.channel
    /\ <<i.channel, i.eventKey>> # <<j.channel, j.eventKey>>
EventsCommute ==
    (\A c \in Channel : world.lines[c].state \in {"PUBLISHED", "RETRACTING"} \cup TerminalTruth)
       => \A i, j \in Fresh :
             Independent(i, j)
                => Verdict(Step(Step(world, i).world, j).world)
                      = Verdict(Step(Step(world, j).world, i).world)

(* SYNC-FSM.md, section 3, on the edge QUEUED to RETRACTED: "Si un outcome  *)
(* PUBLISHED croise cette annulation (course avec le worker), la            *)
(* verite-canal prime : corrective -> RETRACTING".  A worker that publishes *)
(* a line its queue has just cancelled leaves a live annonce to take down.  *)
LatePublishIsTakenDown ==
    [][\A c \in Channel :
          LET published == [kind |-> "OUTCOME_PUBLISHED", channel |-> c]
          IN world.lines[c].state = "QUEUED" /\ world'.lines[c].state = "RETRACTED"
                => Step(world', published).world.lines[c].state = "RETRACTING"]_vars
=============================================================================
