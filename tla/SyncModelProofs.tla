--------------------------- MODULE SyncModelProofs ---------------------------
(***************************************************************************)
(* The reducer of SyncModel keeps its promises for any channels, any event *)
(* keys and any bounds of its counters.                                    *)
(*                                                                         *)
(* One input does one of four things to the world: nothing, move one line  *)
(* along an edge, win the sale, or lose it (ReplayCases).  Each property   *)
(* is then proved case by case.                                            *)
(***************************************************************************)
EXTENDS SyncModel, TLAPS

State(c) == world.lines[c].state

\* Where a line can be once the object is sold on another channel.
Behind == {"RETRACTING", "DIRTY", "OVERSOLD", "RETRACTED", "ENDED"}

NothingElseOnSale ==
    world.sale # NoSale
       => \A c \in Channel \ {world.sale.channel} : State(c) \in Behind

\* The inductive invariant.
SInv ==
    /\ TypeOK
    /\ SaleIsTheSoldLine
    /\ NothingElseOnSale
    /\ EffectsAreComplete

-----------------------------------------------------------------------------
(* The four effects of an input. *)

Quiet ==
    /\ world'.lines = world.lines
    /\ world'.sale = world.sale
    /\ effects' = effects

Followed(c, kind, to) ==
    /\ <<State(c), kind, to>> \in Edge
    /\ world'.lines = [world.lines EXCEPT ![c] = Moved(@, kind, to)]
    /\ world'.sale = world.sale
    /\ effects' = effects \cup (IF to = "DIRTY" THEN Alarm(c) ELSE {})

WonLines(c) ==
    [d \in Channel |->
       IF d = c THEN [world.lines[d] EXCEPT !.state = "SOLD"]
       ELSE IF State(d) \notin TerminalTruth
            THEN [world.lines[d] EXCEPT !.state = "RETRACTING"]
            ELSE world.lines[d]]
WonEffects(c) ==
    {[kind |-> "RETRACT_INTENT", channel |-> d] :
       d \in {e \in Channel \ {c} : State(e) \notin TerminalTruth}}

Won(c, key) ==
    /\ world.sale = NoSale
    /\ State(c) \in Arbitrated
    /\ world'.lines = WonLines(c)
    /\ world'.sale = [channel |-> c, eventKey |-> key]
    /\ effects' = effects \cup WonEffects(c)

Lost(c) ==
    /\ world.sale # NoSale
    /\ world.sale.channel # c
    /\ State(c) \in Arbitrated
    /\ world'.lines = [world.lines EXCEPT ![c].state = "OVERSOLD"]
    /\ world'.sale = world.sale
    /\ effects' = effects \cup Alarm(c)

Bounded(w) ==
    \A c \in Channel : w.lines[c].attempts <= MaxAttempts /\ w.lines[c].epoch <= MaxEpoch

Shape(w) ==
    /\ w = [lines |-> w.lines, sale |-> w.sale, seenEventKeys |-> w.seenEventKeys]
    /\ w.seenEventKeys \in SUBSET (Channel \X EventKey)

\* What a step of the machine can be.
Effected ==
    /\ Bounded(world')
    /\ Shape(world')
    /\ \/ Quiet
       \/ \E c \in Channel :
             \/ \E kind \in EventKind \cup OutcomeKind \cup CommandKind \cup TimerKind,
                   to \in ChannelState : Followed(c, kind, to)
             \/ \E key \in EventKey : Won(c, key)
             \/ Lost(c)

\* The world and the effects of the sale that wins.
LEMMA WinShape ==
    \A c \in Channel, key \in EventKey :
       Win(world, c, key) = [world |-> [lines |-> WonLines(c),
                                        sale |-> [channel |-> c, eventKey |-> key],
                                        seenEventKeys |-> world.seenEventKeys],
                             effects |-> WonEffects(c)]
  <1> SUFFICES ASSUME NEW c \in Channel, NEW key \in EventKey
               PROVE  Win(world, c, key) = [world |-> [lines |-> WonLines(c),
                                               sale |-> [channel |-> c, eventKey |-> key],
                                               seenEventKeys |-> world.seenEventKeys],
                                            effects |-> WonEffects(c)]
    OBVIOUS
  <1>1. WonLines(c) = [d \in Channel |->
                         IF d = c THEN [world.lines[d] EXCEPT !.state = "SOLD"]
                         ELSE IF d \in Cascaded(world, c)
                              THEN [world.lines[d] EXCEPT !.state = "RETRACTING"]
                              ELSE world.lines[d]]
    BY DEF WonLines, Cascaded, State
  <1>2. WonEffects(c) = {[kind |-> "RETRACT_INTENT", channel |-> d] : d \in Cascaded(world, c)}
    BY DEF WonEffects, Cascaded, State
  <1> QED BY <1>1, <1>2 DEF Win, Result

\* transition() of a line does one of the four things, before the key of an
\* event is marked as seen.
LEMMA TransitionCases ==
    ASSUME TypeOK, NEW i \in Event \cup Operation, i.channel \in Channel,
           i.kind = "SOLD" => i \in Event
    PROVE  LET t == Transition(world, i)
               c == i.channel
           IN /\ t = [world |-> t.world, effects |-> t.effects]
              /\ t.world = [lines |-> t.world.lines, sale |-> t.world.sale,
                            seenEventKeys |-> world.seenEventKeys]
              /\ \/ t.world = world /\ t.effects = {}
                 \/ \E to \in ChannelState :
                      /\ <<State(c), i.kind, to>> \in Edge
                      /\ t.world.lines = [world.lines EXCEPT ![c] = Moved(@, i.kind, to)]
                      /\ t.world.sale = world.sale
                      /\ t.effects = IF to = "DIRTY" THEN Alarm(c) ELSE {}
                 \/ /\ i \in Event
                    /\ State(c) \in Arbitrated
                    /\ \/ /\ world.sale = NoSale
                          /\ t = Win(world, c, i.eventKey)
                       \/ /\ world.sale # NoSale /\ world.sale.channel # c
                          /\ t = Lose(world, c)
  <1> DEFINE t == Transition(world, i)
             c == i.channel
             from == State(c)
             next == {to \in ChannelState : <<from, i.kind, to>> \in Edge}
  <1>1. world = [lines |-> world.lines, sale |-> world.sale,
                 seenEventKeys |-> world.seenEventKeys]
    BY DEF TypeOK, World
  <1>2. CASE i.kind = "SOLD" /\ from \in Arbitrated
    <2>1. t = ArbitrateSale(world, c, i.eventKey)
      BY <1>2 DEF Transition, State
    <2>2. i \in Event
      BY <1>2
    <2>3. CASE world.sale = NoSale
      <3>1. t = Win(world, c, i.eventKey)
        BY <2>1, <2>3 DEF ArbitrateSale
      <3> i.eventKey \in EventKey
        BY <2>2 DEF Event
      <3>2. /\ t = [world |-> t.world, effects |-> t.effects]
            /\ t.world = [lines |-> t.world.lines, sale |-> t.world.sale,
                          seenEventKeys |-> world.seenEventKeys]
        BY <3>1, WinShape
      <3> QED BY <1>2, <2>2, <2>3, <3>1, <3>2
    <2>4. CASE world.sale # NoSale /\ world.sale.channel = c
      BY <1>1, <2>1, <2>4 DEF ArbitrateSale, Result
    <2>5. CASE world.sale # NoSale /\ world.sale.channel # c
      BY <1>1, <1>2, <2>1, <2>2, <2>5 DEF ArbitrateSale, Lose, Result, State
    <2> QED BY <2>3, <2>4, <2>5
  <1>3. CASE ~(i.kind = "SOLD" /\ from \in Arbitrated) /\ next # {}
    <2>1. PICK to \in next : t = Follow(world, c, i.kind, to)
      BY <1>3 DEF Transition, State
    <2>2. /\ t.world = [world EXCEPT !.lines[c] = Moved(@, i.kind, to)]
          /\ t.effects = IF to = "DIRTY" THEN Alarm(c) ELSE {}
          /\ t = [world |-> t.world, effects |-> t.effects]
      BY <2>1 DEF Follow, Result
    <2>3. /\ t.world.lines = [world.lines EXCEPT ![c] = Moved(@, i.kind, to)]
          /\ t.world.sale = world.sale
          /\ t.world = [lines |-> t.world.lines, sale |-> t.world.sale,
                        seenEventKeys |-> world.seenEventKeys]
      BY <1>1, <2>2
    <2> QED BY <2>1, <2>2, <2>3
  <1>4. CASE ~(i.kind = "SOLD" /\ from \in Arbitrated) /\ next = {}
    <2>1. t = Result(world, {})
      BY <1>4 DEF Transition, State
    <2> QED BY <1>1, <2>1 DEF Result
  <1> QED BY <1>2, <1>3, <1>4

\* Every step of replay is one of the four.
LEMMA ReplayCases ==
    ASSUME TypeOK, NEW i \in Event \cup Operation, i.kind = "SOLD" => i \in Event, Replay(i)
    PROVE  Effected
  <1> DEFINE r == Step(world, i)
             c == i.channel
             t == Transition(world, i)
             key == <<c, i.eventKey>>
  <1>1. world' = r.world /\ effects' = effects \cup r.effects /\ Bounded(world')
    BY DEF Replay, Bounded
  <1>2. Shape(world)
    BY DEF TypeOK, World, Shape
  <1>3. CASE c \notin Channel \/ (i.kind \in EventKind /\ key \in world.seenEventKeys)
    <2>1. \/ r = Result(world, {})
          \/ c \in Channel /\ i.kind \notin EventKind
      BY <1>3 DEF Step
    <2>2. r = Result(world, {})
      BY <1>3, <2>1
    <2> QED BY <1>1, <1>2, <2>2 DEF Result, Quiet, Effected
  <1>4. CASE c \in Channel /\ ~(i.kind \in EventKind /\ key \in world.seenEventKeys)
    <2>1. /\ t = [world |-> t.world, effects |-> t.effects]
          /\ t.world = [lines |-> t.world.lines, sale |-> t.world.sale,
                        seenEventKeys |-> world.seenEventKeys]
      BY <1>4, TransitionCases
    <2>2. r.world.lines = t.world.lines /\ r.world.sale = t.world.sale /\ r.effects = t.effects
      BY <1>4, <2>1 DEF Step
    <2>3. Shape(r.world)
      <3>1. CASE i.kind \notin EventKind
        BY <1>2, <1>4, <2>1, <3>1 DEF Step, Shape
      <3>2. CASE i.kind \in EventKind
        <4>1. i \in Event
          BY <3>2 DEF Operation, EventKind, OutcomeKind, CommandKind, TimerKind
        <4>2. i.eventKey \in EventKey
          BY <4>1 DEF Event
        <4> QED BY <1>2, <1>4, <2>1, <3>2, <4>2 DEF Step, Shape
      <3> QED BY <3>1, <3>2
    <2>4. /\ world'.lines = t.world.lines
          /\ world'.sale = t.world.sale
          /\ effects' = effects \cup t.effects
      BY <1>1, <2>2
    <2>5. CASE t.world = world /\ t.effects = {}
      BY <1>1, <2>3, <2>4, <2>5 DEF Effected, Quiet
    <2>6. ASSUME NEW to \in ChannelState,
                 <<State(c), i.kind, to>> \in Edge,
                 t.world.lines = [world.lines EXCEPT ![c] = Moved(@, i.kind, to)],
                 t.world.sale = world.sale,
                 t.effects = IF to = "DIRTY" THEN Alarm(c) ELSE {}
          PROVE  Effected
      <3>1. Followed(c, i.kind, to)
        BY <2>4, <2>6 DEF Followed
      <3>2. i.kind \in EventKind \cup OutcomeKind \cup CommandKind \cup TimerKind
        <4>1. CASE i \in Event
          BY <4>1 DEF Event
        <4>2. CASE i \in Operation
          BY <4>2 DEF Operation
        <4> QED BY <4>1, <4>2
      <3> QED BY <1>1, <1>4, <2>3, <3>1, <3>2 DEF Effected
    <2>7. ASSUME i \in Event, State(c) \in Arbitrated, world.sale = NoSale,
                 t = Win(world, c, i.eventKey)
          PROVE  Effected
      <3>1. i.eventKey \in EventKey
        BY <2>7 DEF Event
      <3>2. Won(c, i.eventKey)
        <4>1. /\ t.world.lines = WonLines(c)
              /\ t.world.sale = [channel |-> c, eventKey |-> i.eventKey]
              /\ t.effects = WonEffects(c)
          BY <1>4, <2>7, <3>1, WinShape
        <4> QED BY <2>4, <2>7, <4>1 DEF Won
      <3> QED BY <1>1, <1>4, <2>3, <3>1, <3>2 DEF Effected
    <2>8. ASSUME State(c) \in Arbitrated, world.sale # NoSale, world.sale.channel # c,
                 t = Lose(world, c)
          PROVE  Effected
      <3>1. Lost(c)
        BY <1>2, <2>4, <2>8 DEF Lost, Lose, Result, Shape
      <3> QED BY <1>1, <1>4, <2>3, <3>1 DEF Effected
    <2> QED BY <1>4, <2>5, <2>6, <2>7, <2>8, TransitionCases
  <1> QED BY <1>3, <1>4

\* So is every step of the specification: a sale is an event, whose key it has.
LEMMA StepCases ==
    ASSUME TypeOK, Next
    PROVE  Effected
  <1>1. \A i \in Event : i \in Event \cup Operation /\ (i.kind = "SOLD" => i \in Event)
    OBVIOUS
  <1>2. \A i \in Operation : i \in Event \cup Operation /\ i.kind # "SOLD"
    BY DEF Operation, OutcomeKind, CommandKind, TimerKind
  <1> QED BY <1>1, <1>2, ReplayCases
          DEF Next, ReceiveEvent, ReceiveOutcome, ReceiveCommand, ReceiveTimer

-----------------------------------------------------------------------------
(* What each of the four does to the lines. *)

\* No edge leaves a terminal, reaches SOLD or OVERSOLD, or goes back on sale.
LEMMA EdgeFacts ==
    ASSUME NEW from, NEW kind, NEW to, <<from, kind, to>> \in Edge
    PROVE  /\ from \notin TerminalTruth
           /\ to \in ChannelState \ {"SOLD", "OVERSOLD"}
           /\ from \in Behind => to \in Behind
  BY DEF Edge, FromQueued, FromSubmitted, FromPublished, FromRetracting, FromDirty,
         FromFailed, FromOversold, TerminalTruth, ChannelState, Behind

\* A type for the fields of a line.
LEMMA LineFields ==
    ASSUME TypeOK, NEW d \in Channel
    PROVE  /\ world.lines[d] \in Line
           /\ State(d) \in ChannelState
           /\ world.lines[d].attempts \in 0 .. MaxAttempts
           /\ world.lines[d].epoch \in 0 .. MaxEpoch
  BY DEF TypeOK, World, Line, State

\* A line that follows an edge arrives; the other lines do not move.
LEMMA FollowedLines ==
    ASSUME TypeOK, NEW c \in Channel, NEW kind, NEW to, Followed(c, kind, to)
    PROVE  /\ State(c)' = to
           /\ \A d \in Channel \ {c} : world'.lines[d] = world.lines[d]
  <1>1. DOMAIN world.lines = Channel
    BY DEF TypeOK, World
  <1>2. world'.lines[c] = Moved(world.lines[c], kind, to)
    BY <1>1 DEF Followed
  <1>3. \A d \in Channel \ {c} : world'.lines[d] = world.lines[d]
    BY <1>1 DEF Followed
  <1> QED BY <1>2, <1>3 DEF State, Moved

\* The winning line is SOLD, the others retract unless they are over.
LEMMA WonLinesFacts ==
    ASSUME TypeOK, NEW c \in Channel, NEW key \in EventKey, Won(c, key)
    PROVE  /\ world'.lines[c] = [world.lines[c] EXCEPT !.state = "SOLD"]
           /\ State(c)' = "SOLD"
           /\ \A d \in Channel \ {c} :
                 \/ /\ State(d) \notin TerminalTruth
                    /\ world'.lines[d] = [world.lines[d] EXCEPT !.state = "RETRACTING"]
                    /\ State(d)' = "RETRACTING"
                 \/ /\ State(d) \in TerminalTruth
                    /\ world'.lines[d] = world.lines[d]
                    /\ State(d)' = State(d)
  <1>1. world'.lines[c] = [world.lines[c] EXCEPT !.state = "SOLD"]
    BY DEF Won, WonLines
  <1>2. State(c)' = "SOLD"
    BY <1>1, LineFields DEF State, Line
  <1>3. ASSUME NEW d \in Channel \ {c}, State(d) \notin TerminalTruth
        PROVE  /\ world'.lines[d] = [world.lines[d] EXCEPT !.state = "RETRACTING"]
               /\ State(d)' = "RETRACTING"
    <2>1. world'.lines[d] = [world.lines[d] EXCEPT !.state = "RETRACTING"]
      BY <1>3 DEF Won, WonLines
    <2> QED BY <2>1, LineFields DEF State, Line
  <1>4. ASSUME NEW d \in Channel \ {c}, State(d) \in TerminalTruth
        PROVE  world'.lines[d] = world.lines[d] /\ State(d)' = State(d)
    BY <1>4 DEF Won, WonLines, State
  <1> QED BY <1>1, <1>2, <1>3, <1>4

\* The line of a sale that loses is OVERSOLD; the other lines do not move.
LEMMA LostLines ==
    ASSUME TypeOK, NEW c \in Channel, Lost(c)
    PROVE  /\ world'.lines[c] = [world.lines[c] EXCEPT !.state = "OVERSOLD"]
           /\ State(c)' = "OVERSOLD"
           /\ \A d \in Channel \ {c} : world'.lines[d] = world.lines[d]
  <1>1. DOMAIN world.lines = Channel
    BY DEF TypeOK, World
  <1>2. world'.lines[c] = [world.lines[c] EXCEPT !.state = "OVERSOLD"]
    BY <1>1 DEF Lost
  <1>3. \A d \in Channel \ {c} : world'.lines[d] = world.lines[d]
    BY <1>1 DEF Lost
  <1>4. State(c)' = "OVERSOLD"
    BY <1>2, LineFields DEF State, Line
  <1> QED BY <1>2, <1>3, <1>4

-----------------------------------------------------------------------------
(* The type invariant. *)

LEMMA AlarmIsEffects ==
    \A c \in Channel : Alarm(c) \subseteq Effect
  BY DEF Alarm, Effect

LEMMA InitType == Init => TypeOK
  <1> SUFFICES ASSUME Init PROVE TypeOK
    OBVIOUS
  <1>1. PICK s \in Initial :
          world = [lines |-> [c \in Channel |-> [state |-> s, attempts |-> 0, epoch |-> 0]],
                   sale |-> NoSale, seenEventKeys |-> {}]
    BY DEF Init
  <1>2. [state |-> s, attempts |-> 0, epoch |-> 0] \in Line
    BY SyncAssumption DEF Line
  <1> QED BY <1>1, <1>2 DEF Init, TypeOK, World

\* Lines that stay lines, a sale, keys and effects make the next state typed.
LEMMA TypeStep ==
    ASSUME TypeOK, Effected
    PROVE  TypeOK'
  <1>1. world'.lines \in [Channel -> Line] /\ world'.sale \in SaleFact \cup {NoSale}
           /\ effects' \subseteq Effect
    <2>1. CASE Quiet
      BY <2>1 DEF Quiet, TypeOK, World
    <2>2. ASSUME NEW c \in Channel,
                 NEW kind \in EventKind \cup OutcomeKind \cup CommandKind \cup TimerKind,
                 NEW to \in ChannelState, Followed(c, kind, to)
          PROVE  world'.lines \in [Channel -> Line] /\ world'.sale \in SaleFact \cup {NoSale}
                    /\ effects' \subseteq Effect
      <3>1. world'.lines[c] = Moved(world.lines[c], kind, to)
        BY <2>2 DEF Followed, TypeOK, World
      <3>2. world'.lines[c].attempts <= MaxAttempts /\ world'.lines[c].epoch <= MaxEpoch
        BY DEF Effected, Bounded
      <3>3. Moved(world.lines[c], kind, to) \in Line
        <4> DEFINE m == Moved(world.lines[c], kind, to)
        <4>1. m.attempts \in Nat /\ m.epoch \in Nat
          BY LineFields, SyncAssumption DEF Moved
        <4>2. m.attempts \in 0 .. MaxAttempts /\ m.epoch \in 0 .. MaxEpoch
          BY <3>1, <3>2, <4>1, SyncAssumption
        <4>3. m = [state |-> to, attempts |-> m.attempts, epoch |-> m.epoch]
          BY DEF Moved
        <4> QED BY <4>2, <4>3 DEF Line
      <3>4. world'.lines \in [Channel -> Line]
        BY <2>2, <3>3 DEF Followed, TypeOK, World
      <3> QED BY <2>2, <3>4, AlarmIsEffects DEF Followed, TypeOK, World
    <2>3. ASSUME NEW c \in Channel, NEW key \in EventKey, Won(c, key)
          PROVE  world'.lines \in [Channel -> Line] /\ world'.sale \in SaleFact \cup {NoSale}
                    /\ effects' \subseteq Effect
      <3>1. ASSUME NEW d \in Channel
            PROVE  /\ [world.lines[d] EXCEPT !.state = "SOLD"] \in Line
                   /\ [world.lines[d] EXCEPT !.state = "RETRACTING"] \in Line
                   /\ world.lines[d] \in Line
        BY LineFields DEF Line, ChannelState
      <3>2. WonLines(c) \in [Channel -> Line]
        BY <3>1 DEF WonLines
      <3>3. WonEffects(c) \subseteq Effect
        BY DEF WonEffects, Effect
      <3>4. [channel |-> c, eventKey |-> key] \in SaleFact
        BY DEF SaleFact
      <3> QED BY <2>3, <3>2, <3>3, <3>4 DEF Won, TypeOK
    <2>4. ASSUME NEW c \in Channel, Lost(c)
          PROVE  world'.lines \in [Channel -> Line] /\ world'.sale \in SaleFact \cup {NoSale}
                    /\ effects' \subseteq Effect
      <3>1. [world.lines[c] EXCEPT !.state = "OVERSOLD"] \in Line
        BY LineFields DEF Line, ChannelState
      <3>2. world'.lines \in [Channel -> Line]
        BY <2>4, <3>1 DEF Lost, TypeOK, World
      <3> QED BY <2>4, <3>2, AlarmIsEffects DEF Lost, TypeOK, World
    <2> QED BY <2>1, <2>2, <2>3, <2>4 DEF Effected
  <1>2. world' = [lines |-> world'.lines, sale |-> world'.sale,
                  seenEventKeys |-> world'.seenEventKeys]
           /\ world'.seenEventKeys \in SUBSET (Channel \X EventKey)
    BY DEF Effected, Shape
  <1> QED BY <1>1, <1>2 DEF TypeOK, World

-----------------------------------------------------------------------------
(* The other conjuncts of the inductive invariant. *)

\* A winning sale and its SOLD line are written together; nothing unwrites them.
LEMMA SaleStep ==
    ASSUME TypeOK, SaleIsTheSoldLine, Effected
    PROVE  SaleIsTheSoldLine'
  <1> USE DEF SaleIsTheSoldLine, SoldLines, State
  <1>1. CASE Quiet
    BY <1>1 DEF Quiet
  <1>2. ASSUME NEW c \in Channel, NEW kind, NEW to, Followed(c, kind, to)
        PROVE  SaleIsTheSoldLine'
    <2>1. State(c) # "SOLD" /\ to # "SOLD"
      BY <1>2, EdgeFacts DEF Followed, TerminalTruth
    <2>2. SoldLines' = SoldLines
      BY <1>2, <2>1, FollowedLines
    <2> QED BY <1>2, <2>2 DEF Followed
  <1>3. ASSUME NEW c \in Channel, NEW key \in EventKey, Won(c, key)
        PROVE  SaleIsTheSoldLine'
    <2>1. \A d \in Channel : State(d) # "SOLD"
      BY <1>3 DEF Won
    <2>2. \A d \in Channel \ {c} : State(d)' # "SOLD"
      BY <1>3, <2>1, WonLinesFacts
    <2>3. SoldLines' = {c}
      BY <1>3, <2>2, WonLinesFacts
    <2>4. world'.sale # NoSale /\ world'.sale.channel = c
      BY <1>3, SyncAssumption DEF Won, SaleFact
    <2> QED BY <2>3, <2>4
  <1>4. ASSUME NEW c \in Channel, Lost(c)
        PROVE  SaleIsTheSoldLine'
    <2>1. State(c) # "SOLD"
      BY <1>4 DEF Lost, Arbitrated
    <2>2. SoldLines' = SoldLines
      BY <1>4, <2>1, LostLines
    <2> QED BY <1>4, <2>2 DEF Lost
  <1> QED BY <1>1, <1>2, <1>3, <1>4 DEF Effected

\* Behind a sale a line only moves further behind.
LEMMA BehindStep ==
    ASSUME TypeOK, SaleIsTheSoldLine, NothingElseOnSale, Effected
    PROVE  NothingElseOnSale'
  <1>1. CASE Quiet
    BY <1>1 DEF Quiet, NothingElseOnSale, State
  <1>2. ASSUME NEW c \in Channel, NEW kind, NEW to, Followed(c, kind, to)
        PROVE  NothingElseOnSale'
    <2> SUFFICES ASSUME world'.sale # NoSale, NEW d \in Channel \ {world'.sale.channel}
                 PROVE  State(d)' \in Behind
      BY DEF NothingElseOnSale
    <2>1. State(d) \in Behind
      BY <1>2 DEF Followed, NothingElseOnSale
    <2>2. CASE d = c
      BY <1>2, <2>1, <2>2, EdgeFacts, FollowedLines DEF Followed
    <2>3. CASE d # c
      BY <1>2, <2>1, <2>3, FollowedLines DEF State
    <2> QED BY <2>2, <2>3
  <1>3. ASSUME NEW c \in Channel, NEW key \in EventKey, Won(c, key)
        PROVE  NothingElseOnSale'
    <2>1. world'.sale.channel = c
      BY <1>3 DEF Won
    <2>2. ASSUME NEW d \in Channel \ {c} PROVE State(d)' \in Behind
      <3>1. State(d) # "SOLD"
        BY <1>3 DEF Won, SaleIsTheSoldLine, SoldLines, State
      <3> QED BY <1>3, <3>1, WonLinesFacts DEF Behind, TerminalTruth
    <2> QED BY <2>1, <2>2 DEF NothingElseOnSale
  <1>4. ASSUME NEW c \in Channel, Lost(c)
        PROVE  NothingElseOnSale'
    <2> SUFFICES ASSUME world'.sale # NoSale, NEW d \in Channel \ {world'.sale.channel}
                 PROVE  State(d)' \in Behind
      BY DEF NothingElseOnSale
    <2>1. State(d) \in Behind
      BY <1>4 DEF Lost, NothingElseOnSale
    <2>2. CASE d = c
      BY <1>4, <2>2, LostLines DEF Behind
    <2>3. CASE d # c
      BY <1>4, <2>1, <2>3, LostLines DEF State
    <2> QED BY <2>2, <2>3
  <1> QED BY <1>1, <1>2, <1>3, <1>4 DEF Effected

\* A line that needs an alarm or a retraction got it by the step that put it there.
LEMMA EffectsStep ==
    ASSUME TypeOK, EffectsAreComplete, Effected
    PROVE  EffectsAreComplete'
  <1> DEFINE Intent(d) == [kind |-> "RETRACT_INTENT", channel |-> d]
             Told(d) == /\ State(d) \in {"DIRTY", "OVERSOLD"} => Alarm(d) \subseteq effects
                        /\ world.sale # NoSale /\ State(d) \notin TerminalTruth
                              => Intent(d) \in effects
  <1>1. \A d \in Channel : Told(d)
    BY DEF EffectsAreComplete, State
  <1>2. (\A d \in Channel : Told(d)') => EffectsAreComplete'
    BY DEF EffectsAreComplete, State
  <1>3. CASE Quiet
    BY <1>1, <1>2, <1>3 DEF Quiet, State
  <1>4. ASSUME NEW c \in Channel, NEW kind, NEW to, Followed(c, kind, to)
        PROVE  EffectsAreComplete'
    <2>1. Told(c)'
      <3>1. State(c) \notin TerminalTruth /\ to # "OVERSOLD"
        BY <1>4, EdgeFacts DEF Followed
      <3>2. State(c)' = to /\ world'.sale = world.sale /\ effects \subseteq effects'
               /\ (to = "DIRTY" => Alarm(c) \subseteq effects')
        BY <1>4, FollowedLines DEF Followed
      <3> QED BY <1>1, <3>1, <3>2
    <2>2. ASSUME NEW d \in Channel \ {c} PROVE Told(d)'
      BY <1>1, <1>4, FollowedLines DEF Followed, State
    <2> QED BY <1>2, <2>1, <2>2
  <1>5. ASSUME NEW c \in Channel, NEW key \in EventKey, Won(c, key)
        PROVE  EffectsAreComplete'
    <2>1. Told(c)'
      BY <1>5, WonLinesFacts DEF TerminalTruth
    <2>2. ASSUME NEW d \in Channel \ {c} PROVE Told(d)'
      <3>1. CASE State(d) \in TerminalTruth
        BY <1>5, <3>1, WonLinesFacts DEF TerminalTruth
      <3>2. CASE State(d) \notin TerminalTruth
        <4>1. State(d)' = "RETRACTING"
          BY <1>5, <3>2, WonLinesFacts
        <4>2. Intent(d) \in effects'
          BY <1>5, <3>2 DEF Won, WonEffects
        <4> QED BY <4>1, <4>2
      <3> QED BY <3>1, <3>2
    <2> QED BY <1>2, <2>1, <2>2
  <1>6. ASSUME NEW c \in Channel, Lost(c)
        PROVE  EffectsAreComplete'
    <2>1. Told(c)'
      <3>1. State(c) \notin TerminalTruth
        BY <1>6 DEF Lost, Arbitrated, TerminalTruth
      <3>2. effects \subseteq effects' /\ Alarm(c) \subseteq effects' /\ world'.sale = world.sale
               /\ world.sale # NoSale
        BY <1>6 DEF Lost
      <3> QED BY <1>1, <3>1, <3>2
    <2>2. ASSUME NEW d \in Channel \ {c} PROVE Told(d)'
      BY <1>1, <1>6, LostLines DEF Lost, State
    <2> QED BY <1>2, <2>1, <2>2
  <1> QED BY <1>3, <1>4, <1>5, <1>6 DEF Effected

\* The inductive invariant holds in every world that is created.
LEMMA InitSInv == Init => SInv
  <1> SUFFICES ASSUME Init PROVE SInv
    OBVIOUS
  <1>1. TypeOK
    BY InitType
  <1>2. world.sale = NoSale /\ \A c \in Channel : State(c) \in Initial
    BY DEF Init, State
  <1>3. \A c \in Channel : State(c) \notin {"SOLD", "OVERSOLD", "DIRTY"}
    BY <1>2, SyncAssumption DEF TerminalTruth
  <1> QED BY <1>1, <1>2, <1>3
          DEF SInv, SaleIsTheSoldLine, SoldLines, NothingElseOnSale, EffectsAreComplete, State

\* It is preserved by every step.
LEMMA NextSInv == SInv /\ [Next]_vars => SInv'
  <1> SUFFICES ASSUME SInv, [Next]_vars PROVE SInv'
    OBVIOUS
  <1>1. CASE Next
    <2>1. Effected
      BY <1>1, StepCases DEF SInv
    <2> QED BY <2>1, TypeStep, SaleStep, BehindStep, EffectsStep DEF SInv
  <1>2. CASE UNCHANGED vars
    BY <1>2 DEF SInv, vars, TypeOK, SaleIsTheSoldLine, SoldLines, NothingElseOnSale,
                EffectsAreComplete, State
  <1> QED BY <1>1, <1>2

LEMMA SpecSInv == Spec => []SInv
  BY InitSInv, NextSInv, PTL DEF Spec

-----------------------------------------------------------------------------
(* The theorems. *)

(* Whatever inputs the reducer is fed, for any channels and event keys, its  *)
(* world is a World and its effects are Effects.                             *)
THEOREM SyncTypeCorrect == Spec => []TypeOK
  <1>1. SInv => TypeOK
    BY DEF SInv
  <1> QED BY <1>1, SpecSInv, PTL

(* INV-18: the recorded sale and the SOLD line are one fact, whatever sales  *)
(* race (arbitrateSale).                                                     *)
THEOREM SaleIsRecorded == Spec => []SaleIsTheSoldLine
  <1>1. SInv => SaleIsTheSoldLine
    BY DEF SInv
  <1> QED BY <1>1, SpecSInv, PTL

(* INV-19, INV-25: every line behind a sale was told to retract, and every  *)
(* DIRTY or OVERSOLD line raised its incident (arbitrateSale, transition).  *)
THEOREM NoEffectIsLost == Spec => []EffectsAreComplete
  <1>1. SInv => EffectsAreComplete
    BY DEF SInv
  <1> QED BY <1>1, SpecSInv, PTL

\* One step leaves the lines that are over as they are.
LEMMA TerminalStep ==
    ASSUME TypeOK, Effected, NEW d \in Channel, State(d) \in TerminalTruth
    PROVE  world'.lines[d] = world.lines[d]
  <1>1. CASE Quiet
    BY <1>1 DEF Quiet
  <1>2. ASSUME NEW c \in Channel, NEW kind, NEW to, Followed(c, kind, to)
        PROVE  world'.lines[d] = world.lines[d]
    <2>1. d # c
      BY <1>2, EdgeFacts DEF Followed
    <2> QED BY <1>2, <2>1, FollowedLines
  <1>3. ASSUME NEW c \in Channel, NEW key \in EventKey, Won(c, key)
        PROVE  world'.lines[d] = world.lines[d]
    <2>1. d # c
      BY <1>3 DEF Won, Arbitrated, TerminalTruth
    <2> QED BY <1>3, <2>1, WonLinesFacts
  <1>4. ASSUME NEW c \in Channel, Lost(c)
        PROVE  world'.lines[d] = world.lines[d]
    <2>1. d # c
      BY <1>4 DEF Lost, Arbitrated, TerminalTruth
    <2> QED BY <1>4, <2>1, LostLines
  <1> QED BY <1>1, <1>2, <1>3, <1>4 DEF Effected

(* INV-24: a line that is SOLD, ENDED or RETRACTED never moves again, for    *)
(* any input and through any cascade.                                        *)
THEOREM TerminalsAreFinal == Spec => TerminalsAbsorb
  <1>1. SInv /\ [Next]_vars
           => [\A c \in Channel : world.lines[c].state \in TerminalTruth
                                     => world'.lines[c] = world.lines[c]]_vars
    <2> SUFFICES ASSUME SInv, Next, NEW c \in Channel, State(c) \in TerminalTruth
                 PROVE  world'.lines[c] = world.lines[c]
      BY DEF State
    <2> QED BY StepCases, TerminalStep DEF SInv
  <1> QED BY <1>1, SpecSInv, PTL DEF Spec, TerminalsAbsorb

\* Once the object is sold, no channel has it for sale.
LEMMA SoldClosesTheShop ==
    ASSUME SaleIsTheSoldLine, NothingElseOnSale, world.sale # NoSale
    PROVE  MaySell = {}
  BY DEF SaleIsTheSoldLine, NothingElseOnSale, SoldLines, MaySell, Behind, State

(* INV-18, INV-2: the reducer implements OneSale: the object is sold once,   *)
(* and no step puts it back on sale on another channel.                      *)
THEOREM ObjectIsSoldOnce == Spec => SoldOnce
  <1> DEFINE w == IF world.sale = NoSale THEN NoSale ELSE world.sale.channel
  <1>1. Init => Outcome!Init
    BY DEF Init, Outcome!Init, MaySell
  <1>2. SInv /\ SInv' /\ [Next]_vars => [Outcome!Next]_<<w, MaySell>>
    <2> SUFFICES ASSUME SInv, SInv', [Next]_vars
                 PROVE  Outcome!Next \/ (w' = w /\ MaySell' = MaySell)
      OBVIOUS
    <2>1. CASE UNCHANGED vars
      BY <2>1 DEF vars, MaySell
    <2>2. CASE Next
      <3>1. Effected
        BY <2>2, StepCases DEF SInv
      <3>2. CASE world'.sale = world.sale /\ world.sale = NoSale
        <4>1. MaySell' \in SUBSET Channel
          BY DEF MaySell
        <4> QED BY <3>2, <4>1 DEF Outcome!Next, Outcome!Browse
      <3>3. CASE world'.sale = world.sale /\ world.sale # NoSale
        <4>1. MaySell = {}
          BY <3>3, SoldClosesTheShop DEF SInv
        <4>2. MaySell' = {}
          BY <3>3, SoldClosesTheShop DEF SInv, SaleIsTheSoldLine, NothingElseOnSale,
             SoldLines, MaySell, Behind, State
        <4> QED BY <3>3, <4>1, <4>2
      <3>4. CASE world'.sale # world.sale
        <4>1. PICK c \in Channel, key \in EventKey : Won(c, key)
          BY <3>1, <3>4 DEF Effected, Quiet, Followed, Lost
        <4>2. world.sale = NoSale /\ world'.sale # NoSale /\ world'.sale.channel = c
          BY <4>1, SyncAssumption DEF Won, SaleFact
        <4>3. MaySell' = {}
          BY <4>2 DEF SInv, SaleIsTheSoldLine, NothingElseOnSale, SoldLines, MaySell,
                      Behind, State
        <4> QED BY <4>2, <4>3 DEF Outcome!Next, Outcome!Sell
      <3> QED BY <3>2, <3>3, <3>4
    <2> QED BY <2>1, <2>2
  <1> QED BY <1>1, <1>2, SpecSInv, PTL DEF Spec, SoldOnce, Outcome!Spec

-----------------------------------------------------------------------------
(* Two events in either order.  On lines that are published, being          *)
(* retracted or over, an event that is not a sale ends its line or does     *)
(* nothing; a sale wins over lines that are not over, and takes the rest    *)
(* down.  Each is a function of the states, and the functions commute.      *)

Calm(w) ==
    \A c \in Channel : w.lines[c].state \in {"PUBLISHED", "RETRACTING"} \cup TerminalTruth

IsNew(w, i) == i.channel \in Channel /\ <<i.channel, i.eventKey>> \notin w.seenEventKeys

AfterEvent(s, kind) ==
    IF kind \notin {"LISTING_ENDED", "RETRACT_CONFIRMED"} THEN s
    ELSE IF s = "PUBLISHED" THEN "ENDED"
    ELSE IF s = "RETRACTING" THEN "RETRACTED"
    ELSE s

AfterSale(w, c, e) ==
    IF w.lines[c].state \in TerminalTruth \/ (e # c /\ w.lines[e].state \in TerminalTruth)
    THEN w.lines[e].state
    ELSE IF e = c THEN "SOLD" ELSE "RETRACTING"

LEMMA WorldFields ==
    ASSUME NEW w \in World
    PROVE  /\ w = [lines |-> w.lines, sale |-> w.sale, seenEventKeys |-> w.seenEventKeys]
           /\ w.lines \in [Channel -> Line] /\ w.sale \in SaleFact \cup {NoSale}
           /\ w.seenEventKeys \in SUBSET (Channel \X EventKey)
           /\ \A c \in Channel :
                 /\ w.lines[c] \in Line /\ w.lines[c].state \in ChannelState
                 /\ w.lines[c].attempts \in 0 .. MaxAttempts
                 /\ w.lines[c].epoch \in 0 .. MaxEpoch
  BY DEF World, Line

LEMMA EdgesOfCalmLines ==
    ASSUME NEW s \in {"PUBLISHED", "RETRACTING"} \cup TerminalTruth,
           NEW kind \in EventKind \ {"SOLD"}, NEW to
    PROVE  <<s, kind, to>> \in Edge <=> to = AfterEvent(s, kind) /\ to # s
  <1> USE DEF Edge, FromQueued, FromSubmitted, FromPublished, FromRetracting, FromDirty,
              FromFailed, FromOversold, TerminalTruth, EventKind, AfterEvent
  <1>1. CASE s = "PUBLISHED" BY <1>1
  <1>2. CASE s = "RETRACTING" BY <1>2
  <1>3. CASE s \in TerminalTruth BY <1>3
  <1> QED BY <1>1, <1>2, <1>3

\* An event that is not a sale ends its line, or only marks its key.
LEMMA PlainEvent ==
    ASSUME NEW w \in World, Calm(w), NEW i \in Event, i.kind # "SOLD", IsNew(w, i)
    PROVE  LET r == Step(w, i).world
           IN /\ r \in World /\ Calm(r) /\ r.sale = w.sale
              /\ r.seenEventKeys = w.seenEventKeys \cup {<<i.channel, i.eventKey>>}
              /\ r.lines[i.channel].state = AfterEvent(w.lines[i.channel].state, i.kind)
              /\ \A e \in Channel \ {i.channel} : r.lines[e].state = w.lines[e].state
  <1> DEFINE c == i.channel
             k == i.kind
             s == w.lines[c].state
             t == Transition(w, i)
             r == Step(w, i).world
             next == {to \in ChannelState : <<s, k, to>> \in Edge}
  <1>1. /\ c \in Channel /\ k \in EventKind \ {"SOLD"} /\ i.eventKey \in EventKey
        /\ <<c, i.eventKey>> \notin w.seenEventKeys
    BY DEF Event, IsNew
  <1>2. s \in {"PUBLISHED", "RETRACTING"} \cup TerminalTruth BY <1>1 DEF Calm
  <1>3. \A to : <<s, k, to>> \in Edge <=> to = AfterEvent(s, k) /\ to # s
    BY <1>1, <1>2, EdgesOfCalmLines
  <1>4. AfterEvent(s, k) \in {"PUBLISHED", "RETRACTING"} \cup TerminalTruth
        /\ AfterEvent(s, k) \in ChannelState
    BY <1>2 DEF AfterEvent, TerminalTruth, ChannelState
  <1>5. Step(w, i) = [t EXCEPT !.world.seenEventKeys = @ \cup {<<c, i.eventKey>>}]
    BY <1>1 DEF Step
  <1>6. t = IF next # {} THEN Follow(w, c, k, CHOOSE to \in next : TRUE) ELSE Result(w, {})
    BY <1>1 DEF Transition
  <1>7. CASE AfterEvent(s, k) = s
    <2>1. next = {} BY <1>3, <1>7
    <2>2. t = [world |-> w, effects |-> {}] BY <1>6, <2>1 DEF Result
    <2>3. r = [w EXCEPT !.seenEventKeys = @ \cup {<<c, i.eventKey>>}] BY <1>5, <2>2
    <2> HIDE DEF r
    <2>4. r = [lines |-> w.lines, sale |-> w.sale,
               seenEventKeys |-> w.seenEventKeys \cup {<<c, i.eventKey>>}]
      <3>1. w = [lines |-> w.lines, sale |-> w.sale, seenEventKeys |-> w.seenEventKeys]
        BY WorldFields
      <3> QED BY <2>3, <3>1
    <2>5. r \in World BY <1>1, <2>4, WorldFields DEF World
    <2> QED BY <1>7, <2>4, <2>5 DEF Calm, r
  <1>8. CASE AfterEvent(s, k) # s
    <2> DEFINE a == AfterEvent(s, k)
    <2>1. next = {a} BY <1>3, <1>4, <1>8
    <2>2. t = Follow(w, c, k, a) BY <1>6, <2>1
    <2> DEFINE m == [w EXCEPT !.lines[c] = Moved(@, k, a)]
    <2>3. \E fx : t = [world |-> m, effects |-> fx] BY <2>2 DEF Follow, Result
    <2>4. r = [m EXCEPT !.seenEventKeys = @ \cup {<<c, i.eventKey>>}]
      <3>1. PICK fx : t = [world |-> m, effects |-> fx] BY <2>3
      <3> HIDE DEF t, m
      <3>2. [t EXCEPT !.world.seenEventKeys = @ \cup {<<c, i.eventKey>>}].world
              = [m EXCEPT !.seenEventKeys = @ \cup {<<c, i.eventKey>>}]
        BY <3>1
      <3> QED BY <1>5, <3>2
    <2>5. m = [lines |-> [w.lines EXCEPT ![c] = Moved(@, k, a)], sale |-> w.sale,
               seenEventKeys |-> w.seenEventKeys]
      BY WorldFields
    <2> HIDE DEF r, m
    <2>6. r = [lines |-> [w.lines EXCEPT ![c] = Moved(@, k, a)], sale |-> w.sale,
               seenEventKeys |-> w.seenEventKeys \cup {<<c, i.eventKey>>}]
      BY <2>4, <2>5
    <2>7. Moved(w.lines[c], k, a) = [state |-> a, attempts |-> w.lines[c].attempts,
                                     epoch |-> w.lines[c].epoch]
      BY <1>1 DEF Moved, Transient, EventKind
    <2>8. Moved(w.lines[c], k, a) \in Line /\ Moved(w.lines[c], k, a).state = a
      BY <1>1, <1>4, <2>7, WorldFields DEF Line
    <2> HIDE DEF a
    <2>9. /\ r.lines[c].state = a /\ \A e \in Channel \ {c} : r.lines[e] = w.lines[e]
          /\ r.lines \in [Channel -> Line]
      BY <1>1, <2>6, <2>8, WorldFields
    <2>10. r \in World BY <1>1, <2>6, <2>9, WorldFields DEF World
    <2>11. Calm(r) BY <1>4, <2>9 DEF Calm, a
    <2> QED BY <2>6, <2>9, <2>10, <2>11 DEF a, r
  <1> QED BY <1>7, <1>8

\* The first sale wins on a line that is not over.
LEMMA FirstSale ==
    ASSUME NEW w \in World, Calm(w), w.sale = NoSale,
           NEW j \in Event, j.kind = "SOLD", IsNew(w, j)
    PROVE  LET r == Step(w, j).world
           IN /\ r \in World /\ Calm(r)
              /\ r.sale # NoSale <=> w.lines[j.channel].state \notin TerminalTruth
              /\ r.seenEventKeys = w.seenEventKeys \cup {<<j.channel, j.eventKey>>}
              /\ \A e \in Channel : r.lines[e].state = AfterSale(w, j.channel, e)
  <1> DEFINE c == j.channel
             s == w.lines[c].state
             t == Transition(w, j)
             r == Step(w, j).world
             seen == w.seenEventKeys \cup {<<c, j.eventKey>>}
  <1>1. c \in Channel /\ j.eventKey \in EventKey /\ <<c, j.eventKey>> \notin w.seenEventKeys
    BY DEF Event, IsNew
  <1>2. s \in {"PUBLISHED", "RETRACTING"} \cup TerminalTruth BY <1>1 DEF Calm
  <1>3. Step(w, j) = [t EXCEPT !.world.seenEventKeys = @ \cup {<<c, j.eventKey>>}]
    BY <1>1 DEF Step, EventKind
  <1>4. CASE s \in TerminalTruth
    <2>1. s \notin Arbitrated BY <1>4 DEF Arbitrated, TerminalTruth
    <2>2. \A to : <<s, "SOLD", to>> \notin Edge
      BY DEF Edge, FromQueued, FromSubmitted, FromPublished, FromRetracting, FromDirty,
             FromFailed, FromOversold
    <2>3. t = [world |-> w, effects |-> {}] BY <2>1, <2>2 DEF Transition, Result
    <2>4. r = [w EXCEPT !.seenEventKeys = @ \cup {<<c, j.eventKey>>}] BY <1>3, <2>3
    <2> HIDE DEF r
    <2>5. r = [lines |-> w.lines, sale |-> w.sale, seenEventKeys |-> seen]
      BY <2>4, WorldFields
    <2>6. r \in World BY <1>1, <2>5, WorldFields DEF World
    <2>7. \A e \in Channel : AfterSale(w, c, e) = w.lines[e].state BY <1>4 DEF AfterSale
    <2> QED BY <1>4, <2>5, <2>6, <2>7 DEF Calm, r
  <1>5. CASE s \notin TerminalTruth
    <2>1. s \in Arbitrated BY <1>2, <1>5 DEF Arbitrated
    <2>2. t = Win(w, c, j.eventKey) BY <2>1 DEF Transition, ArbitrateSale
    <2> DEFINE ls == [d \in Channel |->
                        IF d = c THEN [w.lines[d] EXCEPT !.state = "SOLD"]
                        ELSE IF d \in Cascaded(w, c)
                             THEN [w.lines[d] EXCEPT !.state = "RETRACTING"]
                             ELSE w.lines[d]]
               fact == [channel |-> c, eventKey |-> j.eventKey]
               m == [lines |-> ls, sale |-> fact, seenEventKeys |-> w.seenEventKeys]
    <2>3. \E fx : t = [world |-> m, effects |-> fx] BY <2>2 DEF Win, Result
    <2>4. r = [m EXCEPT !.seenEventKeys = @ \cup {<<c, j.eventKey>>}]
      <3>1. PICK fx : t = [world |-> m, effects |-> fx] BY <2>3
      <3> HIDE DEF t, m
      <3>2. [t EXCEPT !.world.seenEventKeys = @ \cup {<<c, j.eventKey>>}].world
              = [m EXCEPT !.seenEventKeys = @ \cup {<<c, j.eventKey>>}]
        BY <3>1
      <3> QED BY <1>3, <3>2
    <2> HIDE DEF r, ls, fact
    <2>5. r = [lines |-> ls, sale |-> fact, seenEventKeys |-> seen] BY <2>4
    <2>6. fact \in SaleFact /\ fact # NoSale BY <1>1, SyncAssumption DEF fact, SaleFact
    <2>7. \A e \in Channel :
             /\ ls[e] \in Line
             /\ ls[e].state = AfterSale(w, c, e)
      <3> TAKE e \in Channel
      <3>1. w.lines[e] \in Line BY WorldFields
      <3>2. CASE e = c
        BY <1>5, <3>1, <3>2 DEF ls, Line, ChannelState, AfterSale
      <3>3. CASE e # c /\ w.lines[e].state \in TerminalTruth
        BY <1>5, <3>1, <3>3 DEF ls, Cascaded, AfterSale
      <3>4. CASE e # c /\ w.lines[e].state \notin TerminalTruth
        BY <1>5, <3>1, <3>4 DEF ls, Cascaded, Line, ChannelState, AfterSale
      <3> QED BY <3>2, <3>3, <3>4
    <2>8. ls \in [Channel -> Line]
      <3>1. ls = [e \in Channel |-> ls[e]] BY DEF ls
      <3> QED BY <2>7, <3>1
    <2>9. r \in World BY <1>1, <2>5, <2>6, <2>8, WorldFields DEF World
    <2>10. Calm(r) BY <2>5, <2>7 DEF Calm, AfterSale, TerminalTruth
    <2> QED BY <1>5, <2>5, <2>6, <2>7, <2>9, <2>10 DEF r
  <1> QED BY <1>4, <1>5

\* Two worlds of the same states but for the terminals have the same verdict.
LEMMA SameVerdict ==
    ASSUME NEW v, NEW w, v.sale # NoSale <=> w.sale # NoSale,
           \A e \in Channel : \/ v.lines[e].state = w.lines[e].state
                              \/ {v.lines[e].state, w.lines[e].state} \subseteq TerminalTruth
    PROVE  Verdict(v) = Verdict(w)
  BY DEF Verdict

\* Events of two keys, of which one at most is a sale, on another line.
LEMMA TwoEvents ==
    ASSUME NEW w \in World, Calm(w), NEW i \in Event, NEW j \in Event,
           IsNew(w, i), IsNew(w, j), i.kind # "SOLD",
           j.kind = "SOLD" => w.sale = NoSale /\ i.channel # j.channel,
           <<i.channel, i.eventKey>> # <<j.channel, j.eventKey>>
    PROVE  Verdict(Step(Step(w, i).world, j).world) = Verdict(Step(Step(w, j).world, i).world)
  <1> DEFINE wi == Step(w, i).world
             wj == Step(w, j).world
             wij == Step(wi, j).world
             wji == Step(wj, i).world
  <1>1. /\ wi \in World /\ Calm(wi) /\ wi.sale = w.sale
        /\ wi.seenEventKeys = w.seenEventKeys \cup {<<i.channel, i.eventKey>>}
        /\ wi.lines[i.channel].state = AfterEvent(w.lines[i.channel].state, i.kind)
        /\ \A e \in Channel \ {i.channel} : wi.lines[e].state = w.lines[e].state
    BY PlainEvent
  <1>2. i.channel \in Channel /\ j.channel \in Channel /\ IsNew(wi, j) BY <1>1 DEF IsNew
  <1>3. CASE j.kind # "SOLD"
    <2>1. /\ wj \in World /\ Calm(wj) /\ wj.sale = w.sale
          /\ wj.seenEventKeys = w.seenEventKeys \cup {<<j.channel, j.eventKey>>}
          /\ wj.lines[j.channel].state = AfterEvent(w.lines[j.channel].state, j.kind)
          /\ \A e \in Channel \ {j.channel} : wj.lines[e].state = w.lines[e].state
      BY <1>3, PlainEvent
    <2>2. IsNew(wj, i) BY <2>1 DEF IsNew
    <2> HIDE DEF wi, wj
    <2>3. /\ wij.sale = wi.sale
          /\ wij.lines[j.channel].state = AfterEvent(wi.lines[j.channel].state, j.kind)
          /\ \A e \in Channel \ {j.channel} : wij.lines[e].state = wi.lines[e].state
      BY <1>1, <1>2, <1>3, PlainEvent
    <2>4. /\ wji.sale = wj.sale
          /\ wji.lines[i.channel].state = AfterEvent(wj.lines[i.channel].state, i.kind)
          /\ \A e \in Channel \ {i.channel} : wji.lines[e].state = wj.lines[e].state
      BY <2>1, <2>2, PlainEvent
    <2> HIDE DEF wij, wji
    <2>5. ASSUME NEW e \in Channel
          PROVE  \/ wij.lines[e].state = wji.lines[e].state
                 \/ {wij.lines[e].state, wji.lines[e].state} \subseteq TerminalTruth
      <3>1. CASE e # i.channel \/ e # j.channel BY <1>1, <1>2, <2>1, <2>3, <2>4, <3>1
      <3>2. CASE e = i.channel /\ e = j.channel
        <4> DEFINE s == w.lines[e].state
        <4>1. s \in {"PUBLISHED", "RETRACTING"} \cup TerminalTruth BY DEF Calm
        <4>2. /\ wij.lines[e].state = AfterEvent(AfterEvent(s, i.kind), j.kind)
              /\ wji.lines[e].state = AfterEvent(AfterEvent(s, j.kind), i.kind)
          BY <1>1, <2>1, <2>3, <2>4, <3>2
        <4> HIDE DEF s
        <4> QED BY <4>1, <4>2 DEF AfterEvent, TerminalTruth
      <3> QED BY <3>1, <3>2
    <2>6. wij.sale = wji.sale BY <1>1, <2>1, <2>3, <2>4
    <2>7. Verdict(wij) = Verdict(wji) BY <2>5, <2>6, SameVerdict
    <2> QED BY <2>7 DEF wi, wj, wij, wji
  <1>4. CASE j.kind = "SOLD"
    <2>1. w.sale = NoSale /\ i.channel # j.channel BY <1>4
    <2>2. /\ wj \in World /\ Calm(wj)
          /\ wj.sale # NoSale <=> w.lines[j.channel].state \notin TerminalTruth
          /\ wj.seenEventKeys = w.seenEventKeys \cup {<<j.channel, j.eventKey>>}
          /\ \A e \in Channel : wj.lines[e].state = AfterSale(w, j.channel, e)
      BY <1>4, <2>1, FirstSale
    <2>3. IsNew(wj, i) BY <2>2 DEF IsNew
    <2> HIDE DEF wi, wj
    <2>4. /\ wij.sale # NoSale <=> wi.lines[j.channel].state \notin TerminalTruth
          /\ \A e \in Channel : wij.lines[e].state = AfterSale(wi, j.channel, e)
      BY <1>1, <1>2, <1>4, <2>1, FirstSale
    <2>5. /\ wji.sale = wj.sale
          /\ wji.lines[i.channel].state = AfterEvent(wj.lines[i.channel].state, i.kind)
          /\ \A e \in Channel \ {i.channel} : wji.lines[e].state = wj.lines[e].state
      BY <2>2, <2>3, PlainEvent
    <2> HIDE DEF wij, wji
    <2>6. wi.lines[j.channel].state = w.lines[j.channel].state BY <1>1, <1>2, <2>1
    <2>7. ASSUME NEW e \in Channel
          PROVE  \/ wij.lines[e].state = wji.lines[e].state
                 \/ {wij.lines[e].state, wji.lines[e].state} \subseteq TerminalTruth
      <3>1. CASE e # i.channel
        <4>1. wi.lines[e].state = w.lines[e].state BY <1>1, <3>1
        <4>2. AfterSale(wi, j.channel, e) = AfterSale(w, j.channel, e)
          BY <2>6, <4>1 DEF AfterSale
        <4> QED BY <2>2, <2>4, <2>5, <3>1, <4>2
      <3>2. CASE e = i.channel
        <4> DEFINE s == w.lines[e].state
        <4>1. s \in {"PUBLISHED", "RETRACTING"} \cup TerminalTruth BY DEF Calm
        <4>2. wi.lines[e].state = AfterEvent(s, i.kind) BY <1>1, <3>2
        <4>3. CASE w.lines[j.channel].state \in TerminalTruth
          BY <2>2, <2>4, <2>5, <2>6, <3>2, <4>2, <4>3 DEF AfterSale
        <4>4. CASE w.lines[j.channel].state \notin TerminalTruth
          <5>1. wij.lines[e].state = IF AfterEvent(s, i.kind) \in TerminalTruth
                                     THEN AfterEvent(s, i.kind) ELSE "RETRACTING"
            BY <2>1, <2>4, <2>6, <3>2, <4>2, <4>4 DEF AfterSale
          <5>2. wji.lines[e].state = AfterEvent(IF s \in TerminalTruth THEN s ELSE "RETRACTING",
                                                i.kind)
            BY <2>1, <2>2, <2>5, <3>2, <4>4 DEF AfterSale
          <5> HIDE DEF s
          <5> QED BY <4>1, <5>1, <5>2 DEF AfterEvent, TerminalTruth
        <4> QED BY <4>3, <4>4
      <3> QED BY <3>1, <3>2
    <2>8. wij.sale # NoSale <=> wji.sale # NoSale BY <2>2, <2>4, <2>5, <2>6
    <2>9. Verdict(wij) = Verdict(wji) BY <2>7, <2>8, SameVerdict
    <2> QED BY <2>9 DEF wi, wj, wij, wji
  <1> QED BY <1>3, <1>4

\* On lines that are published, being retracted or over, two events that are
\* delivered in either order leave the same lines on sale and the same verdict on
\* the sale (P-17a of the reducer's property tests).
THEOREM OrderDoesNotMatter == Spec => []EventsCommute
  <1>1. TypeOK => EventsCommute
    <2> SUFFICES ASSUME TypeOK, Calm(world), NEW i \in Fresh, NEW j \in Fresh, Independent(i, j)
                 PROVE  Verdict(Step(Step(world, i).world, j).world)
                          = Verdict(Step(Step(world, j).world, i).world)
      BY DEF EventsCommute, Calm
    <2>1. /\ i \in Event /\ j \in Event /\ IsNew(world, i) /\ IsNew(world, j)
          /\ world \in World
      BY DEF Fresh, IsNew, TypeOK
    <2>2. /\ i.kind # "SOLD"
          /\ j.kind = "SOLD" => world.sale = NoSale /\ i.channel # j.channel
          /\ <<i.channel, i.eventKey>> # <<j.channel, j.eventKey>>
      BY DEF Independent
    <2> QED BY <2>1, <2>2, TwoEvents
  <1> QED BY <1>1, SyncTypeCorrect, PTL
=============================================================================
