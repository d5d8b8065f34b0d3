------------------------------ MODULE Replay_proofs -----------------------------
(***************************************************************************)
(* What reaches the prompt: for every conversation, every mode and every   *)
(* order of clicks, edits and messages, nothing crosses a session of an    *)
(* isolated replay, the full-context reference is whole and no prompt      *)
(* passes its ceiling; and, where the sidebar's requests are served one at *)
(* a time, the evidence of a prompt fits its mode and the sidebar shows    *)
(* the settings that are in force.                                         *)
(***************************************************************************)
EXTENDS Replay, FiniteSetTheorems, WellFoundedInduction, NaturalsInduction, TLAPS

-------------------------------------------------------------------------------
(* The settings.                                                           *)

AnyMode   == Modes \cup {"no_memory"}
FormNames == {"mode", "max", "turns", "window", "memory", "chunk", "knobs"}
KnobValues   == {"default", "tuned", "removed"}
FormType  == [mode : AnyMode, max : Nat, turns : Nat \cup {Unlimited}, window : Nat,
              memory : Nat, chunk : Nat, knobs : [FormKnobs -> KnobValues]]

\* Settings are the functions that give each of the seven fields a value of its type.
LEMMA SettingsFields ==
    ASSUME NEW s, s = [f \in FormNames |-> s[f]],
           s.mode \in AnyMode, s.max \in Nat, s.turns \in Nat \cup {Unlimited},
           s.window \in Nat, s.memory \in Nat, s.chunk \in Nat,
           s.knobs \in [Knobs -> KnobValues]
    PROVE  s \in SettingsType
<1>1. s = [mode |-> s.mode, max |-> s.max, turns |-> s.turns, window |-> s.window,
           memory |-> s.memory, chunk |-> s.chunk, knobs |-> s.knobs]
  BY DEF FormNames
<1>2. QED
  BY <1>1 DEF SettingsType, AnyMode, KnobValues

\* The modes are nine strings, none of which is the alias.
LEMMA ModesAre ==
    /\ Ablations = {"brainos_no_temporal", "brainos_no_relevance", "brainos_no_conflict",
                    "brainos_no_memory"}
    /\ "no_memory" \notin Modes /\ {"full_context", "sliding_window", "brainos"} \subseteq Modes
    /\ \A m \in AnyMode : Resolve(m) \in Modes
    /\ \A m \in Modes : Resolve(m) = m
<1>1. Ablations = {"brainos_no_temporal", "brainos_no_relevance", "brainos_no_conflict",
                   "brainos_no_memory"}
  BY DEF Ablations, Overrides
<1>2. QED
  BY <1>1 DEF Modes, Baselines, AnyMode, Resolve

\* The budgets a mode fixes: those of the evidence it does not use are zero.
LEMMA OverridesFixed ==
    ASSUME NEW m \in Modes, NEW max \in Nat
    PROVE  LET b == BudgetOverrides(m, max)
           IN  /\ DOMAIN b = {"turns", "window", "memory", "chunk"}
               /\ b.turns \in Nat \cup {Unlimited} /\ b.window \in Nat
               /\ b.memory \in Nat /\ b.chunk \in Nat
               /\ b.memory # 0 => UsesMemory(m)
               /\ b.chunk # 0 => UsesRag(m)
               /\ m = "full_context" =>
                      b.turns = Unlimited /\ b.window = max /\ b.memory = 0 /\ b.chunk = 0
<1>1. RecentTurns \in Nat /\ RecentBudget \in Nat /\ SlidingTurns \in Nat /\ Evidence \in Nat
  BY BudgetsTyped
<1>2. Evidence \div 2 \in Nat /\ Evidence - Evidence \div 2 \in Nat
  BY <1>1
<1>3. UsesMemory("brainos_rag") /\ UsesRag("brainos_rag")
      /\ ~UsesMemory("full_context") /\ ~UsesRag("full_context")
  BY ModesAre DEF UsesMemory, UsesRag, Resolve
<1>4. QED
  BY <1>1, <1>2, <1>3 DEF BudgetOverrides

\* The evidence budgets are zero unless the mode uses the evidence.
Follows(s) == /\ s.memory # 0 => UsesMemory(s.mode)
              /\ s.chunk # 0 => UsesRag(s.mode)

\* Settings that get the defaults of a mode.
LEMMA DefaultsOfMode ==
    ASSUME NEW s \in SettingsType, NEW m \in Modes
    PROVE  LET t == WithModeDefaults(s, m)
           IN  /\ t \in SettingsType /\ t.mode = m /\ t.max = s.max /\ Follows(t)
               /\ m = "full_context" =>
                      /\ t.turns = Unlimited /\ t.window = s.max
                      /\ t.memory = 0 /\ t.chunk = 0
<1> DEFINE b == BudgetOverrides(m, s.max)
<1> DEFINE t == WithModeDefaults(s, m)
<1> DEFINE knobs == CASE m \in Ablations ->
                           [k \in Knobs |-> IF k \in Overrides[m] THEN "removed" ELSE s.knobs[k]]
                      [] m \notin Ablations /\ s.mode \in Ablations -> Defaults
                      [] OTHER -> s.knobs
<1> DEFINE r == [s EXCEPT !.mode = m, !.knobs = knobs]
<1>1. /\ DOMAIN s = FormNames /\ s.max \in Nat /\ s.knobs \in [Knobs -> KnobValues]
  BY DEF SettingsType, FormNames, KnobValues
<1>2. /\ DOMAIN b = {"turns", "window", "memory", "chunk"}
      /\ b.turns \in Nat \cup {Unlimited} /\ b.window \in Nat
      /\ b.memory \in Nat /\ b.chunk \in Nat
      /\ b.memory # 0 => UsesMemory(m)
      /\ b.chunk # 0 => UsesRag(m)
      /\ m = "full_context" =>
             b.turns = Unlimited /\ b.window = s.max /\ b.memory = 0 /\ b.chunk = 0
  BY <1>1, OverridesFixed
<1>3. knobs \in [Knobs -> KnobValues]
  <2>1. [k \in Knobs |-> IF k \in Overrides[m] THEN "removed" ELSE s.knobs[k]] \in [Knobs -> KnobValues]
    BY <1>1 DEF KnobValues
  <2>2. Defaults \in [Knobs -> KnobValues]
    BY DEF Defaults, KnobValues
  <2>3. QED
    BY <1>1, <2>1, <2>2
<1> HIDE DEF b, knobs
<1>4. DOMAIN r = FormNames /\ r.mode = m /\ r.max = s.max /\ r.knobs = knobs
  BY <1>1 DEF FormNames
<1>5. t = Over(b, r)
  BY DEF WithModeDefaults, b, knobs
<1> HIDE DEF t, r
<1>6. DOMAIN b \cup DOMAIN r = FormNames
  BY <1>2, <1>4 DEF FormNames
<1>7. t = [f \in FormNames |-> IF f \in DOMAIN b THEN b[f] ELSE r[f]]
  BY <1>5, <1>6 DEF Over
<1>8. /\ t.mode = m /\ t.max = s.max /\ t.knobs = knobs
      /\ t.turns = b.turns /\ t.window = b.window /\ t.memory = b.memory /\ t.chunk = b.chunk
      /\ t = [f \in FormNames |-> t[f]]
  BY <1>2, <1>4, <1>7 DEF FormNames
<1>9. t \in SettingsType
  BY <1>1, <1>2, <1>3, <1>8, SettingsFields DEF AnyMode
<1>10. QED
  BY <1>2, <1>8, <1>9 DEF Follows, t

\* A new session's settings, and those of a replay's services.
LEMMA FactorySettings ==
    /\ NewSettings \in SettingsType /\ Follows(NewSettings) /\ NewSettings.mode = "brainos"
    /\ \A m \in AnyMode : Factory(m) \in SettingsType /\ Follows(Factory(m))
    /\ \A m \in AnyMode, ceiling \in Nat :
           LET s == Raised(Factory(m), ceiling)
           IN  /\ s \in SettingsType /\ Follows(s) /\ s.max >= ceiling
               /\ s.mode = "full_context" =>
                      /\ s.turns = Unlimited /\ s.window = s.max
                      /\ s.memory = 0 /\ s.chunk = 0
<1>1. NewSettings \in SettingsType /\ Follows(NewSettings) /\ NewSettings.mode = "brainos"
  <2> DEFINE b == BudgetOverrides("brainos", DefaultCeiling)
  <2> DEFINE r == [mode |-> "brainos", max |-> DefaultCeiling, knobs |-> Defaults]
  <2>1. DefaultCeiling \in Nat /\ "brainos" \in Modes
    BY BudgetsTyped, ModesAre
  <2>2. /\ DOMAIN b = {"turns", "window", "memory", "chunk"}
        /\ b.turns \in Nat \cup {Unlimited} /\ b.window \in Nat
        /\ b.memory \in Nat /\ b.chunk \in Nat
        /\ b.memory # 0 => UsesMemory("brainos")
        /\ b.chunk # 0 => UsesRag("brainos")
    BY <2>1, OverridesFixed
  <2>3. Defaults \in [Knobs -> KnobValues]
    BY DEF Defaults, KnobValues
  <2>4. NewSettings = Over(b, r)
    BY DEF NewSettings
  <2> HIDE DEF b
  <2>5. DOMAIN r = {"mode", "max", "knobs"} /\ r.mode = "brainos" /\ r.max = DefaultCeiling
        /\ r.knobs = Defaults
    OBVIOUS
  <2> HIDE DEF r
  <2>6. DOMAIN b \cup DOMAIN r = FormNames
    BY <2>2, <2>5 DEF FormNames
  <2> DEFINE t == NewSettings
  <2>7. t = [f \in FormNames |-> IF f \in DOMAIN b THEN b[f] ELSE r[f]]
    BY <2>4, <2>6 DEF Over
  <2> HIDE DEF t
  <2>8. /\ t.mode = "brainos" /\ t.max = DefaultCeiling /\ t.knobs = Defaults
        /\ t.turns = b.turns /\ t.window = b.window /\ t.memory = b.memory /\ t.chunk = b.chunk
        /\ t = [f \in FormNames |-> t[f]]
    BY <2>2, <2>5, <2>7 DEF FormNames
  <2>9. t \in SettingsType
    BY <2>1, <2>2, <2>3, <2>8, SettingsFields DEF AnyMode
  <2>10. QED
    BY <2>2, <2>8, <2>9 DEF Follows, t
<1>2. ASSUME NEW m \in AnyMode
      PROVE  /\ Factory(m) \in SettingsType /\ Follows(Factory(m))
             /\ Factory(m).mode \in Modes
             /\ Factory(m).mode = "full_context" =>
                    /\ Factory(m).turns = Unlimited /\ Factory(m).window = Factory(m).max
                    /\ Factory(m).memory = 0 /\ Factory(m).chunk = 0
  <2>1. Resolve(m) \in Modes /\ Factory(m) = WithModeDefaults(NewSettings, Resolve(m))
    BY ModesAre DEF Factory
  <2>2. /\ Factory(m) \in SettingsType /\ Factory(m).mode = Resolve(m)
        /\ Factory(m).max = NewSettings.max /\ Follows(Factory(m))
        /\ Resolve(m) = "full_context" =>
               /\ Factory(m).turns = Unlimited /\ Factory(m).window = NewSettings.max
               /\ Factory(m).memory = 0 /\ Factory(m).chunk = 0
    BY <1>1, <2>1, DefaultsOfMode
  <2>3. QED
    BY <2>1, <2>2
<1>3. ASSUME NEW m \in AnyMode, NEW ceiling \in Nat
      PROVE  LET s == Raised(Factory(m), ceiling)
             IN  /\ s \in SettingsType /\ Follows(s) /\ s.max >= ceiling
                 /\ s.mode = "full_context" =>
                        /\ s.turns = Unlimited /\ s.window = s.max
                        /\ s.memory = 0 /\ s.chunk = 0
  <2> DEFINE s == Factory(m)
  <2> DEFINE raised == [s EXCEPT !.max = ceiling]
  <2>1. s \in SettingsType /\ s.mode \in Modes /\ s.max \in Nat
    BY <1>2 DEF SettingsType
  <2>2. CASE ceiling <= s.max
    BY <1>2, <2>1, <2>2 DEF Raised
  <2>3. CASE ~(ceiling <= s.max)
    <3>1. Raised(s, ceiling) = WithModeDefaults(raised, s.mode)
      BY <2>3 DEF Raised
    <3> HIDE DEF s
    <3>2. raised \in SettingsType /\ raised.max = ceiling
      BY <2>1 DEF SettingsType
    <3> HIDE DEF raised
    <3>3. QED
      BY <2>1, <3>1, <3>2, DefaultsOfMode DEF s
  <2>4. QED
    BY <2>2, <2>3
<1>4. QED
  BY <1>1, <1>2, <1>3

\* Two settings, or a form and settings, agree on the sliders.
SameSliders(a, b) == /\ a.max = b.max /\ a.turns = b.turns /\ a.window = b.window
                     /\ a.memory = b.memory /\ a.chunk = b.chunk

\* A request that names a mode replaces it and nothing else.
LEMMA ReplacedByMode ==
    ASSUME NEW s \in SettingsType, NEW fields \in [mode : AnyMode]
    PROVE  /\ Replaced(s, fields) \in SettingsType /\ Replaced(s, fields).mode = fields.mode
           /\ SameSliders(Replaced(s, fields), s)
<1> DEFINE t == Replaced(s, fields)
<1>1. /\ DOMAIN s = FormNames /\ s.max \in Nat /\ s.turns \in Nat \cup {Unlimited}
      /\ s.window \in Nat /\ s.memory \in Nat /\ s.chunk \in Nat
      /\ s.knobs \in [Knobs -> KnobValues]
  BY DEF SettingsType, FormNames, KnobValues
<1>2. DOMAIN fields = {"mode"} /\ fields.mode \in AnyMode
  OBVIOUS
<1>3. t = [f \in FormNames |-> IF f \notin {"mode"} THEN s[f]
                                ELSE IF f = "knobs" THEN Over(fields.knobs, s.knobs)
                                ELSE fields[f]]
  BY <1>1, <1>2 DEF Replaced
<1> HIDE DEF t
<1>4. t.mode = fields.mode /\ t.knobs = s.knobs /\ SameSliders(t, s)
      /\ t = [f \in FormNames |-> t[f]]
  BY <1>3 DEF FormNames, SameSliders
<1>5. t \in SettingsType
  BY <1>1, <1>2, <1>4, SettingsFields DEF SameSliders
<1>6. QED
  BY <1>4, <1>5 DEF t

\* A request that submits the form replaces the mode and the sliders by the form's.
LEMMA ReplacedByForm ==
    ASSUME NEW s \in SettingsType, NEW fields \in FormType
    PROVE  /\ Replaced(s, fields) \in SettingsType /\ Replaced(s, fields).mode = fields.mode
           /\ SameSliders(Replaced(s, fields), fields)
<1> DEFINE t == Replaced(s, fields)
           knobs == Over(fields.knobs, s.knobs)
<1>1. DOMAIN s = FormNames /\ s.knobs \in [Knobs -> KnobValues]
  BY DEF SettingsType, FormNames, KnobValues
<1>2. /\ DOMAIN fields = FormNames /\ fields.mode \in AnyMode
      /\ fields.max \in Nat /\ fields.turns \in Nat \cup {Unlimited}
      /\ fields.window \in Nat /\ fields.memory \in Nat /\ fields.chunk \in Nat
      /\ fields.knobs \in [FormKnobs -> KnobValues]
  BY DEF FormType, FormNames
<1>3. knobs \in [Knobs -> KnobValues]
  <2>1. FormKnobs \subseteq Knobs
    BY DEF FormKnobs, Knobs
  <2>2. knobs = [k \in Knobs |-> IF k \in FormKnobs THEN fields.knobs[k] ELSE s.knobs[k]]
    BY <1>1, <1>2, <2>1 DEF Over
  <2>3. QED
    BY <1>1, <1>2, <2>2
<1>4. t = [f \in FormNames |-> IF f = "knobs" THEN knobs ELSE fields[f]]
  BY <1>1, <1>2 DEF Replaced
<1> HIDE DEF t, knobs
<1>5. t.mode = fields.mode /\ t.knobs = knobs /\ SameSliders(t, fields)
      /\ t = [f \in FormNames |-> t[f]]
  BY <1>4 DEF FormNames, SameSliders
<1>6. t \in SettingsType
  BY <1>2, <1>3, <1>5, SettingsFields DEF SameSliders
<1>7. QED
  BY <1>5, <1>6 DEF t

\* What a request makes of the settings: those of the mode it names when that is new to
\* the session, and otherwise its copy with the fields it sets.
LEMMA RequestedIs ==
    ASSUME NEW read \in SettingsType, NEW now \in SettingsType,
           NEW fields \in [mode : AnyMode] \cup FormType
    PROVE  LET t == Requested(read, now, fields)
           IN  /\ t \in SettingsType
               /\ Rewrites(now, fields) => t.mode = Resolve(fields.mode) /\ Follows(t)
               /\ ~Rewrites(now, fields) =>
                      /\ t.mode = fields.mode
                      /\ fields \in [mode : AnyMode] => SameSliders(t, read)
                      /\ fields \in FormType => SameSliders(t, fields)
<1>1. /\ Replaced(read, fields) \in SettingsType
      /\ Replaced(read, fields).mode = fields.mode
      /\ fields \in [mode : AnyMode] => SameSliders(Replaced(read, fields), read)
      /\ fields \in FormType => SameSliders(Replaced(read, fields), fields)
  BY ReplacedByMode, ReplacedByForm
<1>2. fields.mode \in AnyMode
  BY DEF FormType
<1>3. CASE Rewrites(now, fields)
  <2>1. Requested(read, now, fields)
          = WithModeDefaults(Replaced(read, fields), Resolve(fields.mode))
    BY <1>3 DEF Requested
  <2>2. Resolve(fields.mode) \in Modes
    BY <1>2, ModesAre
  <2>3. QED
    BY <1>1, <1>3, <2>1, <2>2, DefaultsOfMode
<1>4. CASE ~Rewrites(now, fields)
  BY <1>1, <1>4 DEF Requested
<1>5. QED
  BY <1>3, <1>4

-------------------------------------------------------------------------------
(* Counting: what the budgets admit and the ceiling takes away.            *)

\* The larger and the smaller of two integers.
LEMMA TwoIntegers ==
    ASSUME NEW a \in Int, NEW b \in Int
    PROVE  /\ Max({a, b}) = IF a >= b THEN a ELSE b
           /\ Min({a, b}) = IF a <= b THEN a ELSE b
<1>1. Max({a, b}) = IF a >= b THEN a ELSE b
  BY DEF Max
<1>2. Min({a, b}) = IF a <= b THEN a ELSE b
  BY DEF Min
<1>3. QED
  BY <1>1, <1>2

\* No more than b, and no less than none.
LEMMA Clamp ==
    \A a, b \in Int : Max({0, Min({a, b})}) = IF 0 >= (IF a <= b THEN a ELSE b) THEN 0
                                              ELSE IF a <= b THEN a ELSE b
<1> SUFFICES ASSUME NEW a \in Int, NEW b \in Int
             PROVE  Max({0, Min({a, b})}) = IF 0 >= (IF a <= b THEN a ELSE b) THEN 0
                                            ELSE IF a <= b THEN a ELSE b
  OBVIOUS
<1>1. Min({a, b}) = IF a <= b THEN a ELSE b
  BY TwoIntegers
<1>2. Min({a, b}) \in Int /\ 0 \in Int
  BY <1>1
<1>3. Max({0, Min({a, b})}) = IF 0 >= Min({a, b}) THEN 0 ELSE Min({a, b})
  <2> DEFINE c == Min({a, b})
  <2> HIDE DEF c
  <2>1. c \in Int
    BY <1>2 DEF c
  <2>2. Max({0, c}) = IF 0 >= c THEN 0 ELSE c
    BY <1>2, <2>1, TwoIntegers
  <2>3. QED
    BY <2>2 DEF c
<1>4. QED
  BY <1>1, <1>3

\* The ceiling of a replay leaves room for the conversation, a question and the slack.
LEMMA CeilingRoom ==
    ASSUME NEW c \in Seq(Message)
    PROVE  ReplayCeiling(c) \in Nat /\ ReplayCeiling(c) >= Len(c) + 1 + Slack
<1>1. DefaultCeiling \in Nat /\ Slack \in Nat /\ Len(c) \in Nat
  BY BudgetsTyped, RoomLeft
<1>2. DefaultCeiling \in Int /\ Len(c) + 1 + Slack \in Int
  BY <1>1
<1>3. ReplayCeiling(c) = IF DefaultCeiling >= Len(c) + 1 + Slack THEN DefaultCeiling
                         ELSE Len(c) + 1 + Slack
  BY <1>2, TwoIntegers DEF ReplayCeiling
<1>4. QED
  BY <1>1, <1>3

\* A nonempty set of naturals has a least member.
LEMMA LeastMember ==
    ASSUME NEW S \in SUBSET Nat, S # {}
    PROVE  \E i \in S : \A j \in S : j >= i
<1> DEFINE R == OpToRel(<, Nat)
<1>1. IsWellFoundedOn(R, Nat)
  BY NatLessThanWellFounded
<1>2. \A x, y \in Nat : y < x => <<y, x>> \in R
  BY DEF OpToRel
<1> HIDE DEF R
<1>3. \E x \in S : \A y \in S : ~(<<y, x>> \in R)
  BY <1>1, WFMin
<1>4. PICK x \in S : \A y \in S : ~(y < x)
  BY <1>2, <1>3
<1>5. \A y \in S : y >= x
  BY <1>4
<1>6. QED
  BY <1>5

\* The newest n members are at most n, and all of them if there are no more than n.
LEMMA NewestBounds ==
    ASSUME NEW S \in SUBSET Nat, IsFiniteSet(S), NEW n \in Int
    PROVE  /\ Newest(S, n) \subseteq S /\ IsFiniteSet(Newest(S, n))
           /\ Cardinality(Newest(S, n)) \in Nat
           /\ n >= 0 => Cardinality(Newest(S, n)) <= n
           /\ n < 0 => Newest(S, n) = {}
           /\ n >= Cardinality(S) => Newest(S, n) = S
<1> DEFINE W == Newest(S, n)
           From(i) == {j \in S : j >= i}
<1>1. \A i \in S : IsFiniteSet(From(i)) /\ Cardinality(From(i)) \in Nat
                   /\ Cardinality(From(i)) <= Cardinality(S)
  BY FS_Subset, FS_CardinalityType
<1>2. W \subseteq S /\ IsFiniteSet(W) /\ Cardinality(W) \in Nat /\ Cardinality(S) \in Nat
  <2>1. W \subseteq S
    BY DEF Newest
  <2>2. QED
    BY <2>1, FS_Subset, FS_CardinalityType
<1>3. \A i \in W : Cardinality(From(i)) <= n
  BY DEF Newest
<1>4. ASSUME n >= 0 PROVE Cardinality(W) <= n
  <2>1. CASE W = {}
    BY <2>1, <1>4, FS_EmptySet
  <2>2. CASE W # {}
    <3>1. PICK i \in W : \A j \in W : j >= i
      <4> HIDE DEF W
      <4> QED BY <1>2, <2>2, LeastMember
    <3>2. W \subseteq From(i) /\ i \in S
      BY <1>2, <3>1
    <3> HIDE DEF W, From
    <3>3. Cardinality(W) <= Cardinality(From(i))
      BY <1>1, <3>2, FS_Subset
    <3>4. QED
      BY <1>1, <1>2, <1>3, <3>1, <3>2, <3>3
  <2>3. QED
    BY <2>1, <2>2
<1>5. ASSUME n < 0 PROVE W = {}
  <2> HIDE DEF W, From
  <2> QED BY <1>1, <1>2, <1>3, <1>5
<1>6. ASSUME n >= Cardinality(S) PROVE W = S
  <2>1. \A i \in S : Cardinality(From(i)) <= n
    <3> HIDE DEF From
    <3> QED BY <1>1, <1>2, <1>6
  <2>2. QED
    BY <2>1 DEF Newest
<1>7. QED
  BY <1>2, <1>4, <1>5, <1>6

\* Choosing k members and taking them away.
LEMMA Chosen ==
    ASSUME NEW S, IsFiniteSet(S), NEW k, NEW T \in kSubset(k, S)
    PROVE  /\ T \subseteq S /\ IsFiniteSet(T) /\ Cardinality(T) = k /\ k \in Nat
           /\ IsFiniteSet(S \ T) /\ Cardinality(S \ T) = Cardinality(S) - k
           /\ k <= Cardinality(S) /\ Cardinality(S) \in Nat
<1>1. T \subseteq S /\ Cardinality(T) = k
  BY DEF kSubset
<1>2. IsFiniteSet(T) /\ k \in Nat /\ Cardinality(S) \in Nat /\ k <= Cardinality(S)
  BY <1>1, FS_Subset, FS_CardinalityType
<1>3. S \cap T = T
  BY <1>1
<1>4. IsFiniteSet(S \ T) /\ Cardinality(S \ T) = Cardinality(S) - Cardinality(S \cap T)
  BY FS_Difference
<1>5. QED
  BY <1>1, <1>2, <1>3, <1>4

-------------------------------------------------------------------------------
(* What holds of every client, however many requests are in flight.        *)

Fields == /\ settings \in SettingsType /\ form \in FormType
          /\ tuned \in BOOLEAN /\ changed \in BOOLEAN /\ edited \in BOOLEAN

\* A request of the sidebar: the mode it names, or the whole form.
Copies      == {NoCopy} \cup SettingsType
RequestType == [kind : {"mode"}, fields : [mode : AnyMode], read : Copies]
                 \cup [kind : {"form"}, fields : FormType, read : Copies]
Asked == /\ requests \subseteq RequestType /\ IsFiniteSet(requests)
         /\ client # "sidebar" => requests = {}

\* What the service heard is in the conversation, up to the next message of a replay.
Heard == /\ script \in Seq(Message) /\ next \in Nat \ {0}
         /\ said \subseteq DOMAIN script
         /\ observed \subseteq {i \in DOMAIN script : script[i].says = "statement"}
         /\ client = "replay" =>
                /\ next <= Len(script) + 1
                /\ said \cup observed \subseteq 1..(next - 1)

\* The parts of a prompt are taken from what was heard, and a replay asks its question
\* when it has heard everything.
TurnType == [recalled : SUBSET Nat, chunks : SUBSET Nat, under : SettingsType,
             tuned : BOOLEAN, window : SUBSET Nat, memory : SUBSET Nat, chunk : SUBSET Nat,
             label : AnyMode \cup {""}]
InTurn == /\ turn \in TurnType
          /\ turn.recalled \subseteq observed /\ turn.chunks \subseteq History
          /\ turn.memory \subseteq turn.recalled /\ turn.chunk \subseteq turn.chunks
          /\ turn.window \subseteq History
          /\ ~Built => turn.window = {} /\ turn.memory = {} /\ turn.chunk = {}
          /\ pc = "idle" => turn = NoTurn
          /\ client = "replay" /\ pc # "idle" => next > Len(script)

Typed == Fields /\ Asked /\ Heard /\ InTurn

\* An isolated replay's service knows the messages of one session, the last one heard.
OneSession ==
    client = "replay" /\ isolated =>
        /\ \A i \in said \cup observed : script[i].session = current
        /\ next > 1 => current = script[next - 1].session

\* The ceiling of a replay in one session leaves room for the conversation, and the
\* settings a turn is built under are the session's.
Reference ==
    client = "replay" /\ ~isolated =>
        /\ settings.max >= Len(script) + 1 + Slack
        /\ settings.mode = "full_context" =>
               settings.turns = Unlimited /\ settings.window = settings.max
                   /\ settings.memory = 0 /\ settings.chunk = 0
        /\ pc \in {"chunks", "build", "label", "done"} => turn.under = settings
        /\ Built =>
               /\ settings.mode = "full_context" => Prompt = said
               /\ Cardinality(turn.window) + Cardinality(turn.memory)
                    + Cardinality(turn.chunk) + Overhead <= settings.max

\* A new service starts from well-typed settings, an empty transcript and no turn.
LEMMA TypedInit == Init => Typed
<1> SUFFICES ASSUME Init PROVE Typed
  OBVIOUS
<1>1. script \in Seq(Message)
  <2>1. script \in Conversations \/ script = <<>>
    BY DEF Init
  <2>2. \A c \in Conversations : c \in Seq(Message)
    BY ConversationsTyped
  <2>3. <<>> \in Seq(Message)
    OBVIOUS
  <2>4. QED
    BY <2>1, <2>2, <2>3
<1>2. settings \in SettingsType /\ ModesInit(settings)
  <2>1. CASE client = "replay"
    <3>1. PICK m \in Modes : ModesInit(Raised(Factory(m), ReplayCeiling(script)))
      BY <2>1 DEF Init
    <3>2. ReplayCeiling(script) \in Nat /\ m \in AnyMode
      BY <1>1, CeilingRoom DEF AnyMode
    <3>3. QED
      BY <3>1, <3>2, FactorySettings DEF ModesInit
  <2>2. CASE client # "replay"
    BY <2>2, FactorySettings DEF Init, ModesInit
  <2>3. QED
    BY <2>1, <2>2
<1>3. form \in FormType
  <2>1. settings.knobs \in [Knobs -> KnobValues] /\ FormKnobs \subseteq Knobs
    BY <1>2 DEF SettingsType, KnobValues, FormKnobs, Knobs
  <2>2. Restrict(settings.knobs, FormKnobs) \in [FormKnobs -> KnobValues]
    BY <2>1 DEF Restrict
  <2>3. form = [settings EXCEPT !.knobs = Restrict(settings.knobs, FormKnobs)]
    BY <1>2 DEF ModesInit
  <2>4. QED
    BY <1>2, <2>2, <2>3 DEF SettingsType, FormType, AnyMode
<1>4. Fields
  BY <1>2, <1>3 DEF ModesInit, Fields
<1>5. Asked
  BY <1>2, FS_EmptySet DEF ModesInit, Asked
<1>6. Heard
  BY <1>1 DEF Init, Heard
<1>7. InTurn
  BY FactorySettings DEF Init, InTurn, NoTurn, TurnType, History, Built
<1>8. QED
  BY <1>4, <1>5, <1>6, <1>7 DEF Typed

\* The sidebar's clicks, edits and requests keep the settings, the form and the requests
\* well typed.
LEMMA SidebarTyped ==
    ASSUME Fields, Asked, client = "sidebar", UNCHANGED client, Sidebar
    PROVE  Fields' /\ Asked'
<1>1. CASE EditForm
  <2>1. form' \in FormType
    <3>1. ASSUME NEW v \in Nat
          PROVE  /\ [form EXCEPT !.max = v] \in FormType
                 /\ [form EXCEPT !.window = v] \in FormType
                 /\ [form EXCEPT !.memory = v] \in FormType
                 /\ [form EXCEPT !.chunk = v] \in FormType
      BY DEF Fields, FormType
    <3>2. ASSUME NEW k \in FormKnobs PROVE [form EXCEPT !.knobs[k] = "tuned"] \in FormType
      BY DEF Fields, FormType, KnobValues
    <3>3. Ceilings \subseteq Nat /\ Windows \subseteq Nat /\ EvidenceSizes \subseteq Nat
      BY BudgetsTyped
    <3>4. QED
      BY <1>1, <3>1, <3>2, <3>3 DEF EditForm
  <2>2. QED
    BY <1>1, <2>1 DEF EditForm, Fields, Asked
<1>2. CASE SelectMode
  <2>1. PICK m \in Offered : /\ form' = [form EXCEPT !.mode = m]
                             /\ requests' = requests \cup {Request("mode", [mode |-> m])}
    BY <1>2 DEF SelectMode
  <2>2. m \in AnyMode
    BY OfferedTyped DEF AnyMode
  <2>3. form' \in FormType
    BY <2>1, <2>2 DEF Fields, FormType
  <2>4. Request("mode", [mode |-> m]) \in RequestType
    BY <2>2 DEF Request, RequestType, Copies
  <2>5. IsFiniteSet(requests')
    BY <2>1, FS_AddElement DEF Asked
  <2>6. QED
    BY <1>2, <2>1, <2>3, <2>4, <2>5 DEF SelectMode, Fields, Asked
<1>3. CASE SubmitForm
  <2>1. Request("form", form) \in RequestType
    BY DEF Fields, Request, RequestType, Copies
  <2>2. IsFiniteSet(requests') /\ requests' \subseteq RequestType
    BY <1>3, <2>1, FS_AddElement DEF Asked, SubmitForm
  <2>3. QED
    BY <1>3, <2>2 DEF SubmitForm, Fields, Asked
<1>4. CASE ReadSettings
  <2>1. PICK r \in requests : requests' = (requests \ {r}) \cup {[r EXCEPT !.read = settings]}
    BY <1>4 DEF ReadSettings
  <2>2. [r EXCEPT !.read = settings] \in RequestType
    BY DEF Fields, Asked, RequestType, Copies
  <2>3. IsFiniteSet(requests') /\ requests' \subseteq RequestType
    BY <2>1, <2>2, FS_AddElement, FS_RemoveElement DEF Asked
  <2>4. QED
    BY <1>4, <2>3 DEF ReadSettings, Fields, Asked
<1>5. CASE WriteSettings
  <2>1. PICK r \in requests :
          /\ r.read # NoCopy
          /\ settings' = Requested(r.read, settings, r.fields)
          /\ requests' = requests \ {r}
          /\ form' = IF r.kind = "mode" THEN Shown(settings') ELSE form
          /\ tuned' = IF Rewrites(settings, r.fields) THEN FALSE
                      ELSE tuned \/ r.kind = "form"
    BY <1>5 DEF WriteSettings
  <2>2. r.read \in SettingsType /\ r.fields \in [mode : AnyMode] \cup FormType
    BY <2>1 DEF Asked, RequestType, Copies
  <2>3. settings' \in SettingsType
    BY <2>1, <2>2, RequestedIs DEF Fields
  <2>4. Shown(settings') \in FormType
    BY <2>3 DEF Fields, Shown, SettingsType, FormType
  <2>5. tuned' \in BOOLEAN
    <3>1. (tuned \/ r.kind = "form") \in BOOLEAN
      OBVIOUS
    <3>2. QED
      BY <2>1, <3>1
  <2>6. IsFiniteSet(requests') /\ requests' \subseteq RequestType
    BY <2>1, FS_RemoveElement DEF Asked
  <2>7. form' \in FormType /\ changed' = TRUE /\ edited' = edited
    BY <1>5, <2>1, <2>4 DEF WriteSettings, Fields
  <2>8. QED
    BY <2>3, <2>5, <2>6, <2>7 DEF Fields, Asked
<1>6. QED
  BY <1>1, <1>2, <1>3, <1>4, <1>5 DEF Sidebar

\* What a message adds to the transcript and to BrainOS is that message.
LEMMA HearAdds ==
    ASSUME NEW i, NEW before, NEW known, Hear(i, before, known)
    PROVE  /\ said' \subseteq before \cup {i}
           /\ observed' \subseteq known \cup {i}
           /\ i \in observed' => i \in known \/ script[i].says = "statement"
  BY DEF Hear, Memorable

\* What a session's service has heard is a finite set of places.
LEMMA HeardFinite ==
    ASSUME Heard
    PROVE  /\ IsFiniteSet(said) /\ IsFiniteSet(History) /\ said \subseteq Nat
           /\ Cardinality(said) \in Nat /\ Cardinality(said) <= Len(script)
<1>1. Len(script) \in Nat /\ said \in SUBSET (1..Len(script))
  BY DEF Heard
<1>2. \A n \in Nat : IsFiniteSet(1..n) /\ Cardinality(1..n) = n
  BY FS_Interval
<1>3. IsFiniteSet(said) /\ Cardinality(said) <= Len(script)
  <2> DEFINE places == 1..Len(script)
  <2>1. IsFiniteSet(places) /\ Cardinality(places) = Len(script) /\ said \in SUBSET places
    BY <1>1, <1>2
  <2> HIDE DEF places
  <2>2. QED
    BY <2>1, FS_Subset
<1>4. IsFiniteSet(History)
  BY <1>3, FS_Subset DEF History
<1>5. QED
  BY <1>1, <1>3, <1>4, FS_CardinalityType

\* So is what its BrainOS runtime has observed.
LEMMA ObservedFinite == ASSUME Heard PROVE IsFiniteSet(observed)
<1> DEFINE places == 1..Len(script)
<1>1. Len(script) \in Nat /\ observed \in SUBSET places
  BY DEF Heard
<1>2. \A n \in Nat : IsFiniteSet(1..n)
  BY FS_Interval
<1>3. IsFiniteSet(places)
  BY <1>1, <1>2
<1> HIDE DEF places
<1>4. QED
  BY <1>1, <1>3, FS_Subset

\* What Build puts into the prompt, with the numbers of each: the newest of the history,
\* and of the candidates what the budgets admit, all less what the ceiling evicts.
BuildOutcome(s, kept, M, C, over, D, N) ==
    /\ kept = Newest(History, IF s.turns = Unlimited THEN Max({1, s.window})
                              ELSE Min({s.turns, Max({1, s.window})}))
    /\ M \in kSubset(Min({s.memory, Cardinality(turn.recalled)}), turn.recalled)
    /\ C \in kSubset(Min({s.chunk, Cardinality(turn.chunks \ kept)}), turn.chunks \ kept)
    /\ over = Overhead + Cardinality(kept) + Cardinality(C) + Cardinality(M) - s.max
    /\ D \in kSubset(Max({0, Min({over - Cardinality(kept), Cardinality(C)})}), C)
    /\ N \in kSubset(Max({0, Min({over - Cardinality(kept) - Cardinality(C),
                                  Cardinality(M)})}), M)
    /\ turn' = [turn EXCEPT !.window = Newest(kept, Cardinality(kept) - Max({over, 0})),
                            !.memory = M \ N, !.chunk = C \ D]

\* Build has such an outcome.
LEMMA BuildHasOutcome ==
    ASSUME Build
    PROVE  \E kept, M, C, over, D, N : BuildOutcome(turn.under, kept, M, C, over, D, N)
<1> DEFINE s == turn.under
           kept == Newest(History, IF s.turns = Unlimited THEN Max({1, s.window})
                                   ELSE Min({s.turns, Max({1, s.window})}))
           over(M, C) == Overhead + Cardinality(kept) + Cardinality(C) + Cardinality(M) - s.max
           Ms == kSubset(Min({s.memory, Cardinality(turn.recalled)}), turn.recalled)
           Cs == kSubset(Min({s.chunk, Cardinality(turn.chunks \ kept)}), turn.chunks \ kept)
           Ds(M, C) == kSubset(Max({0, Min({over(M, C) - Cardinality(kept),
                                            Cardinality(C)})}), C)
           Ns(M, C) == kSubset(Max({0, Min({over(M, C) - Cardinality(kept) - Cardinality(C),
                                            Cardinality(M)})}), M)
           Outcome(M, C, D, N) ==
               turn' = [turn EXCEPT
                          !.window = Newest(kept, Cardinality(kept) - Max({over(M, C), 0})),
                          !.memory = M \ N, !.chunk = C \ D]
<1>1. \E M \in Ms, C \in Cs : \E D \in Ds(M, C), N \in Ns(M, C) : Outcome(M, C, D, N)
  BY DEF Build
<1>2. ASSUME NEW M \in Ms, NEW C \in Cs, NEW D \in Ds(M, C), NEW N \in Ns(M, C),
             Outcome(M, C, D, N)
      PROVE  BuildOutcome(s, kept, M, C, over(M, C), D, N)
  BY <1>2 DEF BuildOutcome
<1> HIDE DEF Ms, Cs, Ds, Ns, Outcome, kept, over
<1>3. QED
  BY <1>1, <1>2

\* Build takes its window from the history and its evidence from the candidates.
LEMMA BuildTakes ==
    ASSUME Build
    PROVE  \E W \in SUBSET History, M \in SUBSET turn.recalled, C \in SUBSET turn.chunks :
              turn' = [turn EXCEPT !.window = W, !.memory = M, !.chunk = C]
<1>1. PICK kept, M, C, over, D, N : BuildOutcome(turn.under, kept, M, C, over, D, N)
  BY BuildHasOutcome
<1>2. M \subseteq turn.recalled /\ C \subseteq turn.chunks
  BY <1>1 DEF BuildOutcome, kSubset
<1>3. Newest(kept, Cardinality(kept) - Max({over, 0})) \subseteq History
  BY <1>1 DEF BuildOutcome, Newest
<1>4. QED
  BY <1>1, <1>2, <1>3 DEF BuildOutcome

\* No step of any client disturbs the types, whose part of a prompt is what.
LEMMA TypedStep == Typed /\ [Next]_vars => Typed'
<1> SUFFICES ASSUME Typed, [Next]_vars PROVE Typed'
  OBVIOUS
<1> USE DEF Typed
<1>0. next \in Nat /\ Len(script) \in Nat
  BY DEF Heard
<1>1. CASE ReplayMessage
  <2>1. /\ client = "replay" /\ next <= Len(script) /\ pc = "idle" /\ turn = NoTurn
        /\ UNCHANGED <<modeVars, client, isolated, script, current, pc, turn>>
        /\ Hear(next, said, observed) /\ next' = next + 1
    BY <1>0, <1>1 DEF ReplayMessage, InTurn
  <2>2. Heard'
    <3>1. next \in DOMAIN script /\ next \in 1..next
      BY <2>1 DEF Heard
    <3>2. said' \subseteq said \cup {next} /\ observed' \subseteq observed \cup {next}
          /\ (next \in observed' => script[next].says = "statement")
      BY <2>1, HearAdds DEF Heard
    <3>3. said' \cup observed' \subseteq 1..next
      BY <2>1, <3>1, <3>2 DEF Heard
    <3>4. QED
      BY <2>1, <3>1, <3>2, <3>3 DEF Heard
  <2>3. InTurn'
    BY <2>1 DEF InTurn, NoTurn, TurnType, Built
  <2>4. QED
    BY <2>1, <2>2, <2>3 DEF modeVars, Fields, Asked
<1>2. CASE ReplayBoundary
  <2>1. /\ client = "replay" /\ next <= Len(script) /\ pc = "idle" /\ turn = NoTurn
        /\ UNCHANGED <<form, edited, requests, tuned, changed, events,
                       client, isolated, script, pc, turn>>
        /\ Hear(next, {}, {}) /\ next' = next + 1 /\ settings' = Factory(settings.mode)
    BY <1>0, <1>2 DEF ReplayBoundary, InTurn
  <2>2. Heard'
    <3>1. next \in DOMAIN script /\ next \in 1..next
      BY <2>1 DEF Heard
    <3>2. said' \subseteq {next} /\ observed' \subseteq {next}
          /\ (next \in observed' => script[next].says = "statement")
      BY <2>1, HearAdds
    <3>3. QED
      BY <2>1, <3>1, <3>2 DEF Heard
  <2>3. InTurn'
    BY <2>1 DEF InTurn, NoTurn, TurnType, Built
  <2>4. settings' \in SettingsType
    BY <2>1, FactorySettings DEF Fields, SettingsType, AnyMode
  <2>5. QED
    BY <2>1, <2>2, <2>3, <2>4 DEF Fields, Asked
<1>3. CASE Ask
  BY <1>3 DEF Ask, modeVars, Fields, Asked, Heard, InTurn, History, Built
<1>4. CASE SidebarStep
  <2>1. client = "sidebar" /\ Sidebar /\ UNCHANGED runVars
    BY <1>4 DEF SidebarStep
  <2>2. Fields' /\ Asked'
    BY <2>1, SidebarTyped DEF runVars
  <2>3. QED
    BY <2>1, <2>2 DEF runVars, Heard, InTurn, History, Built
<1>5. ASSUME NEW k \in Kinds, Say(k), client # "replay", changed' \in BOOLEAN,
             UNCHANGED <<settings, form, edited, requests, tuned, events>>
      PROVE  Typed'
  <2>1. k \in Message /\ script' = Append(script, k) /\ client' = client
        /\ turn' = NoTurn /\ pc' = "recall" /\ next' = next
    BY <1>5, ConversationsTyped DEF Say
  <2>2. /\ script' \in Seq(Message) /\ Len(script') = Len(script) + 1
        /\ \A i \in DOMAIN script : i \in DOMAIN script' /\ script'[i] = script[i]
        /\ Len(script) + 1 \in DOMAIN script' /\ script'[Len(script) + 1] = k
    BY <2>1 DEF Heard
  <2>3. said' \subseteq DOMAIN script'
    BY <1>5, <2>2 DEF Say, Heard
  <2>4. observed' \subseteq {i \in DOMAIN script' : script'[i].says = "statement"}
    <3>1. observed' \subseteq observed \cup {Len(script) + 1}
          /\ (Len(script) + 1 \in observed' => Len(script) + 1 \in observed \/ k.says = "statement")
      BY <1>5 DEF Say, Memorable
    <3>2. QED
      BY <2>2, <3>1 DEF Heard
  <2>5. InTurn'
    BY <1>5, <2>1, FactorySettings DEF InTurn, NoTurn, TurnType, Built
  <2>6. QED
    BY <1>5, <2>1, <2>2, <2>3, <2>4, <2>5 DEF Fields, Asked, Heard
<1>6. CASE SidebarChat
  BY <1>5, <1>6 DEF SidebarChat
<1>7. CASE ApiChat
  BY <1>5, <1>7 DEF ApiChat
<1>8. CASE ApiSwitch
  <2>1. PICK m \in Offered : ApiMode(m)
    BY <1>8 DEF ApiSwitch
  <2>2. [mode |-> m] \in [mode : AnyMode]
    BY OfferedTyped DEF AnyMode
  <2>3. settings' \in SettingsType
    BY <2>1, <2>2, RequestedIs DEF ApiMode, Fields
  <2>4. tuned' \in BOOLEAN /\ changed' = TRUE
    BY <2>1 DEF ApiMode, Fields
  <2>5. QED
    BY <1>8, <2>1, <2>3, <2>4
    DEF ApiSwitch, ApiMode, runVars, Fields, Asked, Heard, InTurn, History, Built
<1>9. ASSUME UNCHANGED <<modeVars, client, isolated, script, next, current, said, observed>>,
             turn' \in TurnType, pc # "idle", pc' # "idle",
             turn'.recalled \subseteq observed, turn'.chunks \subseteq History,
             turn'.memory \subseteq turn'.recalled, turn'.chunk \subseteq turn'.chunks,
             turn'.window \subseteq History,
             ~Built' => turn'.window = {} /\ turn'.memory = {} /\ turn'.chunk = {}
      PROVE  Typed'
  <2>1. Fields' /\ Asked' /\ Heard'
    BY <1>9 DEF modeVars, Fields, Asked, Heard
  <2>2. History' = History
    BY <1>9 DEF History
  <2>3. QED
    BY <1>9, <2>1, <2>2 DEF InTurn
<1>10. observed \subseteq Nat /\ said \subseteq Nat /\ History \subseteq Nat
  BY DEF Heard, History
<1>11. CASE Recall
  <2>1. PICK S \in SUBSET observed : turn' = [turn EXCEPT !.recalled = S]
    BY <1>11 DEF Recall, Recalls
  <2>2. /\ turn' \in TurnType /\ turn'.recalled = S
        /\ turn'.chunks = turn.chunks /\ turn'.window = {} /\ turn'.memory = {}
        /\ turn'.chunk = {}
    BY <1>10, <1>11, <2>1 DEF Recall, InTurn, TurnType, Built
  <2>3. QED
    BY <1>9, <1>11, <2>1, <2>2 DEF Recall, InTurn
<1>12. CASE Prepare
  <2>1. /\ turn' \in TurnType /\ turn'.recalled = turn.recalled
        /\ turn'.chunks = turn.chunks /\ turn'.window = {} /\ turn'.memory = {}
        /\ turn'.chunk = {}
    BY <1>12 DEF Prepare, Fields, InTurn, TurnType, Built
  <2>2. QED
    BY <1>9, <1>12, <2>1 DEF Prepare, InTurn
<1>13. CASE RetrieveChunks
  <2>1. PICK S \in SUBSET History : turn' = [turn EXCEPT !.chunks = S]
    BY <1>13 DEF RetrieveChunks, TopChunks, kSubset
  <2>2. /\ turn' \in TurnType /\ turn'.recalled = turn.recalled
        /\ turn'.chunks = S /\ turn'.window = {} /\ turn'.memory = {}
        /\ turn'.chunk = {}
    BY <1>10, <1>13, <2>1 DEF RetrieveChunks, InTurn, TurnType, Built
  <2>3. QED
    BY <1>9, <1>13, <2>1, <2>2 DEF RetrieveChunks, InTurn
<1>14. CASE Build
  <2>1. PICK W \in SUBSET History, M \in SUBSET turn.recalled, C \in SUBSET turn.chunks :
           turn' = [turn EXCEPT !.window = W, !.memory = M, !.chunk = C]
    BY <1>14, BuildTakes
  <2>2. /\ turn' \in TurnType /\ turn'.recalled = turn.recalled
        /\ turn'.chunks = turn.chunks /\ turn'.window = W /\ turn'.memory = M
        /\ turn'.chunk = C
    BY <1>10, <2>1 DEF InTurn, TurnType
  <2>3. QED
    BY <1>9, <1>14, <2>1, <2>2 DEF Build, InTurn, Built
<1>15. CASE Label
  <2>1. settings.mode \in AnyMode
    BY DEF Fields, SettingsType, AnyMode
  <2>2. /\ turn' \in TurnType /\ turn'.recalled = turn.recalled
        /\ turn'.chunks = turn.chunks /\ turn'.window = turn.window
        /\ turn'.memory = turn.memory /\ turn'.chunk = turn.chunk
    BY <1>15, <2>1 DEF Label, InTurn, TurnType
  <2>3. QED
    BY <1>9, <1>15, <2>2 DEF Label, InTurn, Built
<1>16. CASE UNCHANGED vars
  BY <1>16 DEF vars, modeVars, runVars, Fields, Asked, Heard, InTurn, History, Built
<1>17. QED
  BY <1>1, <1>2, <1>3, <1>4, <1>6, <1>7, <1>8, <1>11, <1>12, <1>13, <1>14, <1>15, <1>16
  DEF Next, Turn, Rest

\* The types hold in every reachable state.
LEMMA TypedHolds == Spec => []Typed
  BY TypedInit, TypedStep, PTL DEF Spec

\* In every reachable state the variables have their types and the parts of a prompt are
\* what they are called: only statements are observed, evidence was recalled or ranked,
\* the window is part of the history.
THEOREM TypeCorrect == Spec => []TypeOK
<1>1. Typed => TypeOK
  <2> SUFFICES ASSUME Typed PROVE TypeOK
    OBVIOUS
  <2>1. \A r \in requests : r.kind \in {"mode", "form"}
    BY DEF Typed, Asked, RequestType
  <2>2. QED
    BY <2>1 DEF Typed, Fields, Heard, InTurn, TypeOK
<1>2. QED
  BY <1>1, TypedHolds, PTL

-------------------------------------------------------------------------------
(* Replays: one session, or the whole conversation.                        *)

\* A fresh service at every boundary hears the messages of one session only.
LEMMA OneSessionHolds == Spec => []OneSession
<1>1. Init => OneSession
  BY DEF Init, OneSession
<1>2. Typed /\ OneSession /\ [Next]_vars => OneSession'
  <2> SUFFICES ASSUME Typed, OneSession, [Next]_vars, client' = "replay", isolated'
               PROVE  /\ \A i \in said' \cup observed' : script'[i].session = current'
                      /\ next' > 1 => current' = script'[next' - 1].session
    BY DEF OneSession
  <2>1. next \in Nat
    BY DEF Typed, Heard
  <2>2. CASE ReplayMessage
    BY <2>1, <2>2, HearAdds DEF ReplayMessage, OneSession
  <2>3. CASE ReplayBoundary
    BY <2>1, <2>3, HearAdds DEF ReplayBoundary, OneSession
  <2>4. CASE UNCHANGED <<client, isolated, script, next, current, said, observed>>
    BY <2>4 DEF OneSession
  <2>5. QED
    BY <2>2, <2>3, <2>4 DEF Next, Ask, SidebarStep, runVars, SidebarChat, ApiChat, ApiSwitch,
       Say, Turn, Recall, Prepare, RetrieveChunks, Build, Label, Rest, vars
<1>3. QED
  BY <1>1, <1>2, TypedHolds, PTL DEF Spec

\* Nothing of an earlier session reaches the prompt of an isolated replay, whatever the
\* conversation: the facts that scoring declares unreachable are not there.
THEOREM SessionsAreIsolated == Spec => []IsolationHolds
<1>1. Typed /\ OneSession => IsolationHolds
  <2> SUFFICES ASSUME Typed, OneSession, client = "replay", isolated, Built,
                      NEW i \in Prompt
               PROVE  script[i].session = script[Len(script)].session
    BY DEF IsolationHolds
  <2>1. i \in said \cup observed
    BY DEF Prompt, Typed, InTurn, History
  <2>2. next = Len(script) + 1 /\ Len(script) \in Nat /\ i \in 1..(next - 1)
    BY <2>1 DEF Typed, Heard, InTurn, Built
  <2>3. next > 1 /\ next - 1 = Len(script)
    BY <2>2
  <2>4. QED
    BY <2>1, <2>3 DEF OneSession
<1>2. QED
  BY <1>1, TypedHolds, OneSessionHolds, PTL

\* The ceiling is kept: what Build leaves in the prompt costs no more, if the ceiling has
\* room for the system prompt and the question.
LEMMA CeilingKept ==
    ASSUME Typed, NEW s \in SettingsType, NEW kept, NEW M, NEW C, NEW over, NEW D, NEW N,
           BuildOutcome(s, kept, M, C, over, D, N), s.max >= Overhead
    PROVE  Cardinality(turn'.window) + Cardinality(turn'.memory) + Cardinality(turn'.chunk)
             + Overhead <= s.max
<1>1. IsFiniteSet(History) /\ History \in SUBSET Nat
      /\ IsFiniteSet(turn.recalled) /\ IsFiniteSet(turn.chunks)
  <2>1. IsFiniteSet(History) /\ History \in SUBSET Nat
    BY HeardFinite DEF Typed, Heard, History
  <2>2. IsFiniteSet(turn.chunks)
    BY <2>1, FS_Subset DEF Typed, InTurn
  <2>3. IsFiniteSet(turn.recalled)
    BY ObservedFinite, FS_Subset DEF Typed, InTurn
  <2>4. QED
    BY <2>1, <2>2, <2>3
<1>2. kept \in SUBSET Nat /\ IsFiniteSet(kept) /\ Cardinality(kept) \in Nat
  <2>1. kept \subseteq History
    BY DEF BuildOutcome, Newest
  <2>2. QED
    BY <1>1, <2>1, FS_Subset, FS_CardinalityType
<1>3. IsFiniteSet(M) /\ Cardinality(M) \in Nat
  <2>1. M \subseteq turn.recalled
    BY DEF BuildOutcome, kSubset
  <2>2. QED
    BY <1>1, <2>1, FS_Subset, FS_CardinalityType
<1>4. IsFiniteSet(C) /\ Cardinality(C) \in Nat
  <2>1. C \subseteq turn.chunks
    BY DEF BuildOutcome, kSubset
  <2>2. QED
    BY <1>1, <2>1, FS_Subset, FS_CardinalityType
<1> DEFINE k == Cardinality(kept)
           c == Cardinality(C)
           m == Cardinality(M)
           d == Max({0, Min({over - k, c})})
           n == Max({0, Min({over - k - c, m})})
           w == Newest(kept, k - Max({over, 0}))
<1>5. Overhead \in Nat /\ s.max \in Nat
  BY RoomLeft DEF SettingsType
<1>6. k \in Nat /\ c \in Nat /\ m \in Nat /\ over = Overhead + k + c + m - s.max /\ over \in Int
  <2>1. over = Overhead + k + c + m - s.max
    BY DEF BuildOutcome
  <2> HIDE DEF k, c, m
  <2>2. k \in Nat /\ c \in Nat /\ m \in Nat
    BY <1>2, <1>3, <1>4 DEF k, c, m
  <2>3. QED
    BY <1>5, <2>1, <2>2
<1>7. Cardinality(C \ D) = c - d
  BY <1>4, Chosen DEF BuildOutcome
<1>8. Cardinality(M \ N) = m - n
  BY <1>3, Chosen DEF BuildOutcome
<1>9. /\ d = (IF 0 >= (IF over - k <= c THEN over - k ELSE c) THEN 0
              ELSE IF over - k <= c THEN over - k ELSE c)
      /\ n = (IF 0 >= (IF over - k - c <= m THEN over - k - c ELSE m) THEN 0
              ELSE IF over - k - c <= m THEN over - k - c ELSE m)
      /\ Max({over, 0}) = (IF over >= 0 THEN over ELSE 0)
  <2> HIDE DEF k, c, m
  <2>1. over - k \in Int /\ over - k - c \in Int
    BY <1>6
  <2>2. d = (IF 0 >= (IF over - k <= c THEN over - k ELSE c) THEN 0
              ELSE IF over - k <= c THEN over - k ELSE c)
    BY <1>6, <2>1, Clamp
  <2>3. n = (IF 0 >= (IF over - k - c <= m THEN over - k - c ELSE m) THEN 0
              ELSE IF over - k - c <= m THEN over - k - c ELSE m)
    BY <1>6, <2>1, Clamp
  <2>4. Max({over, 0}) = (IF over >= 0 THEN over ELSE 0)
    BY <1>6, TwoIntegers
  <2>5. QED
    BY <2>2, <2>3, <2>4
<1>10. /\ Cardinality(w) \in Nat
       /\ k - Max({over, 0}) >= 0 => Cardinality(w) <= k - Max({over, 0})
       /\ k - Max({over, 0}) < 0 => Cardinality(w) = 0
  <2>1. k - Max({over, 0}) \in Int
    BY <1>6, <1>9
  <2>2. QED
    BY <1>2, <2>1, NewestBounds, FS_EmptySet
<1>11. turn'.window = w /\ turn'.memory = M \ N /\ turn'.chunk = C \ D
  BY DEF BuildOutcome, Typed, InTurn, TurnType
<1> HIDE DEF k, c, m, d, n, w
<1>12. Cardinality(w) + (m - n) + (c - d) + Overhead <= s.max
  <2> DEFINE cw == Cardinality(w)
             mx == s.max
             top == Max({over, 0})
  <2>1. cw \in Nat /\ mx \in Nat /\ mx >= Overhead
    BY <1>5, <1>10
  <2> HIDE DEF cw, mx, top
  <2>2. top = (IF over >= 0 THEN over ELSE 0)
    BY <1>9 DEF top
  <2>3. (k - top >= 0 => cw <= k - top) /\ (k - top < 0 => cw = 0)
    BY <1>10 DEF top, cw
  <2>4. over = Overhead + k + c + m - mx
    BY <1>6 DEF mx
  <2>5. cw + (m - n) + (c - d) + Overhead <= mx
    BY <1>5, <1>6, <1>9, <2>1, <2>2, <2>3, <2>4
  <2>6. QED
    BY <2>5 DEF cw, mx
<1>13. QED
  BY <1>7, <1>8, <1>11, <1>12

\* A budget of zero admits nothing.
LEMMA NothingAdmitted ==
    ASSUME NEW S, IsFiniteSet(S), NEW T \in kSubset(Min({0, Cardinality(S)}), S)
    PROVE  T = {}
<1>1. Cardinality(S) \in Nat /\ 0 \in Int
  BY FS_CardinalityType
<1> DEFINE c == Cardinality(S)
<1>2. T \in SUBSET S /\ Cardinality(T) = Min({0, c})
  BY DEF kSubset
<1> HIDE DEF c
<1>3. Min({0, c}) = 0
  <2>1. c \in Nat
    BY <1>1 DEF c
  <2>2. 0 \in {0, c} /\ \A y \in {0, c} : 0 <= y
    BY <2>1
  <2>3. \A x \in {0, c} : (\A y \in {0, c} : x <= y) => x = 0
    BY <2>1
  <2>4. QED
    BY <2>2, <2>3 DEF Min
<1>4. IsFiniteSet(T)
  BY <1>2, FS_Subset
<1>5. QED
  BY <1>2, <1>3, <1>4, FS_EmptySet

\* Where the window takes everything and the evidence budgets are zero, Build keeps the
\* whole history of a replay whose ceiling has room for it, and nothing else.
LEMMA WholeKept ==
    ASSUME Typed, client = "replay", NEW s \in SettingsType, NEW kept, NEW M, NEW C,
           NEW over, NEW D, NEW N,
           BuildOutcome(s, kept, M, C, over, D, N), s.max >= Len(script) + 1 + Slack,
           s.turns = Unlimited, s.window = s.max, s.memory = 0, s.chunk = 0
    PROVE  turn'.window = said /\ turn'.memory = {} /\ turn'.chunk = {}
<1> DEFINE mx == s.max
           size == Cardinality(said)
<1>1. /\ IsFiniteSet(said) /\ said \in SUBSET Nat /\ size \in Nat /\ size <= Len(script)
      /\ History = said
  BY HeardFinite DEF Typed, History
<1>2. Len(script) \in Nat /\ Slack \in Nat /\ Overhead \in Nat /\ Overhead <= Slack + 1
      /\ mx \in Nat /\ mx >= Len(script) + 1 + Slack
  BY RoomLeft DEF SettingsType, Typed, Heard
<1>3. M = {}
  <2>1. IsFiniteSet(turn.recalled)
    BY ObservedFinite, FS_Subset DEF Typed, InTurn
  <2>2. M \in kSubset(Min({0, Cardinality(turn.recalled)}), turn.recalled)
    BY DEF BuildOutcome
  <2>3. QED
    BY <2>1, <2>2, NothingAdmitted
<1>4. C = {}
  <2>1. IsFiniteSet(turn.chunks)
    BY <1>1, FS_Subset DEF Typed, InTurn
  <2>2. IsFiniteSet(turn.chunks \ kept)
    BY <2>1, FS_Difference
  <2>3. C \in kSubset(Min({0, Cardinality(turn.chunks \ kept)}), turn.chunks \ kept)
    BY DEF BuildOutcome
  <2>4. QED
    BY <2>2, <2>3, NothingAdmitted
<1>5. kept = Newest(said, Max({1, mx}))
  BY <1>1 DEF BuildOutcome
<1>6. over = Overhead + Cardinality(kept) + 0 + 0 - mx
  BY <1>3, <1>4, FS_EmptySet DEF BuildOutcome
<1>7. turn'.window = Newest(kept, Cardinality(kept) - Max({over, 0}))
      /\ turn'.memory = M \ N /\ turn'.chunk = C \ D
  BY DEF BuildOutcome, Typed, InTurn, TurnType
<1> HIDE DEF mx, size
<1>8. Max({1, mx}) \in Int /\ Max({1, mx}) >= size
  <2>1. Max({1, mx}) = IF 1 >= mx THEN 1 ELSE mx
    BY <1>2, TwoIntegers
  <2>2. QED
    BY <1>1, <1>2, <2>1
<1>9. kept = said
  BY <1>1, <1>5, <1>8, NewestBounds DEF size
<1>10. Max({over, 0}) = 0
  <2>1. over = Overhead + size - mx
    BY <1>1, <1>2, <1>6, <1>9 DEF size
  <2>2. over \in Int /\ over <= 0
    BY <1>1, <1>2, <2>1
  <2>3. Max({over, 0}) = IF over >= 0 THEN over ELSE 0
    BY <2>2, TwoIntegers
  <2>4. QED
    BY <2>2, <2>3
<1>11. Newest(said, size - 0) = said
  <2>1. size - 0 \in Int /\ size - 0 >= size
    BY <1>1
  <2>2. QED
    BY <1>1, <2>1, NewestBounds DEF size
<1>12. QED
  BY <1>3, <1>4, <1>7, <1>9, <1>10, <1>11 DEF size

\* The ceiling of a replay in one session keeps its room, and what is built under it is
\* whole in full context and within the ceiling in every mode.
LEMMA ReferenceHolds == Spec => []Reference
<1>1. Init => Reference
  <2> SUFFICES ASSUME Init, client = "replay"
               PROVE  /\ settings.max >= Len(script) + 1 + Slack
                      /\ settings.mode = "full_context" =>
                             settings.turns = Unlimited /\ settings.window = settings.max
                                 /\ settings.memory = 0 /\ settings.chunk = 0
    BY DEF Init, Reference, Built
  <2>1. PICK m \in Modes : settings = Raised(Factory(m), ReplayCeiling(script))
    BY DEF Init, ModesInit
  <2>2. script \in Seq(Message)
    BY ConversationsTyped DEF Init
  <2>3. ReplayCeiling(script) \in Nat /\ ReplayCeiling(script) >= Len(script) + 1 + Slack
        /\ m \in AnyMode
    BY <2>2, CeilingRoom DEF AnyMode
  <2>4. /\ settings \in SettingsType /\ settings.max >= ReplayCeiling(script)
        /\ settings.mode = "full_context" =>
               settings.turns = Unlimited /\ settings.window = settings.max
                   /\ settings.memory = 0 /\ settings.chunk = 0
    BY <2>1, <2>3, FactorySettings
  <2>5. settings.max \in Nat /\ Len(script) + 1 + Slack \in Nat
    BY <2>2, <2>4, RoomLeft DEF SettingsType
  <2>6. QED
    BY <2>3, <2>4, <2>5
<1>2. Typed /\ Reference /\ [Next]_vars => Reference'
  <2> SUFFICES ASSUME Typed, Reference, [Next]_vars, client' = "replay", ~isolated'
               PROVE  Reference'
    BY DEF Reference
  <2>1. client = "replay" /\ ~isolated
    <3>1. ASSUME Next PROVE UNCHANGED <<client, isolated>>
      <4>1. CASE ReplayMessage \/ ReplayBoundary \/ Ask \/ SidebarStep \/ ApiSwitch
        BY <4>1 DEF ReplayMessage, ReplayBoundary, Ask, SidebarStep, ApiSwitch, runVars
      <4>2. CASE SidebarChat \/ ApiChat
        BY <4>2 DEF SidebarChat, ApiChat, Say
      <4>3. CASE Turn
        BY <4>3 DEF Turn, Recall, Prepare, RetrieveChunks, Build, Label
      <4>4. QED
        BY <3>1, <4>1, <4>2, <4>3 DEF Next, Rest, vars, runVars
    <3>2. UNCHANGED <<client, isolated>>
      BY <3>1 DEF vars, runVars
    <3>3. QED
      BY <3>2
  <2> DEFINE Room(s) == /\ s.max >= Len(script) + 1 + Slack
                        /\ s.mode = "full_context" =>
                               s.turns = Unlimited /\ s.window = s.max
                                   /\ s.memory = 0 /\ s.chunk = 0
  <2>2. Room(settings)
    BY <2>1 DEF Reference
  <2>3. CASE ReplayMessage
    <3>1. pc' = "idle" /\ UNCHANGED <<settings, script>>
      BY <2>3 DEF ReplayMessage, Typed, InTurn, Heard, modeVars
    <3>2. QED
      BY <2>2, <3>1 DEF Reference, Built
  <2>4. CASE ReplayBoundary
    BY <2>1, <2>4 DEF ReplayBoundary
  <2>5. CASE Ask \/ Recall
    <3>1. UNCHANGED <<settings, script>> /\ pc' \in {"recall", "prepare"}
      BY <2>5 DEF Ask, Recall, modeVars
    <3>2. QED
      BY <2>2, <3>1 DEF Reference, Built
  <2>6. CASE Prepare
    <3>1. UNCHANGED <<settings, script>> /\ pc' = "chunks" /\ turn'.under = settings
      BY <2>6 DEF Prepare, modeVars, Typed, InTurn, TurnType
    <3>2. QED
      BY <2>2, <3>1 DEF Reference, Built
  <2>7. CASE RetrieveChunks
    <3>1. UNCHANGED <<settings, script>> /\ pc = "chunks" /\ pc' = "build"
          /\ turn'.under = turn.under
      BY <2>7 DEF RetrieveChunks, modeVars, Typed, InTurn, TurnType
    <3>2. QED
      BY <2>1, <2>2, <3>1 DEF Reference, Built
  <2>8. CASE Build
    <3>1. UNCHANGED <<settings, script, said>> /\ pc = "build" /\ pc' = "label"
      BY <2>8 DEF Build, modeVars
    <3>2. turn.under = settings /\ settings \in SettingsType
      BY <2>1, <3>1 DEF Reference, Typed, Fields
    <3>3. PICK kept, M, C, over, D, N : BuildOutcome(settings, kept, M, C, over, D, N)
      BY <2>8, <3>2, BuildHasOutcome
    <3>4. settings.max >= Overhead
      <4>1. settings.max \in Nat /\ Len(script) \in Nat /\ Slack \in Nat /\ Overhead \in Nat
            /\ Overhead <= Slack + 1
        BY <3>2, RoomLeft DEF SettingsType, Typed, Heard
      <4>2. QED
        BY <2>2, <4>1
    <3>5. Cardinality(turn'.window) + Cardinality(turn'.memory) + Cardinality(turn'.chunk)
            + Overhead <= settings.max
      BY <3>2, <3>3, <3>4, CeilingKept
    <3>6. ASSUME settings.mode = "full_context" PROVE Prompt' = said
      <4>1. turn'.window = said /\ turn'.memory = {} /\ turn'.chunk = {}
        BY <2>1, <2>2, <3>2, <3>3, <3>6, WholeKept
      <4>2. QED
        BY <4>1 DEF Prompt
    <3>7. turn'.under = turn.under
      BY <3>3 DEF BuildOutcome, Typed, InTurn, TurnType
    <3>8. QED
      BY <2>2, <3>1, <3>2, <3>5, <3>6, <3>7 DEF Reference
  <2>9. CASE Label
    <3>1. UNCHANGED <<settings, script, said>> /\ pc = "label" /\ pc' = "done"
      BY <2>9 DEF Label, modeVars
    <3>2. /\ turn'.under = turn.under /\ turn'.window = turn.window
          /\ turn'.memory = turn.memory /\ turn'.chunk = turn.chunk
      BY <2>9 DEF Label, Typed, InTurn, TurnType
    <3>3. QED
      BY <2>1, <2>2, <3>1, <3>2 DEF Reference, Built, Prompt
  <2>10. CASE UNCHANGED vars
    BY <2>1, <2>10 DEF vars, modeVars, runVars, Reference, Built, Prompt
  <2>11. QED
    BY <2>1, <2>3, <2>4, <2>5, <2>6, <2>7, <2>8, <2>9, <2>10
    DEF Next, SidebarStep, SidebarChat, ApiChat, ApiSwitch, Turn, Rest
<1>3. QED
  BY <1>1, <1>2, TypedHolds, PTL DEF Spec

\* The full-context prompt of a replay in one session holds the whole conversation,
\* however long it is, and the prompt of no mode passes that ceiling.
THEOREM ReferenceIsTheWhole == Spec => []ReferenceIsWhole
<1>1. Reference => ReferenceIsWhole
  BY DEF Reference, ReferenceIsWhole
<1>2. QED
  BY <1>1, ReferenceHolds, PTL

-------------------------------------------------------------------------------
(* What holds besides when the sidebar's requests are served one at a time. *)

\* There is one request at most, and its copy of the settings is what they are.
Serial == /\ \A r, q \in requests : r = q
          /\ \A r \in requests : r.read \in {NoCopy, settings}

\* Unless set by hand, the budgets follow the mode; a turn that saw no change of the
\* settings is built from evidence the mode uses, and a turn whose budgets were not set
\* by hand admits no other.
Prepared == pc \in {"chunks", "build", "label", "done"}
Evidenced ==
    /\ ~tuned => Follows(settings)
    /\ ~changed => /\ turn.recalled # {} => UsesMemory(settings.mode)
                   /\ turn.chunks # {} => UsesRag(settings.mode)
                   /\ Prepared => turn.under = settings
                   /\ pc = "done" => turn.label = settings.mode
    /\ Prepared /\ ~turn.tuned => Follows(turn.under)
    /\ Built /\ ~turn.tuned => /\ turn.memory # {} => UsesMemory(turn.under.mode)
                               /\ turn.chunk # {} => UsesRag(turn.under.mode)

\* What the sidebar shows: the selector is ahead of the session's mode only while a
\* selection is pending, the sliders are ahead of the budgets only while a request is.
Shows ==
    client = "sidebar" =>
        /\ settings.mode \in Modes /\ form.mode \in Modes
        /\ \A r \in requests :
               /\ r.fields.mode = form.mode
               /\ r.kind = "form" /\ ~edited => r.fields = form
        /\ (\A r \in requests : r.kind = "form") => form.mode = settings.mode
        /\ requests = {} /\ ~edited => \A f \in Sliders : form[f] = settings[f]

\* With no more than one request at a time a handler's copy stays current.
LEMMA SerialStep ==
    ASSUME MaxRequests = 1, Typed, Typed', Serial, [Next]_vars
    PROVE  Serial'
<1> USE DEF Typed
<1>1. CASE client' # "sidebar"
  BY <1>1 DEF Asked, Serial
<1>2. CASE SidebarStep
  <2>1. Sidebar
    BY <1>2 DEF SidebarStep
  <2>2. CASE EditForm
    BY <2>2 DEF EditForm, Serial
  <2>3. Free => requests = {}
    <3>1. IsFiniteSet(requests) /\ Cardinality(requests) \in Nat
      BY FS_CardinalityType DEF Asked
    <3>2. QED
      BY <3>1, FS_EmptySet DEF Free
  <2>4. CASE SelectMode \/ SubmitForm
    <3>1. PICK r : requests' = requests \cup {r} /\ r.read = NoCopy
      <4>1. CASE SelectMode
        <5>1. PICK m : requests' = requests \cup {Request("mode", [mode |-> m])}
          BY <4>1 DEF SelectMode
        <5>2. Request("mode", [mode |-> m]).read = NoCopy
          BY DEF Request
        <5>3. QED
          BY <5>1, <5>2
      <4>2. CASE SubmitForm
        <5>1. Request("form", form).read = NoCopy
          BY DEF Request
        <5>2. QED
          BY <4>2, <5>1 DEF SubmitForm
      <4>3. QED
        BY <2>4, <4>1, <4>2
    <3>2. requests = {}
      BY <2>3, <2>4 DEF SelectMode, SubmitForm
    <3>3. QED
      BY <3>1, <3>2 DEF Serial
  <2>5. CASE ReadSettings
    <3>1. PICK r \in requests : requests' = (requests \ {r}) \cup {[r EXCEPT !.read = settings]}
      BY <2>5 DEF ReadSettings
    <3>2. requests \ {r} = {}
      BY DEF Serial
    <3>3. [r EXCEPT !.read = settings].read = settings
      BY DEF Asked, RequestType
    <3>4. settings' = settings
      BY <2>5 DEF ReadSettings
    <3> DEFINE q == [r EXCEPT !.read = settings]
    <3>5. q.read = settings /\ requests' = {q}
      BY <3>1, <3>2, <3>3
    <3> HIDE DEF q
    <3>6. QED
      BY <3>4, <3>5 DEF Serial
  <2>6. CASE WriteSettings
    <3>1. PICK r \in requests : requests' = requests \ {r}
      BY <2>6 DEF WriteSettings
    <3>2. QED
      BY <3>1 DEF Serial
  <2>7. QED
    BY <2>1, <2>2, <2>4, <2>5, <2>6 DEF Sidebar
<1>3. CASE SidebarChat
  BY <1>3 DEF SidebarChat, Serial
<1>4. CASE UNCHANGED modeVars
  BY <1>4 DEF modeVars, Serial
<1>5. CASE ReplayBoundary \/ ApiChat \/ ApiSwitch
  <2>1. client' = client /\ client \in {"api", "replay"}
    BY <1>5 DEF ReplayBoundary, ApiChat, ApiSwitch, Say, runVars
  <2>2. QED
    BY <1>1, <2>1
<1>6. QED
  BY <1>2, <1>3, <1>4, <1>5
  DEF Next, ReplayMessage, Ask, Turn, Recall, Prepare, RetrieveChunks, Build, Label, Rest, vars

\* A request served on a current copy leaves the budgets in step with the mode, unless it
\* sets them itself.
LEMMA FollowsAfter ==
    ASSUME NEW s \in SettingsType, NEW fields \in [mode : AnyMode] \cup FormType,
           Rewrites(s, fields) \/ (Follows(s) /\ fields \in [mode : AnyMode])
    PROVE  Follows(Requested(s, s, fields))
<1> DEFINE t == Requested(s, s, fields)
<1>1. CASE Rewrites(s, fields)
  BY <1>1, RequestedIs
<1>2. CASE ~Rewrites(s, fields)
  <2>1. t.mode = fields.mode /\ SameSliders(t, s) /\ Follows(s)
    BY <1>2, RequestedIs
  <2>2. s.mode = Resolve(t.mode) /\ Resolve(s.mode) = s.mode
    <3>1. t.mode \in AnyMode /\ Resolve(t.mode) = s.mode
      BY <1>2, <2>1 DEF Rewrites, FormType
    <3>2. QED
      BY <3>1, ModesAre
  <2> HIDE DEF t
  <2>3. (UsesMemory(t.mode) <=> UsesMemory(s.mode)) /\ (UsesRag(t.mode) <=> UsesRag(s.mode))
    BY <2>2 DEF UsesMemory, UsesRag
  <2>4. Follows(t)
    BY <2>1, <2>3 DEF Follows, SameSliders
  <2>5. QED
    BY <2>4 DEF t
<1>3. QED
  BY <1>1, <1>2

\* No step of a client whose requests are served one at a time lets a prompt's evidence
\* out of step with its mode.
LEMMA EvidencedStep ==
    ASSUME Typed, Serial, Evidenced, [Next]_vars
    PROVE  Evidenced'
<1> USE DEF Typed
<1>1. ASSUME UNCHANGED <<settings, tuned, changed, pc, turn>> PROVE Evidenced'
  BY <1>1 DEF Evidenced, Prepared, Built
<1>2. ASSUME UNCHANGED <<pc, turn>>, changed' = TRUE, ~tuned' => Follows(settings')
      PROVE  Evidenced'
  BY <1>2 DEF Evidenced, Prepared, Built
<1>3. ASSUME pc' \in {"idle", "recall"}, turn' = NoTurn, ~tuned' => Follows(settings')
      PROVE  Evidenced'
  BY <1>3 DEF Evidenced, Prepared, Built, NoTurn
<1>4. CASE ReplayMessage \/ Ask
  <2>1. CASE ReplayMessage
    BY <1>1, <2>1 DEF ReplayMessage, modeVars
  <2>2. CASE Ask
    BY <1>3, <2>2 DEF Ask, modeVars, Evidenced, InTurn
  <2>3. QED
    BY <1>4, <2>1, <2>2
<1>5. CASE ReplayBoundary
  <2>1. Follows(settings')
    BY <1>5, FactorySettings DEF ReplayBoundary, Fields, SettingsType, AnyMode
  <2>2. pc' = "idle" /\ turn' = NoTurn
    BY <1>5 DEF ReplayBoundary, InTurn, Heard
  <2>3. QED
    BY <1>3, <2>1, <2>2
<1>6. CASE SidebarStep
  <2>1. UNCHANGED <<pc, turn>> /\ Sidebar
    BY <1>6 DEF SidebarStep, runVars
  <2>2. CASE EditForm \/ SelectMode \/ SubmitForm \/ ReadSettings
    BY <1>1, <2>1, <2>2 DEF EditForm, SelectMode, SubmitForm, ReadSettings
  <2>3. CASE WriteSettings
    <3>1. PICK r \in requests :
            /\ r.read # NoCopy
            /\ settings' = Requested(r.read, settings, r.fields)
            /\ tuned' = IF Rewrites(settings, r.fields) THEN FALSE
                        ELSE tuned \/ r.kind = "form"
      BY <2>3 DEF WriteSettings
    <3>2. r.read = settings /\ settings \in SettingsType
      BY <3>1 DEF Serial, Fields
    <3>3. /\ r.fields \in [mode : AnyMode] \cup FormType
          /\ r.kind # "form" => r.fields \in [mode : AnyMode]
      BY DEF Asked, RequestType
    <3>4. ASSUME ~tuned' PROVE Follows(settings')
      <4>1. Rewrites(settings, r.fields) \/ (~tuned /\ r.kind # "form")
        BY <3>1, <3>4
      <4>2. QED
        BY <3>1, <3>2, <3>3, <4>1, FollowsAfter DEF Evidenced
    <3>5. changed' = TRUE
      BY <2>3 DEF WriteSettings
    <3>6. QED
      BY <1>2, <2>1, <3>4, <3>5
  <2>4. QED
    BY <2>1, <2>2, <2>3 DEF Sidebar
<1>7. CASE SidebarChat \/ ApiChat
  <2>1. pc' = "recall" /\ turn' = NoTurn /\ UNCHANGED <<settings, tuned>>
    BY <1>7 DEF SidebarChat, ApiChat, Say
  <2>2. QED
    BY <1>3, <2>1 DEF Evidenced
<1>8. CASE ApiSwitch
  <2>1. PICK m \in Offered : ApiMode(m)
    BY <1>8 DEF ApiSwitch
  <2>2. [mode |-> m] \in [mode : AnyMode]
    BY OfferedTyped DEF AnyMode
  <2>3. ASSUME ~tuned' PROVE Follows(settings')
    <3>1. Rewrites(settings, [mode |-> m]) \/ Follows(settings)
      BY <2>1, <2>3 DEF ApiMode, Evidenced
    <3>2. settings' = Requested(settings, settings, [mode |-> m])
      BY <2>1 DEF ApiMode
    <3>3. QED
      BY <2>2, <3>1, <3>2, FollowsAfter DEF Fields
  <2>4. QED
    BY <1>2, <1>8, <2>1, <2>3 DEF ApiSwitch, ApiMode, runVars
<1>9. CASE Recall
  <2>1. PICK S : turn' = [turn EXCEPT !.recalled = S] /\ (S # {} => UsesMemory(settings.mode))
    BY <1>9 DEF Recall
  <2>2. turn'.recalled = S /\ turn'.chunks = turn.chunks
    BY <2>1 DEF InTurn, TurnType
  <2>3. QED
    BY <1>9, <2>1, <2>2 DEF Recall, modeVars, Evidenced, Prepared, Built
<1>10. CASE Prepare
  <2>1. /\ turn'.recalled = turn.recalled /\ turn'.chunks = turn.chunks
        /\ turn'.under = settings /\ turn'.tuned = tuned
    BY <1>10 DEF Prepare, InTurn, TurnType
  <2>2. QED
    BY <1>10, <2>1 DEF Prepare, modeVars, Evidenced, Prepared, Built
<1>11. CASE RetrieveChunks
  <2>1. PICK S : turn' = [turn EXCEPT !.chunks = S] /\ (S # {} => UsesRag(settings.mode))
    BY <1>11 DEF RetrieveChunks
  <2>2. /\ turn'.recalled = turn.recalled /\ turn'.chunks = S
        /\ turn'.under = turn.under /\ turn'.tuned = turn.tuned
    BY <2>1 DEF InTurn, TurnType
  <2>3. QED
    BY <1>11, <2>1, <2>2 DEF RetrieveChunks, modeVars, Evidenced, Prepared, Built
<1>12. CASE Build
  <2> DEFINE s == turn.under
  <2>1. PICK kept, M, C, over, D, N : BuildOutcome(s, kept, M, C, over, D, N)
    BY <1>12, BuildHasOutcome
  <2>2. /\ turn'.memory = M \ N /\ turn'.chunk = C \ D
        /\ turn'.recalled = turn.recalled /\ turn'.chunks = turn.chunks
        /\ turn'.under = s /\ turn'.tuned = turn.tuned
    BY <2>1 DEF BuildOutcome, InTurn, TurnType
  <2>3. ASSUME s.memory = 0 PROVE M = {}
    <3>1. IsFiniteSet(turn.recalled)
      BY ObservedFinite, FS_Subset DEF InTurn
    <3>2. M \in kSubset(Min({0, Cardinality(turn.recalled)}), turn.recalled)
      BY <2>1, <2>3 DEF BuildOutcome
    <3>3. QED
      BY <3>1, <3>2, NothingAdmitted
  <2>4. ASSUME s.chunk = 0 PROVE C = {}
    <3>1. IsFiniteSet(turn.chunks)
      BY HeardFinite, FS_Subset DEF InTurn
    <3>2. IsFiniteSet(turn.chunks \ kept)
      BY <3>1, FS_Difference
    <3>3. C \in kSubset(Min({0, Cardinality(turn.chunks \ kept)}), turn.chunks \ kept)
      BY <2>1, <2>4 DEF BuildOutcome
    <3>4. QED
      BY <3>2, <3>3, NothingAdmitted
  <2>5. pc = "build" /\ pc' = "label" /\ UNCHANGED <<settings, tuned, changed>>
    BY <1>12 DEF Build, modeVars
  <2>6. ~turn.tuned => /\ s.memory # 0 => UsesMemory(s.mode)
                       /\ s.chunk # 0 => UsesRag(s.mode)
    BY <2>5 DEF Evidenced, Prepared, Follows
  <2> HIDE DEF s
  <2>7. s = turn.under
    BY DEF s
  <2>8. QED
    BY <2>2, <2>3, <2>4, <2>5, <2>6, <2>7 DEF Evidenced, Prepared, Built
<1>13. CASE Label
  <2>1. /\ turn'.recalled = turn.recalled /\ turn'.chunks = turn.chunks
        /\ turn'.memory = turn.memory /\ turn'.chunk = turn.chunk
        /\ turn'.under = turn.under /\ turn'.tuned = turn.tuned /\ turn'.label = settings.mode
    BY <1>13 DEF Label, InTurn, TurnType
  <2>2. pc = "label" /\ pc' = "done" /\ UNCHANGED <<settings, tuned, changed>>
    BY <1>13 DEF Label, modeVars
  <2>3. QED
    BY <2>1, <2>2 DEF Evidenced, Prepared, Built
<1>14. CASE UNCHANGED vars
  BY <1>1, <1>14 DEF vars, modeVars, runVars
<1>15. QED
  BY <1>4, <1>5, <1>6, <1>7, <1>8, <1>9, <1>10, <1>11, <1>12, <1>13, <1>14
  DEF Next, Turn, Rest

\* Where the sidebar's requests are served one at a time, a prompt carries evidence only
\* of the kinds its mode uses, unless the visitor set the budgets by hand and the mode
\* changed in the middle of the turn; and the turn is labelled with that mode.
THEOREM EvidenceFits ==
    ASSUME MaxRequests = 1
    PROVE  Spec => []EvidenceFitsMode
<1>1. Init => Serial /\ Evidenced
  <2> SUFFICES ASSUME Init PROVE Serial /\ Evidenced
    OBVIOUS
  <2>1. requests = {}
    BY DEF Init, ModesInit
  <2>2. Follows(settings)
    <3>1. script \in Seq(Message)
      BY TypedInit DEF Typed, Heard
    <3>2. CASE client = "replay"
      <4>1. PICK m \in Modes : settings = Raised(Factory(m), ReplayCeiling(script))
        BY <3>2 DEF Init, ModesInit
      <4>2. ReplayCeiling(script) \in Nat /\ m \in AnyMode
        BY <3>1, CeilingRoom DEF AnyMode
      <4>3. QED
        BY <4>1, <4>2, FactorySettings
    <3>3. CASE client # "replay"
      BY <3>3, FactorySettings DEF Init, ModesInit
    <3>4. QED
      BY <3>2, <3>3
  <2>3. pc = "idle" /\ turn = NoTurn
    BY DEF Init
  <2>4. QED
    BY <2>1, <2>2, <2>3 DEF Serial, Evidenced, Prepared, Built, NoTurn
<1>2. Typed /\ Typed' /\ Serial /\ Evidenced /\ [Next]_vars => Serial' /\ Evidenced'
  BY SerialStep, EvidencedStep
<1>3. Typed /\ Evidenced => EvidenceFitsMode
  BY DEF Typed, InTurn, Evidenced, EvidenceFitsMode, Prepared, Built
<1>4. QED
  BY <1>1, <1>2, <1>3, TypedHolds, PTL DEF Spec

\* Requests served one at a time keep the sidebar no further from the settings than the
\* request in flight accounts for.
LEMMA ShowsStep ==
    ASSUME MaxRequests = 1, Offered \subseteq Modes, Typed, Serial, Shows, [Next]_vars
    PROVE  Shows'
<1> USE DEF Typed
<1>1. ASSUME UNCHANGED <<client, settings, form, edited, requests>> PROVE Shows'
  BY <1>1 DEF Shows
<1>2. CASE SidebarStep
  <2>1. Sidebar /\ client = "sidebar" /\ client' = client
    BY <1>2 DEF SidebarStep, runVars
  <2>2. /\ settings.mode \in Modes /\ form.mode \in Modes
        /\ \A r \in requests : /\ r.fields.mode = form.mode
                               /\ r.kind = "form" /\ ~edited => r.fields = form
        /\ (\A r \in requests : r.kind = "form") => form.mode = settings.mode
        /\ requests = {} /\ ~edited => \A f \in Sliders : form[f] = settings[f]
    BY <2>1 DEF Shows
  <2>3. Free => requests = {}
    <3>1. IsFiniteSet(requests) /\ Cardinality(requests) \in Nat
      BY FS_CardinalityType DEF Asked
    <3>2. QED
      BY <3>1, FS_EmptySet DEF Free
  <2>4. CASE EditForm
    <3>1. edited' = TRUE /\ UNCHANGED <<settings, requests>>
      BY <2>4 DEF EditForm
    <3>2. form'.mode = form.mode
      BY <2>4 DEF EditForm, Fields, FormType
    <3>3. QED
      BY <2>2, <3>1, <3>2 DEF Shows
  <2>5. CASE SelectMode
    <3>1. PICK m \in Offered : /\ form' = [form EXCEPT !.mode = m]
                               /\ requests' = requests \cup {Request("mode", [mode |-> m])}
      BY <2>5 DEF SelectMode
    <3> DEFINE q == Request("mode", [mode |-> m])
    <3>2. q.kind = "mode" /\ q.fields.mode = m
      BY DEF Request
    <3>3. requests' = {q} /\ settings' = settings
      BY <2>3, <2>5, <3>1 DEF SelectMode
    <3>4. form'.mode = m /\ m \in Modes
      BY <3>1 DEF Fields, FormType
    <3> HIDE DEF q
    <3>5. QED
      BY <2>2, <3>2, <3>3, <3>4 DEF Shows
  <2>6. CASE SubmitForm
    <3> DEFINE q == Request("form", form)
    <3>1. q.kind = "form" /\ q.fields = form
      BY DEF Request
    <3>2. requests' = {q} /\ UNCHANGED <<settings, form>> /\ requests = {}
      BY <2>3, <2>6 DEF SubmitForm
    <3> HIDE DEF q
    <3>3. QED
      BY <2>2, <3>1, <3>2 DEF Shows
  <2>7. CASE ReadSettings
    <3>1. PICK r \in requests : requests' = (requests \ {r}) \cup {[r EXCEPT !.read = settings]}
      BY <2>7 DEF ReadSettings
    <3>2. requests = {r}
      BY DEF Serial
    <3> DEFINE q == [r EXCEPT !.read = settings]
    <3>3. q.kind = r.kind /\ q.fields = r.fields
      BY DEF Asked, RequestType
    <3>4. requests' = {q} /\ UNCHANGED <<settings, form, edited>>
      BY <2>7, <3>1, <3>2 DEF ReadSettings
    <3> HIDE DEF q
    <3>5. QED
      BY <2>2, <3>2, <3>3, <3>4 DEF Shows
  <2>8. CASE WriteSettings
    <3>1. PICK r \in requests :
            /\ r.read # NoCopy
            /\ settings' = Requested(r.read, settings, r.fields)
            /\ requests' = requests \ {r}
            /\ form' = IF r.kind = "mode" THEN Shown(settings') ELSE form
      BY <2>8 DEF WriteSettings
    <3>2. /\ r.read = settings /\ requests' = {} /\ requests = {r} /\ edited' = edited
      BY <2>8, <3>1 DEF WriteSettings, Serial
    <3>3. /\ r.fields \in [mode : AnyMode] \cup FormType
          /\ r.kind = "form" => r.fields \in FormType
          /\ r.kind # "form" => r.kind = "mode"
      BY DEF Asked, RequestType
    <3>4. /\ settings' \in SettingsType
          /\ Rewrites(settings, r.fields) => settings'.mode = Resolve(r.fields.mode)
          /\ ~Rewrites(settings, r.fields) =>
                 /\ settings'.mode = r.fields.mode
                 /\ r.kind = "form" => SameSliders(settings', r.fields)
      <4> DEFINE fields == r.fields
      <4>1. settings' = Requested(settings, settings, fields) /\ settings \in SettingsType
        BY <3>1, <3>2 DEF Fields
      <4>2. fields \in [mode : AnyMode] \cup FormType
        BY <3>3
      <4> HIDE DEF fields
      <4>3. /\ settings' \in SettingsType
            /\ Rewrites(settings, fields) => settings'.mode = Resolve(fields.mode)
            /\ ~Rewrites(settings, fields) =>
                   /\ settings'.mode = fields.mode
                   /\ fields \in FormType => SameSliders(settings', fields)
        BY <4>1, <4>2, RequestedIs
      <4>4. QED
        BY <3>3, <4>3 DEF fields
    <3>5. settings'.mode = form.mode
      BY <2>2, <3>4, ModesAre
    <3>6. CASE r.kind = "mode"
      <4>1. form' = [settings' EXCEPT !.mode = form.mode, !.knobs = form.knobs]
        BY <3>1, <3>6 DEF Shown
      <4>2. form'.mode = form.mode /\ \A f \in Sliders : form'[f] = settings'[f]
        BY <3>4, <4>1 DEF SettingsType, Sliders
      <4>3. QED
        BY <2>2, <3>2, <3>5, <4>2 DEF Shows
    <3>7. CASE r.kind = "form"
      <4>1. form' = form /\ settings.mode = r.fields.mode
        BY <2>2, <3>1, <3>2, <3>7
      <4>2. ~Rewrites(settings, r.fields)
        BY <2>2, <4>1, ModesAre DEF Rewrites
      <4>3. SameSliders(settings', r.fields)
        BY <3>4, <3>7, <4>2
      <4>4. ~edited' => \A f \in Sliders : form'[f] = settings'[f]
        BY <2>2, <3>2, <3>7, <4>1, <4>3 DEF SameSliders, Sliders
      <4>5. QED
        BY <2>2, <3>2, <3>5, <4>1, <4>4 DEF Shows
    <3>8. QED
      BY <3>3, <3>6, <3>7
  <2>9. QED
    BY <2>1, <2>4, <2>5, <2>6, <2>7, <2>8 DEF Sidebar
<1>3. CASE SidebarChat
  BY <1>1, <1>3 DEF SidebarChat, Say
<1>4. CASE UNCHANGED modeVars /\ client' = client
  BY <1>1, <1>4 DEF modeVars
<1>5. CASE ReplayBoundary \/ ApiChat \/ ApiSwitch
  BY <1>5 DEF ReplayBoundary, ApiChat, ApiSwitch, Say, runVars, Shows
<1>6. QED
  BY <1>2, <1>3, <1>4, <1>5
  DEF Next, ReplayMessage, Ask, Turn, Recall, Prepare, RetrieveChunks, Build, Label, Rest,
      vars, runVars

\* Where the sidebar's requests are served one at a time and its selector offers the
\* modes by their own names, a sidebar with nothing in flight and no edit left behind
\* shows the mode and the budgets of the next turn.
THEOREM SidebarIsTruthful ==
    ASSUME MaxRequests = 1, Offered \subseteq Modes
    PROVE  Spec => []SidebarTruthful
<1>1. Init => Serial /\ Shows
  <2> SUFFICES ASSUME Init PROVE Serial /\ Shows
    OBVIOUS
  <2>1. requests = {}
    BY DEF Init, ModesInit
  <2>2. ASSUME client = "sidebar"
        PROVE  /\ settings.mode \in Modes /\ form.mode = settings.mode
               /\ \A f \in Sliders : form[f] = settings[f]
    <3>1. /\ settings = NewSettings
          /\ form = [NewSettings EXCEPT !.knobs = Restrict(NewSettings.knobs, FormKnobs)]
      BY <2>2 DEF Init, ModesInit
    <3>2. NewSettings \in SettingsType /\ NewSettings.mode \in Modes
      BY FactorySettings, ModesAre
    <3>3. QED
      BY <3>1, <3>2 DEF SettingsType, Sliders
  <2>3. QED
    BY <2>1, <2>2 DEF Serial, Shows
<1>2. Typed /\ Typed' /\ Serial /\ Shows /\ [Next]_vars => Serial' /\ Shows'
  BY SerialStep, ShowsStep
<1>3. Shows => SidebarTruthful
  BY DEF Shows, SidebarTruthful
<1>4. QED
  BY <1>1, <1>2, <1>3, TypedHolds, PTL DEF Spec

===============================================================================
