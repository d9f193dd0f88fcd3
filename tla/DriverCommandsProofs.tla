------------------------ MODULE DriverCommandsProofs ------------------------
(***************************************************************************)
(* Proofs about DriverCommands, for any number of keys, buttons, states    *)
(* and bytes.  What FixedBuffers and the input commands compute from       *)
(* sequences of any length is proved by induction, with Inductions.        *)
(***************************************************************************)
EXTENDS DriverCommands, Inductions

-----------------------------------------------------------------------------
(* Input.                                                                  *)

KeySteps == [p \in (SUBSET Keys) \X KeyboardState |-> KeyInput(p[1], p[2])]

\* One state of a key, as a step of a fold.
LEMMA KeyStepsType ==
    /\ IsStep(KeySteps, SUBSET Keys, KeyboardState)
    /\ \A held \in SUBSET Keys, state \in KeyboardState :
          KeySteps[<<held, state>>] = KeyInput(held, state)
<1>1. ASSUME NEW held \in SUBSET Keys, NEW state \in KeyboardState
      PROVE  KeyInput(held, state) \in SUBSET Keys
  BY DEF KeyInput, KeyboardState
<1>2. QED  BY <1>1 DEF KeySteps, IsStep

\* The keys that are down after a batch are the fold of these steps.
LEMMA KeyFold ==
    ASSUME NEW held \in SUBSET Keys, NEW states \in Seq(KeyboardState)
    PROVE  IsFold(FoldLeft(KeyInput, held, states), KeySteps, SUBSET Keys, held, states)
<1> DEFINE N == 1..Len(states)
           Iterates(g) == g = [d \in SUBSET N |->
                               IF d = {} THEN held ELSE KeyInput(g[d \ {Max(d)}], states[Max(d)])]
           iter == CHOOSE g : Iterates(g)
<1>1. Len(states) \in Nat /\ DOMAIN states = N /\ \A i \in N : states[i] \in KeyboardState
  BY LenProperties, ElementOfSeq
<1>2. FoldLeft(KeyInput, held, states) = iter[N]
  BY <1>1, Zenon DEF FoldLeft, MapThenFoldSet
<1>3. \A d \in SUBSET N : d # {} => states[Max(d)] \in KeyboardState
  BY <1>1, MaxProperties
<1>4. PICK g \in [SUBSET N -> SUBSET Keys] : Computes(g, KeySteps, SUBSET Keys, held, states)
  BY ComputesExists, KeyStepsType
<1>5. Iterates(g)
  <2>1. ASSUME NEW d \in SUBSET N
        PROVE  g[d] = IF d = {} THEN held ELSE KeyInput(g[d \ {Max(d)}], states[Max(d)])
    <3>1. CASE d = {}
      BY <1>4, <3>1 DEF Computes
    <3>2. CASE d # {}
      <4>1. PICK m : m = Max(d)
        OBVIOUS
      <4>2. g[d \ {m}] \in SUBSET Keys
        OBVIOUS
      <4>3. g[d] = KeySteps[<<g[d \ {m}], states[m]>>]
        BY <1>4, <3>2, <4>1, <4>2 DEF Computes
      <4>4. QED  BY <1>3, <3>2, <4>1, <4>2, <4>3, KeyStepsType
    <3>3. QED  BY <3>1, <3>2
  <2>2. QED  BY <2>1
<1>6. Iterates(iter)
  <2> HIDE DEF Iterates
  <2>1. QED  BY <1>5
<1>7. Computes(iter, KeySteps, SUBSET Keys, held, states)
  <2> HIDE DEF iter
  <2>1. iter[{}] = held
    BY <1>6
  <2>2. ASSUME NEW d \in SUBSET N, d # {}, iter[d \ {Max(d)}] \in SUBSET Keys
        PROVE  iter[d] = KeySteps[<<iter[d \ {Max(d)}], states[Max(d)]>>]
    <3>1. iter[d] = KeyInput(iter[d \ {Max(d)}], states[Max(d)])
      BY <1>6, <2>2
    <3>2. QED  BY <1>3, <2>2, <3>1, KeyStepsType
  <2>3. QED  BY <2>1, <2>2 DEF Computes
<1>8. QED  BY <1>2, <1>7 DEF IsFold

\* The keys that are held after the events of a call are those that the states
\* of the call say last are down, for every sequence of states.
LEMMA KeysAsSaid ==
    ASSUME NEW held \in SUBSET Keys, NEW states \in Seq(KeyboardState)
    PROVE  FoldLeft(KeyInput, held, states) = KeysSaid(held, states)
<1> DEFINE F(s) == FoldLeft(KeyInput, held, s)
           Of(s, key) == {i \in DOMAIN s : s[i].scane_code = key}
           T == {s \in Seq(KeyboardState) : F(s) = KeysSaid(held, s)}
<1>1. <<>> \in T
  <2>1. <<>> \in Seq(KeyboardState) /\ DOMAIN (<<>>) = {}
    BY EmptySeq
  <2>2. F(<<>>) = held
    BY <2>1, KeyFold, FoldEmpty
  <2>3. KeysSaid(held, <<>>) = held
    BY <2>1 DEF KeysSaid
  <2> HIDE DEF F
  <2>4. QED  BY <2>1, <2>2, <2>3
<1>2. ASSUME NEW s \in Seq(KeyboardState), NEW e \in KeyboardState, s \in T
      PROVE  Append(s, e) \in T
  <2> DEFINE n == Len(s)
             t == Append(s, e)
  <2>1. /\ n \in Nat /\ t \in Seq(KeyboardState) /\ t[n + 1] = e
        /\ DOMAIN s = 1..n /\ DOMAIN t = 1..(n + 1)
        /\ \A i \in 1..n : t[i] = s[i]
    BY LenProperties, AppendProperties
  <2>2. F(t) = KeyInput(F(s), e)
    <3>1. /\ IsFold(F(s), KeySteps, SUBSET Keys, held, s)
          /\ IsFold(F(t), KeySteps, SUBSET Keys, held, Append(s, e))
      BY <2>1, KeyFold
    <3>2. PICK D, value, next : D = SUBSET Keys /\ value = F(s) /\ next = F(t)
      OBVIOUS
    <3> HIDE DEF F
    <3>3. IsStep(KeySteps, D, KeyboardState) /\ held \in D
      BY <3>2, KeyStepsType
    <3>4. /\ IsFold(value, KeySteps, D, held, s)
          /\ IsFold(next, KeySteps, D, held, Append(s, e))
      BY <3>1, <3>2
    <3>5. value \in D
      BY <3>3, <3>4, FoldWithin
    <3>6. next = KeySteps[<<value, e>>]
      BY <3>3, <3>4, FoldAppend
    <3>7. QED  BY <3>2, <3>5, <3>6, KeyStepsType
  <2>3. F(s) = KeysSaid(held, s)
    BY <1>2
  <2> HIDE DEF F, t, n
  <2>4. ASSUME NEW key \in Keys, key = e.scane_code
        PROVE  Of(t, key) # {} /\ t[Max(Of(t, key))] = e
    <3>1. n + 1 \in Of(t, key) /\ Of(t, key) \in SUBSET (1..(n + 1)) /\ n + 1 \in Nat
      BY <2>1, <2>4
    <3>2. Max(Of(t, key)) = n + 1
      BY <3>1, MaxIsLast
    <3>3. QED  BY <2>1, <3>1, <3>2
  <2>5. ASSUME NEW key \in Keys, key # e.scane_code
        PROVE  /\ Of(t, key) = Of(s, key)
               /\ Of(s, key) # {} => t[Max(Of(s, key))] = s[Max(Of(s, key))]
    <3>1. Of(t, key) = Of(s, key)
      BY <2>1, <2>5
    <3>2. Of(s, key) # {} => Max(Of(s, key)) \in 1..n
      <4>1. Of(s, key) \in SUBSET (1..n)
        BY <2>1
      <4>2. QED  BY <2>1, <4>1, MaxProperties
    <3>3. QED  BY <2>1, <3>1, <3>2
  <2>6. KeysSaid(held, t) = KeyInput(KeysSaid(held, s), e)
    <3>1. e.scane_code \in Keys /\ e.down \in BOOLEAN
      BY DEF KeyboardState
    <3>2. ASSUME NEW key \in Keys
          PROVE  key \in KeysSaid(held, t) <=> key \in KeyInput(KeysSaid(held, s), e)
      <4>1. CASE key = e.scane_code
        <5>1. key \in KeysSaid(held, t) <=> e.down
          BY <2>4, <4>1 DEF KeysSaid
        <5>2. QED  BY <4>1, <5>1 DEF KeyInput
      <4>2. CASE key # e.scane_code
        <5>1. key \in KeysSaid(held, t) <=> key \in KeysSaid(held, s)
          BY <2>5, <4>2 DEF KeysSaid
        <5>2. QED  BY <4>2, <5>1 DEF KeyInput
      <4>3. QED  BY <4>1, <4>2
    <3>3. KeysSaid(held, t) \subseteq Keys /\ KeyInput(KeysSaid(held, s), e) \subseteq Keys
      BY <3>1 DEF KeysSaid, KeyInput
    <3>4. QED  BY <3>2, <3>3
  <2>7. QED  BY <2>1, <2>2, <2>3, <2>6 DEF t
<1>3. Seq(KeyboardState) \subseteq T
  <2> HIDE DEF T
  <2>1. QED  BY <1>1, <1>2, SequencesFromEmpty
<1>4. QED  BY <1>3

MouseSteps == [p \in (SUBSET Buttons) \X FfiMouseState |-> MouseInput(p[1], p[2])]

\* One state of the mouse, as a step of a fold.
LEMMA MouseStepsType ==
    /\ IsStep(MouseSteps, SUBSET Buttons, FfiMouseState)
    /\ \A held \in SUBSET Buttons, state \in FfiMouseState :
          MouseSteps[<<held, state>>] = MouseInput(held, state)
<1>1. ASSUME NEW held \in SUBSET Buttons, NEW state \in FfiMouseState
      PROVE  MouseInput(held, state) \in SUBSET Buttons
  BY DEF MouseInput, MouseState, FfiMouseState
<1>2. QED  BY <1>1 DEF MouseSteps, IsStep

\* The buttons that are down after a batch are the fold of these steps.
LEMMA MouseFold ==
    ASSUME NEW held \in SUBSET Buttons, NEW states \in Seq(FfiMouseState)
    PROVE  IsFold(FoldLeft(MouseInput, held, states), MouseSteps, SUBSET Buttons, held, states)
<1> DEFINE N == 1..Len(states)
           Iterates(g) == g = [d \in SUBSET N |->
                               IF d = {} THEN held ELSE MouseInput(g[d \ {Max(d)}], states[Max(d)])]
           iter == CHOOSE g : Iterates(g)
<1>1. Len(states) \in Nat /\ DOMAIN states = N /\ \A i \in N : states[i] \in FfiMouseState
  BY LenProperties, ElementOfSeq
<1>2. FoldLeft(MouseInput, held, states) = iter[N]
  BY <1>1, Zenon DEF FoldLeft, MapThenFoldSet
<1>3. \A d \in SUBSET N : d # {} => states[Max(d)] \in FfiMouseState
  BY <1>1, MaxProperties
<1>4. PICK g \in [SUBSET N -> SUBSET Buttons] : Computes(g, MouseSteps, SUBSET Buttons, held, states)
  BY ComputesExists, MouseStepsType
<1>5. Iterates(g)
  <2>1. ASSUME NEW d \in SUBSET N
        PROVE  g[d] = IF d = {} THEN held ELSE MouseInput(g[d \ {Max(d)}], states[Max(d)])
    <3>1. CASE d = {}
      BY <1>4, <3>1 DEF Computes
    <3>2. CASE d # {}
      <4>1. PICK m : m = Max(d)
        OBVIOUS
      <4>2. g[d \ {m}] \in SUBSET Buttons
        OBVIOUS
      <4>3. g[d] = MouseSteps[<<g[d \ {m}], states[m]>>]
        BY <1>4, <3>2, <4>1, <4>2 DEF Computes
      <4>4. QED  BY <1>3, <3>2, <4>1, <4>2, <4>3, MouseStepsType
    <3>3. QED  BY <3>1, <3>2
  <2>2. QED  BY <2>1
<1>6. Iterates(iter)
  <2> HIDE DEF Iterates
  <2>1. QED  BY <1>5
<1>7. Computes(iter, MouseSteps, SUBSET Buttons, held, states)
  <2> HIDE DEF iter
  <2>1. iter[{}] = held
    BY <1>6
  <2>2. ASSUME NEW d \in SUBSET N, d # {}, iter[d \ {Max(d)}] \in SUBSET Buttons
        PROVE  iter[d] = MouseSteps[<<iter[d \ {Max(d)}], states[Max(d)]>>]
    <3>1. iter[d] = MouseInput(iter[d \ {Max(d)}], states[Max(d)])
      BY <1>6, <2>2
    <3>2. QED  BY <1>3, <2>2, <3>1, MouseStepsType
  <2>3. QED  BY <2>1, <2>2 DEF Computes
<1>8. QED  BY <1>2, <1>7 DEF IsFold

SaidSteps == [p \in (SUBSET Buttons) \X FfiMouseState |-> Said(p[1], p[2])]

\* What one state of the mouse said, as a step of a fold.
LEMMA SaidStepsType ==
    /\ IsStep(SaidSteps, SUBSET Buttons, FfiMouseState)
    /\ \A held \in SUBSET Buttons, state \in FfiMouseState :
          SaidSteps[<<held, state>>] = Said(held, state)
<1>1. ASSUME NEW held \in SUBSET Buttons, NEW state \in FfiMouseState
      PROVE  Said(held, state) \in SUBSET Buttons
  BY DEF Said, FfiMouseState
<1>2. QED  BY <1>1 DEF SaidSteps, IsStep

\* What a batch said is the fold of these steps.
LEMMA SaidFold ==
    ASSUME NEW held \in SUBSET Buttons, NEW states \in Seq(FfiMouseState)
    PROVE  IsFold(FoldLeft(Said, held, states), SaidSteps, SUBSET Buttons, held, states)
<1> DEFINE N == 1..Len(states)
           Iterates(g) == g = [d \in SUBSET N |->
                               IF d = {} THEN held ELSE Said(g[d \ {Max(d)}], states[Max(d)])]
           iter == CHOOSE g : Iterates(g)
<1>1. Len(states) \in Nat /\ DOMAIN states = N /\ \A i \in N : states[i] \in FfiMouseState
  BY LenProperties, ElementOfSeq
<1>2. FoldLeft(Said, held, states) = iter[N]
  BY <1>1, Zenon DEF FoldLeft, MapThenFoldSet
<1>3. \A d \in SUBSET N : d # {} => states[Max(d)] \in FfiMouseState
  BY <1>1, MaxProperties
<1>4. PICK g \in [SUBSET N -> SUBSET Buttons] : Computes(g, SaidSteps, SUBSET Buttons, held, states)
  BY ComputesExists, SaidStepsType
<1>5. Iterates(g)
  <2>1. ASSUME NEW d \in SUBSET N
        PROVE  g[d] = IF d = {} THEN held ELSE Said(g[d \ {Max(d)}], states[Max(d)])
    <3>1. CASE d = {}
      BY <1>4, <3>1 DEF Computes
    <3>2. CASE d # {}
      <4>1. PICK m : m = Max(d)
        OBVIOUS
      <4>2. g[d \ {m}] \in SUBSET Buttons
        OBVIOUS
      <4>3. g[d] = SaidSteps[<<g[d \ {m}], states[m]>>]
        BY <1>4, <3>2, <4>1, <4>2 DEF Computes
      <4>4. QED  BY <1>3, <3>2, <4>1, <4>2, <4>3, SaidStepsType
    <3>3. QED  BY <3>1, <3>2
  <2>2. QED  BY <2>1
<1>6. Iterates(iter)
  <2> HIDE DEF Iterates
  <2>1. QED  BY <1>5
<1>7. Computes(iter, SaidSteps, SUBSET Buttons, held, states)
  <2> HIDE DEF iter
  <2>1. iter[{}] = held
    BY <1>6
  <2>2. ASSUME NEW d \in SUBSET N, d # {}, iter[d \ {Max(d)}] \in SUBSET Buttons
        PROVE  iter[d] = SaidSteps[<<iter[d \ {Max(d)}], states[Max(d)]>>]
    <3>1. iter[d] = Said(iter[d \ {Max(d)}], states[Max(d)])
      BY <1>6, <2>2
    <3>2. QED  BY <1>3, <2>2, <3>1, SaidStepsType
  <2>3. QED  BY <2>1, <2>2 DEF Computes
<1>8. QED  BY <1>2, <1>7 DEF IsFold

\* Buttons stay buttons, whatever the states of a call.
LEMMA ButtonsStay ==
    ASSUME NEW held \in SUBSET Buttons, NEW states \in Seq(FfiMouseState)
    PROVE  /\ FoldLeft(MouseInput, held, states) \in SUBSET Buttons
           /\ FoldLeft(Said, held, states) \in SUBSET Buttons
<1>1. PICK D, pressed, said : /\ D = SUBSET Buttons
                              /\ pressed = FoldLeft(MouseInput, held, states)
                              /\ said = FoldLeft(Said, held, states)
  OBVIOUS
<1>2. held \in D /\ IsStep(MouseSteps, D, FfiMouseState) /\ IsStep(SaidSteps, D, FfiMouseState)
  BY <1>1, MouseStepsType, SaidStepsType
<1>3. IsFold(pressed, MouseSteps, D, held, states) /\ IsFold(said, SaidSteps, D, held, states)
  BY <1>1, MouseFold, SaidFold
<1>4. pressed \in D /\ said \in D
  BY <1>2, <1>3, FoldWithin
<1>5. QED  BY <1>1, <1>4

-----------------------------------------------------------------------------
(* Strings.                                                                *)

\* The second element of a sequence of two.
LEMMA AppendToOne ==
    ASSUME NEW S, NEW a \in S, NEW b \in S
    PROVE  Append(<<a>>, b) = <<a, b>>
<1>1. <<a>> \in Seq(S) /\ Len(<<a>>) = 1 /\ <<a, b>> \in Seq(S) /\ Len(<<a, b>>) = 2
  OBVIOUS
<1>2. PICK s, t : s = Append(<<a>>, b) /\ t = <<a, b>>
  OBVIOUS
<1>3. s \in Seq(S) /\ Len(s) = 2 /\ s[1] = a /\ s[2] = b
  BY <1>1, <1>2, AppendProperties
<1>4. t \in Seq(S) /\ Len(t) = 2 /\ t[1] = a /\ t[2] = b
  BY <1>1, <1>2
<1>5. s = t
  BY <1>3, <1>4, SeqEqual
<1>6. QED  BY <1>2, <1>5

\* The third of a sequence of three.
LEMMA AppendToTwo ==
    ASSUME NEW S, NEW a \in S, NEW b \in S, NEW c \in S
    PROVE  Append(<<a, b>>, c) = <<a, b, c>>
<1>1. <<a, b>> \in Seq(S) /\ Len(<<a, b>>) = 2 /\ <<a, b, c>> \in Seq(S) /\ Len(<<a, b, c>>) = 3
  OBVIOUS
<1>2. PICK s, t : s = Append(<<a, b>>, c) /\ t = <<a, b, c>>
  OBVIOUS
<1>3. s \in Seq(S) /\ Len(s) = 3 /\ s[1] = a /\ s[2] = b /\ s[3] = c
  BY <1>1, <1>2, AppendProperties
<1>4. t \in Seq(S) /\ Len(t) = 3 /\ t[1] = a /\ t[2] = b /\ t[3] = c
  BY <1>1, <1>2
<1>5. s = t
  BY <1>3, <1>4, SeqEqual
<1>6. QED  BY <1>2, <1>5

\* And the fourth of a sequence of four.
LEMMA AppendToThree ==
    ASSUME NEW S, NEW a \in S, NEW b \in S, NEW c \in S, NEW e \in S
    PROVE  Append(<<a, b, c>>, e) = <<a, b, c, e>>
<1>1. /\ <<a, b, c>> \in Seq(S) /\ Len(<<a, b, c>>) = 3
      /\ <<a, b, c, e>> \in Seq(S) /\ Len(<<a, b, c, e>>) = 4
  OBVIOUS
<1>2. PICK s, t : s = Append(<<a, b, c>>, e) /\ t = <<a, b, c, e>>
  OBVIOUS
<1>3. s \in Seq(S) /\ Len(s) = 4 /\ s[1] = a /\ s[2] = b /\ s[3] = c /\ s[4] = e
  BY <1>1, <1>2, AppendProperties
<1>4. t \in Seq(S) /\ Len(t) = 4 /\ t[1] = a /\ t[2] = b /\ t[3] = c /\ t[4] = e
  BY <1>1, <1>2
<1>5. s = t
  BY <1>3, <1>4, SeqEqual
<1>6. QED  BY <1>2, <1>5

\* The beginnings of characters: those that one more byte leaves open, and those
\* that it makes whole.
Going == {<<Lead3>>, <<Lead4>>, <<Lead4, Continuation>>}
Ending == {<<Lead2>>, <<Lead3, Continuation>>, <<Lead4, Continuation, Continuation>>}
Opens == {<<>>} \cup Going \cup Ending

\* What one more byte makes of them.
LEMMA OpensGrow ==
    /\ \A open \in Going :
          /\ open # <<>> /\ Append(open, Continuation) \in Going \cup Ending
          /\ Len(Append(open, Continuation)) # 1 + Follows(Append(open, Continuation)[1])
    /\ \A open \in Ending :
          /\ open # <<>>
          /\ Len(Append(open, Continuation)) = 1 + Follows(Append(open, Continuation)[1])
<1> USE DEF Lead2, Lead3, Lead4, Continuation
<1>1. Follows(2) = 1 /\ Follows(3) = 2 /\ Follows(5) = 3
  BY DEF Follows
<1>2. 2 \in Nat /\ 3 \in Nat /\ 4 \in Nat /\ 5 \in Nat
  OBVIOUS
<1>3. /\ Append(<< 2 >>, 4) = <<2, 4>> /\ Append(<< 3 >>, 4) = <<3, 4>>
      /\ Append(<< 5 >>, 4) = <<5, 4>>
  BY <1>2, AppendToOne
<1>4. Append(<<3, 4>>, 4) = <<3, 4, 4>> /\ Append(<<5, 4>>, 4) = <<5, 4, 4>>
  BY <1>2, AppendToTwo
<1>5. Append(<<5, 4, 4>>, 4) = <<5, 4, 4, 4>>
  BY <1>2, AppendToThree
<1>6. /\ Len(<<2, 4>>) = 2 /\ <<2, 4>>[1] = 2 /\ Len(<<3, 4>>) = 2 /\ <<3, 4>>[1] = 3
      /\ Len(<<5, 4>>) = 2 /\ <<5, 4>>[1] = 5
      /\ Len(<<3, 4, 4>>) = 3 /\ <<3, 4, 4>>[1] = 3 /\ Len(<<5, 4, 4>>) = 3 /\ <<5, 4, 4>>[1] = 5
      /\ Len(<<5, 4, 4, 4>>) = 4 /\ <<5, 4, 4, 4>>[1] = 5
  OBVIOUS
<1>7. /\ << 2 >> # <<>> /\ << 3 >> # <<>> /\ << 5 >> # <<>>
      /\ <<3, 4>> # <<>> /\ <<5, 4>> # <<>> /\ <<5, 4, 4>> # <<>>
  OBVIOUS
<1>8. ASSUME NEW open \in Going
      PROVE  /\ open # <<>> /\ Append(open, 4) \in Going \cup Ending
             /\ Len(Append(open, 4)) # 1 + Follows(Append(open, 4)[1])
  <2>1. CASE open = << 3 >>
    <3>1. Append(open, 4) \in Ending
      BY <1>3, <2>1 DEF Ending
    <3>2. QED  BY <1>1, <1>3, <1>6, <1>7, <2>1, <3>1
  <2>2. CASE open = << 5 >>
    <3>1. Append(open, 4) \in Going
      BY <1>3, <2>2 DEF Going
    <3>2. QED  BY <1>1, <1>3, <1>6, <1>7, <2>2, <3>1
  <2>3. CASE open = <<5, 4>>
    <3>1. Append(open, 4) \in Ending
      BY <1>4, <2>3 DEF Ending
    <3>2. QED  BY <1>1, <1>4, <1>6, <1>7, <2>3, <3>1
  <2>4. QED  BY <2>1, <2>2, <2>3 DEF Going
<1>9. ASSUME NEW open \in Ending
      PROVE  open # <<>> /\ Len(Append(open, 4)) = 1 + Follows(Append(open, 4)[1])
  <2>1. CASE open = << 2 >>
    BY <1>1, <1>3, <1>6, <1>7, <2>1
  <2>2. CASE open = <<3, 4>>
    BY <1>1, <1>4, <1>6, <1>7, <2>2
  <2>3. CASE open = <<5, 4, 4>>
    BY <1>1, <1>5, <1>6, <1>7, <2>3
  <2>4. QED  BY <2>1, <2>2, <2>3 DEF Ending
<1>10. QED  BY <1>8, <1>9

Decoded == [done : Seq(Bytes), open : Opens, valid : BOOLEAN]

\* What is done once the beginning of a character is given up.
Broken(d) == IF d.open = <<>> THEN d.done ELSE d.done \o Replacement

\* The cases of a step, on beginnings of characters alone.
LEMMA DecodeCases ==
    ASSUME NEW d \in Decoded, NEW byte \in Bytes
    PROVE  /\ byte = Continuation /\ d.open = <<>> =>
                 DecodeByte(d, byte) = [done |-> d.done \o Replacement, open |-> <<>>, valid |-> FALSE]
           /\ byte = Continuation /\ d.open \in Going =>
                 DecodeByte(d, byte) =
                     [done |-> d.done, open |-> Append(d.open, Continuation), valid |-> d.valid]
           /\ byte = Continuation /\ d.open \in Ending =>
                 DecodeByte(d, byte) =
                     [done |-> d.done \o Append(d.open, Continuation), open |-> <<>>, valid |-> d.valid]
           /\ byte \in {Nul, Ascii} =>
                 DecodeByte(d, byte) =
                     [done |-> Append(Broken(d), byte), open |-> <<>>, valid |-> d.valid /\ d.open = <<>>]
           /\ byte \in {Lead2, Lead3, Lead4} =>
                 DecodeByte(d, byte) =
                     [done |-> Broken(d), open |-> <<byte>>, valid |-> d.valid /\ d.open = <<>>]
<1>1. d = [done |-> d.done, open |-> d.open, valid |-> d.valid]
  BY DEF Decoded
<1>2. /\ Follows(Lead2) # 0 /\ Follows(Lead3) # 0 /\ Follows(Lead4) # 0
      /\ Follows(Nul) = 0 /\ Follows(Ascii) = 0
      /\ Continuation \notin {Nul, Ascii, Lead2, Lead3, Lead4}
  BY DEF Follows, Nul, Ascii, Lead2, Lead3, Lead4, Continuation
<1>3. ASSUME byte = Continuation, d.open = <<>>
      PROVE  DecodeByte(d, byte) = [done |-> d.done \o Replacement, open |-> <<>>, valid |-> FALSE]
  BY <1>1, <1>3 DEF DecodeByte
<1>4. ASSUME byte = Continuation, d.open \in Going
      PROVE  DecodeByte(d, byte) =
                 [done |-> d.done, open |-> Append(d.open, Continuation), valid |-> d.valid]
  <2>1. /\ d.open # <<>>
        /\ ~(Len(Append(d.open, byte)) = 1 + Follows(Append(d.open, byte)[1]))
    BY <1>4, OpensGrow
  <2>2. DecodeByte(d, byte) = [d EXCEPT !.open = Append(d.open, byte)]
    BY <1>4, <2>1, Zenon DEF DecodeByte
  <2>3. PICK open : open = Append(d.open, byte)
    OBVIOUS
  <2>4. [d EXCEPT !.open = open] = [done |-> d.done, open |-> open, valid |-> d.valid]
    BY <1>1
  <2>5. QED  BY <1>4, <2>2, <2>3, <2>4
<1>5. ASSUME byte = Continuation, d.open \in Ending
      PROVE  DecodeByte(d, byte) =
                 [done |-> d.done \o Append(d.open, Continuation), open |-> <<>>, valid |-> d.valid]
  <2>1. /\ d.open # <<>>
        /\ Len(Append(d.open, byte)) = 1 + Follows(Append(d.open, byte)[1])
    BY <1>5, OpensGrow
  <2>2. DecodeByte(d, byte) = [done |-> d.done \o Append(d.open, byte), open |-> <<>>, valid |-> d.valid]
    BY <1>5, <2>1, Zenon DEF DecodeByte
  <2>3. QED  BY <1>5, <2>2
<1>6. ASSUME byte \in {Nul, Ascii}
      PROVE  DecodeByte(d, byte) =
                 [done |-> Append(Broken(d), byte), open |-> <<>>, valid |-> d.valid /\ d.open = <<>>]
  <2>1. byte # Continuation /\ Follows(byte) = 0
    BY <1>2, <1>6
  <2>2. QED  BY <2>1, Zenon DEF DecodeByte, Broken
<1>7. ASSUME byte \in {Lead2, Lead3, Lead4}
      PROVE  DecodeByte(d, byte) =
                 [done |-> Broken(d), open |-> <<byte>>, valid |-> d.valid /\ d.open = <<>>]
  <2>1. byte # Continuation /\ ~(Follows(byte) = 0)
    BY <1>2, <1>7
  <2>2. QED  BY <2>1, Zenon DEF DecodeByte, Broken
<1>8. QED
  BY <1>3, <1>4, <1>5, <1>6, <1>7

\* What is open of a character are at most three bytes.
LEMMA OpensType ==
    ASSUME NEW open \in Opens
    PROVE  open \in Seq(Bytes) /\ Len(open) \in 0..3 /\ (open # <<>> => Len(open) # 0)
<1>1. Lead2 \in Bytes /\ Lead3 \in Bytes /\ Lead4 \in Bytes /\ Continuation \in Bytes
  BY DEF Bytes
<1>2. CASE open = <<>>
  BY <1>2
<1>3. CASE open \in {<<Lead2>>, <<Lead3>>, <<Lead4>>}
  <2>1. PICK a \in Bytes : open = <<a>>
    BY <1>1, <1>3
  <2>2. QED  BY <2>1
<1>4. CASE open \in {<<Lead3, Continuation>>, <<Lead4, Continuation>>}
  <2>1. PICK a \in Bytes, b \in Bytes : open = <<a, b>>
    BY <1>1, <1>4
  <2>2. QED  BY <2>1
<1>5. CASE open = <<Lead4, Continuation, Continuation>>
  <2>1. PICK a \in Bytes, b \in Bytes : open = <<a, b, b>>
    BY <1>1, <1>5
  <2>2. QED  BY <2>1
<1>6. QED  BY <1>2, <1>3, <1>4, <1>5 DEF Opens, Going, Ending

\* The same cases, field by field, for a byte that begins a character.
LEMMA DecodeFirst ==
    ASSUME NEW d \in Decoded, NEW byte \in Bytes, byte # Continuation
    PROVE  /\ DecodeByte(d, byte).valid <=> d.valid /\ d.open = <<>>
           /\ byte \in {Nul, Ascii} => /\ DecodeByte(d, byte).done = Append(Broken(d), byte)
                                       /\ DecodeByte(d, byte).open = <<>>
           /\ byte \in {Lead2, Lead3, Lead4} => /\ DecodeByte(d, byte).done = Broken(d)
                                         /\ DecodeByte(d, byte).open = <<byte>>
<1>1. PICK valid : valid = (d.valid /\ d.open = <<>>)
  OBVIOUS
<1>2. ASSUME byte \in {Nul, Ascii}
      PROVE  DecodeByte(d, byte) = [done |-> Append(Broken(d), byte), open |-> <<>>, valid |-> valid]
  BY <1>1, <1>2, DecodeCases, Zenon
<1>3. ASSUME byte \in {Lead2, Lead3, Lead4}
      PROVE  DecodeByte(d, byte) = [done |-> Broken(d), open |-> <<byte>>, valid |-> valid]
  BY <1>1, <1>3, DecodeCases, Zenon
<1>4. DecodeByte(d, byte).valid = valid
  BY <1>2, <1>3 DEF Bytes
<1>5. DecodeByte(d, byte).valid <=> d.valid /\ d.open = <<>>
  BY <1>1, <1>4, Zenon
<1>6. QED  BY <1>2, <1>3, <1>5

\* A step keeps to the beginnings of characters.
DecodeSteps == [p \in Decoded \X Bytes |-> DecodeByte(p[1], p[2])]

\* The replacement character has three bytes.
LEMMA ReplacementType ==
    Replacement \in Seq(Bytes) /\ Len(Replacement) = 3
BY DEF Replacement, Bytes

\* What is open when it breaks off becomes a replacement character.
LEMMA BrokenType == ASSUME NEW d \in Decoded PROVE Broken(d) \in Seq(Bytes)
BY ReplacementType, ConcatProperties DEF Broken, Decoded

\* The decoder keeps its types,
LEMMA DecodeByteType ==
    ASSUME NEW d \in Decoded, NEW byte \in Bytes
    PROVE  DecodeByte(d, byte) \in Decoded
<1>1. /\ d.done \in Seq(Bytes) /\ d.open \in Opens /\ d.valid \in BOOLEAN
      /\ Broken(d) \in Seq(Bytes)
  BY BrokenType DEF Decoded
<1>2. \A done \in Seq(Bytes), open \in Opens, valid \in BOOLEAN :
         [done |-> done, open |-> open, valid |-> valid] \in Decoded
  BY DEF Decoded
<1>3. /\ <<>> \in Opens
      /\ \A open \in Going : Append(open, Continuation) \in Opens
  BY OpensGrow DEF Opens
<1>4. CASE byte = Continuation /\ d.open = <<>>
  <2>1. d.done \o Replacement \in Seq(Bytes)
    BY <1>1, ReplacementType, ConcatProperties
  <2>2. QED  BY <1>2, <1>3, <1>4, <2>1, DecodeCases
<1>5. CASE byte = Continuation /\ d.open \in Going
  BY <1>1, <1>2, <1>3, <1>5, DecodeCases
<1>6. CASE byte = Continuation /\ d.open \in Ending
  <2>1. d.open \in Seq(Bytes) /\ Continuation \in Bytes
    BY <1>1, OpensType DEF Bytes
  <2>2. Append(d.open, Continuation) \in Seq(Bytes)
    BY <2>1, AppendProperties
  <2>3. d.done \o Append(d.open, Continuation) \in Seq(Bytes)
    BY <1>1, <2>2, ConcatProperties
  <2>4. QED  BY <1>1, <1>2, <1>3, <1>6, <2>3, DecodeCases
<1>7. CASE byte \in {Nul, Ascii}
  <2>1. Append(Broken(d), byte) \in Seq(Bytes)
    BY <1>1, AppendProperties
  <2>2. (d.valid /\ d.open = <<>>) \in BOOLEAN
    OBVIOUS
  <2>3. DecodeByte(d, byte) =
            [done |-> Append(Broken(d), byte), open |-> <<>>, valid |-> d.valid /\ d.open = <<>>]
    BY <1>7, DecodeCases
  <2>4. QED  BY <1>2, <1>3, <2>1, <2>2, <2>3, Zenon
<1>8. CASE byte \in {Lead2, Lead3, Lead4}
  <2>1. <<byte>> \in Opens
    BY <1>8 DEF Opens, Going, Ending
  <2>2. (d.valid /\ d.open = <<>>) \in BOOLEAN
    OBVIOUS
  <2>3. DecodeByte(d, byte) = [done |-> Broken(d), open |-> <<byte>>, valid |-> d.valid /\ d.open = <<>>]
    BY <1>8, DecodeCases
  <2>4. QED  BY <1>1, <1>2, <2>1, <2>2, <2>3, Zenon
<1>9. QED
  BY <1>1, <1>4, <1>5, <1>6, <1>7, <1>8 DEF Opens, Bytes

\* so that one byte is a step of a fold,
LEMMA DecodeStepsType ==
    /\ IsStep(DecodeSteps, Decoded, Bytes)
    /\ \A d \in Decoded, byte \in Bytes : DecodeSteps[<<d, byte>>] = DecodeByte(d, byte)
BY DecodeByteType DEF DecodeSteps, IsStep

\* and what is decoded is the fold of these steps.
LEMMA DecodeFold ==
    ASSUME NEW start \in Decoded, NEW bytes \in Seq(Bytes)
    PROVE  IsFold(FoldLeft(DecodeByte, start, bytes), DecodeSteps, Decoded, start, bytes)
<1> DEFINE N == 1..Len(bytes)
           Iterates(g) == g = [d \in SUBSET N |->
                               IF d = {} THEN start ELSE DecodeByte(g[d \ {Max(d)}], bytes[Max(d)])]
           iter == CHOOSE g : Iterates(g)
<1>1. Len(bytes) \in Nat /\ DOMAIN bytes = N /\ \A i \in N : bytes[i] \in Bytes
  BY LenProperties, ElementOfSeq
<1>2. FoldLeft(DecodeByte, start, bytes) = iter[N]
  BY <1>1, Zenon DEF FoldLeft, MapThenFoldSet
<1>3. \A d \in SUBSET N : d # {} => bytes[Max(d)] \in Bytes
  BY <1>1, MaxProperties
<1>4. PICK g \in [SUBSET N -> Decoded] : Computes(g, DecodeSteps, Decoded, start, bytes)
  BY ComputesExists, DecodeStepsType
<1>5. Iterates(g)
  <2>1. ASSUME NEW d \in SUBSET N
        PROVE  g[d] = IF d = {} THEN start ELSE DecodeByte(g[d \ {Max(d)}], bytes[Max(d)])
    <3>1. CASE d = {}
      BY <1>4, <3>1 DEF Computes
    <3>2. CASE d # {}
      <4>1. PICK m : m = Max(d)
        OBVIOUS
      <4>2. g[d \ {m}] \in Decoded
        OBVIOUS
      <4>3. g[d] = DecodeSteps[<<g[d \ {m}], bytes[m]>>]
        BY <1>4, <3>2, <4>1, <4>2 DEF Computes
      <4>4. QED  BY <1>3, <3>2, <4>1, <4>2, <4>3, DecodeStepsType
    <3>3. QED  BY <3>1, <3>2
  <2>2. QED  BY <2>1
<1>6. Iterates(iter)
  <2> HIDE DEF Iterates
  <2>1. QED  BY <1>5
<1>7. Computes(iter, DecodeSteps, Decoded, start, bytes)
  <2> HIDE DEF iter
  <2>1. iter[{}] = start
    BY <1>6
  <2>2. ASSUME NEW d \in SUBSET N, d # {}, iter[d \ {Max(d)}] \in Decoded
        PROVE  iter[d] = DecodeSteps[<<iter[d \ {Max(d)}], bytes[Max(d)]>>]
    <3>1. iter[d] = DecodeByte(iter[d \ {Max(d)}], bytes[Max(d)])
      BY <1>6, <2>2
    <3>2. QED  BY <1>3, <2>2, <3>1, DecodeStepsType
  <2>3. QED  BY <2>1, <2>2 DEF Computes
<1>8. QED  BY <1>2, <1>7 DEF IsFold

\* Bytes are decoded one by one.
LEMMA DecodeAppend ==
    /\ Decode(<<>>) = [done |-> <<>>, open |-> <<>>, valid |-> TRUE]
    /\ \A bytes \in Seq(Bytes) : Decode(bytes) \in Decoded
    /\ \A bytes \in Seq(Bytes), byte \in Bytes :
          Decode(Append(bytes, byte)) = DecodeByte(Decode(bytes), byte)
<1> DEFINE start == [done |-> <<>>, open |-> <<>>, valid |-> TRUE]
<1>1. start \in Decoded /\ <<>> \in Seq(Bytes)
  <2>1. <<>> \in Seq(Bytes) /\ <<>> \in Opens
    BY EmptySeq DEF Opens
  <2>2. QED  BY <2>1 DEF Decoded
<1>2. \A bytes : Decode(bytes) = FoldLeft(DecodeByte, start, bytes)
  BY DEF Decode
<1> HIDE DEF start
<1>3. \A bytes \in Seq(Bytes) : IsFold(Decode(bytes), DecodeSteps, Decoded, start, bytes)
  BY <1>1, <1>2, DecodeFold
<1>4. Decode(<<>>) = start
  BY <1>1, <1>3, FoldEmpty
<1>5. \A bytes \in Seq(Bytes) : Decode(bytes) \in Decoded
  BY <1>1, <1>3, DecodeStepsType, FoldWithin
<1>6. ASSUME NEW bytes \in Seq(Bytes), NEW byte \in Bytes
      PROVE  Decode(Append(bytes, byte)) = DecodeByte(Decode(bytes), byte)
  <2>1. Append(bytes, byte) \in Seq(Bytes)
    BY AppendProperties
  <2>2. PICK value, next : value = Decode(bytes) /\ next = Decode(Append(bytes, byte))
    OBVIOUS
  <2>3. /\ IsFold(value, DecodeSteps, Decoded, start, bytes)
        /\ IsFold(next, DecodeSteps, Decoded, start, Append(bytes, byte))
    BY <1>3, <2>1, <2>2
  <2>4. next = DecodeSteps[<<value, byte>>]
    BY <1>1, <2>3, DecodeStepsType, FoldAppend
  <2>5. QED  BY <1>5, <2>2, <2>4, DecodeStepsType
<1>7. QED  BY <1>4, <1>5, <1>6 DEF start

\* An element at the end of the second of two sequences.
LEMMA ConcatAppend ==
    ASSUME NEW S, NEW s \in Seq(S), NEW t \in Seq(S), NEW e \in S
    PROVE  s \o Append(t, e) = Append(s \o t, e)
<1>1. <<e>> \in Seq(S) /\ s \o t \in Seq(S)
  BY ConcatProperties
<1>2. Append(t, e) = t \o <<e>> /\ Append(s \o t, e) = (s \o t) \o <<e>>
  BY <1>1, AppendIsConcat
<1>3. (s \o t) \o <<e>> = s \o (t \o <<e>>)
  BY <1>1, ConcatAssociative
<1>4. QED  BY <1>2, <1>3

\* Of bytes that are characters, and at most the beginning of one, nothing is
\* lost and nothing replaced.
LEMMA ValidKeepsBytes ==
    \A bytes \in Seq(Bytes) :
        Decode(bytes).valid => Decode(bytes).done \o Decode(bytes).open = bytes
<1> DEFINE T == {s \in Seq(Bytes) : Decode(s).valid => Decode(s).done \o Decode(s).open = s}
<1>1. <<>> \in T
  <2>1. <<>> \in Seq(Bytes)
    BY EmptySeq
  <2>2. Decode(<<>>).done = <<>> /\ Decode(<<>>).open = <<>>
    BY DecodeAppend
  <2>3. <<>> \o <<>> = <<>>
    BY <2>1, ConcatEmptySeq
  <2>4. QED  BY <2>1, <2>2, <2>3
<1>2. ASSUME NEW s \in Seq(Bytes), NEW byte \in Bytes, s \in T
      PROVE  Append(s, byte) \in T
  <2>1. PICK d, next : d = Decode(s) /\ next = Decode(Append(s, byte))
    OBVIOUS
  <2>2. SUFFICES ASSUME next.valid PROVE next.done \o next.open = Append(s, byte)
    BY <2>1, AppendProperties
  <2>3. d \in Decoded /\ next = DecodeByte(d, byte)
    BY <2>1, DecodeAppend
  <2>4. /\ d.done \in Seq(Bytes) /\ d.open \in Opens /\ d.open \in Seq(Bytes)
    BY <2>3, OpensType DEF Decoded
  <2>5. d.valid => Append(s, byte) = d.done \o Append(d.open, byte)
    <3>1. SUFFICES ASSUME d.valid PROVE Append(s, byte) = d.done \o Append(d.open, byte)
      OBVIOUS
    <3>2. d.done \o d.open = s
      BY <1>2, <2>1, <3>1
    <3>3. PICK done, open : done = d.done /\ open = d.open
      OBVIOUS
    <3>4. done \in Seq(Bytes) /\ open \in Seq(Bytes)
      BY <2>4, <3>3
    <3>5. done \o Append(open, byte) = Append(done \o open, byte)
      BY <3>4, ConcatAppend
    <3>6. QED  BY <3>2, <3>3, <3>5
  <2>6. CASE byte = Continuation /\ d.open = <<>>
    <3>1. next = [done |-> d.done \o Replacement, open |-> <<>>, valid |-> FALSE]
      BY <2>3, <2>6, DecodeCases
    <3>2. QED  BY <2>2, <3>1
  <2>7. CASE byte = Continuation /\ d.open \in Going
    <3>1. next = [done |-> d.done, open |-> Append(d.open, Continuation), valid |-> d.valid]
      BY <2>3, <2>7, DecodeCases
    <3>2. QED  BY <2>2, <2>5, <2>7, <3>1
  <2>8. CASE byte = Continuation /\ d.open \in Ending
    <3>1. next = [done |-> d.done \o Append(d.open, byte), open |-> <<>>, valid |-> d.valid]
      BY <2>3, <2>8, DecodeCases
    <3>2. d.done \o Append(d.open, byte) \in Seq(Bytes)
      BY <2>4, AppendProperties, ConcatProperties
    <3>3. QED  BY <2>2, <2>5, <3>1, <3>2, ConcatEmptySeq
  <2>9. CASE byte \in {Nul, Ascii, Lead2, Lead3, Lead4}
    <3>1. d.valid /\ d.open = <<>>
      <4>1. byte # Continuation
        BY <2>9 DEF Nul, Ascii, Lead2, Lead3, Lead4, Continuation
      <4>2. QED  BY <2>2, <2>3, <4>1, DecodeFirst
    <3>2. Broken(d) = d.done
      BY <3>1 DEF Broken
    <3>3. Append(<<>>, byte) = <<byte>>
      OBVIOUS
    <3>4. d.done \o Append(d.open, byte) = Append(d.done, byte)
      BY <2>4, <3>1, ConcatAppend, ConcatEmptySeq
    <3>5. CASE byte \in {Nul, Ascii}
      <4>1. next.done = Append(d.done, byte) /\ next.open = <<>>
        BY <2>3, <3>2, <3>5, DecodeFirst DEF Nul, Ascii, Continuation
      <4>2. Append(d.done, byte) \in Seq(Bytes)
        BY <2>4, AppendProperties
      <4>3. QED  BY <2>5, <3>1, <3>4, <4>1, <4>2, ConcatEmptySeq
    <3>6. CASE byte \in {Lead2, Lead3, Lead4}
      <4>1. next.done = d.done /\ next.open = <<byte>>
        BY <2>3, <3>2, <3>6, DecodeFirst DEF Lead2, Lead3, Lead4, Continuation
      <4>2. QED  BY <2>5, <3>1, <3>3, <4>1
    <3>7. QED  BY <2>9, <3>5, <3>6
  <2>10. QED  BY <2>4, <2>6, <2>7, <2>8, <2>9 DEF Opens, Bytes
<1>3. Seq(Bytes) \subseteq T
  <2> HIDE DEF T
  <2>1. QED  BY <1>1, <1>2, SequencesFromEmpty
<1>4. QED  BY <1>3

\* What decodes to itself; and what does so but for the beginning of a character
\* at its end.
Whole(bytes) == Decode(bytes) = [done |-> bytes, open |-> <<>>, valid |-> TRUE]
Begun(bytes, open) == Decode(bytes \o open) = [done |-> bytes, open |-> open, valid |-> TRUE]

\* After whole characters a byte is one of its own or begins one.
LEMMA StartsCharacter ==
    ASSUME NEW bytes \in Seq(Bytes), Whole(bytes), NEW byte \in Bytes
    PROVE  /\ byte \in {Nul, Ascii} => Whole(Append(bytes, byte))
           /\ byte \in {Lead2, Lead3, Lead4} => Begun(bytes, <<byte>>)
<1>1. PICK d : d = [done |-> bytes, open |-> <<>>, valid |-> TRUE]
  OBVIOUS
<1>2. d \in Decoded /\ Decode(bytes) = d /\ Broken(d) = bytes
  BY <1>1, DecodeAppend DEF Whole, Broken
<1>3. d.open = <<>> /\ d.valid = TRUE
  BY <1>1
<1>4. Decode(Append(bytes, byte)) = DecodeByte(d, byte)
  BY <1>2, DecodeAppend
<1>5. (d.valid /\ d.open = <<>>) = TRUE
  BY <1>3
<1>6. ASSUME byte \in {Nul, Ascii} PROVE Whole(Append(bytes, byte))
  <2>1. DecodeByte(d, byte) =
            [done |-> Append(Broken(d), byte), open |-> <<>>, valid |-> d.valid /\ d.open = <<>>]
    BY <1>2, <1>6, DecodeCases
  <2>2. QED  BY <1>2, <1>4, <1>5, <2>1, Zenon DEF Whole
<1>7. ASSUME byte \in {Lead2, Lead3, Lead4} PROVE Begun(bytes, <<byte>>)
  <2>1. DecodeByte(d, byte) = [done |-> Broken(d), open |-> <<byte>>, valid |-> d.valid /\ d.open = <<>>]
    BY <1>2, <1>7, DecodeCases
  <2>2. bytes \o <<byte>> = Append(bytes, byte)
    BY AppendIsConcat
  <2>3. QED  BY <1>2, <1>4, <1>5, <2>1, <2>2, Zenon DEF Begun
<1>8. QED  BY <1>6, <1>7

\* A character that has begun goes on until it is whole.
LEMMA GoesOnCharacter ==
    ASSUME NEW bytes \in Seq(Bytes)
    PROVE  /\ \A open \in Going : Begun(bytes, open) => Begun(bytes, Append(open, Continuation))
           /\ \A open \in Ending : Begun(bytes, open) => Whole(bytes \o Append(open, Continuation))
<1>1. Continuation \in Bytes
  BY DEF Bytes
<1>2. ASSUME NEW open \in Going \cup Ending, Begun(bytes, open),
             NEW d, d = [done |-> bytes, open |-> open, valid |-> TRUE]
      PROVE  d \in Decoded /\ Decode(bytes \o Append(open, Continuation)) = DecodeByte(d, Continuation)
  <2>1. open \in Opens /\ open \in Seq(Bytes)
    BY OpensType DEF Opens
  <2>2. bytes \o open \in Seq(Bytes)
    BY <2>1, ConcatProperties
  <2>3. bytes \o Append(open, Continuation) = Append(bytes \o open, Continuation)
    BY <1>1, <2>1, ConcatAppend
  <2>4. QED  BY <1>1, <1>2, <2>1, <2>2, <2>3, DecodeAppend DEF Begun, Decoded
<1>3. ASSUME NEW open \in Going, Begun(bytes, open)
      PROVE  Begun(bytes, Append(open, Continuation))
  <2>1. PICK d : d = [done |-> bytes, open |-> open, valid |-> TRUE]
    OBVIOUS
  <2>2. d \in Decoded /\ Decode(bytes \o Append(open, Continuation)) = DecodeByte(d, Continuation)
    BY <1>2, <1>3, <2>1
  <2>3. d.done = bytes /\ d.open = open /\ d.valid = TRUE
    BY <2>1
  <2>4. DecodeByte(d, Continuation) =
            [done |-> d.done, open |-> Append(d.open, Continuation), valid |-> d.valid]
    BY <1>1, <1>3, <2>2, <2>3, DecodeCases
  <2>5. QED  BY <2>2, <2>3, <2>4 DEF Begun
<1>4. ASSUME NEW open \in Ending, Begun(bytes, open)
      PROVE  Whole(bytes \o Append(open, Continuation))
  <2>1. PICK d : d = [done |-> bytes, open |-> open, valid |-> TRUE]
    OBVIOUS
  <2>2. d \in Decoded /\ Decode(bytes \o Append(open, Continuation)) = DecodeByte(d, Continuation)
    BY <1>2, <1>4, <2>1
  <2>3. d.done = bytes /\ d.open = open /\ d.valid = TRUE
    BY <2>1
  <2>4. DecodeByte(d, Continuation) =
            [done |-> d.done \o Append(d.open, Continuation), open |-> <<>>, valid |-> d.valid]
    BY <1>1, <1>4, <2>2, <2>3, DecodeCases
  <2>5. QED  BY <2>2, <2>3, <2>4 DEF Whole
<1>5. QED  BY <1>3, <1>4

\* A replacement character is a whole one.
LEMMA ReplacementIsWhole ==
    ASSUME NEW bytes \in Seq(Bytes), Whole(bytes)
    PROVE  Whole(bytes \o Replacement)
<1>1. Continuation \in Bytes /\ Lead3 \in Bytes
  BY DEF Bytes
<1>2. Begun(bytes, <<Lead3>>)
  BY <1>1, StartsCharacter
<1>3. <<Lead3>> \in Going /\ <<Lead3, Continuation>> \in Ending
  BY DEF Going, Ending
<1>4. Append(<<Lead3>>, Continuation) = <<Lead3, Continuation>>
  BY <1>1, AppendToOne
<1>5. Begun(bytes, <<Lead3, Continuation>>)
  BY <1>2, <1>3, <1>4, GoesOnCharacter
<1>6. Append(<<Lead3, Continuation>>, Continuation) = Replacement
  BY <1>1, AppendToTwo DEF Replacement
<1>7. QED  BY <1>3, <1>5, <1>6, GoesOnCharacter

\* What is done is whole, whatever the bytes were.
LEMMA DoneIsWhole ==
    \A bytes \in Seq(Bytes) :
        Whole(Decode(bytes).done) /\ Begun(Decode(bytes).done, Decode(bytes).open)
<1> DEFINE T == {s \in Seq(Bytes) : Whole(Decode(s).done) /\ Begun(Decode(s).done, Decode(s).open)}
<1>1. <<>> \in T
  <2>1. <<>> \in Seq(Bytes) /\ <<>> \o <<>> = <<>>
    BY EmptySeq, ConcatEmptySeq
  <2>2. Decode(<<>>).done = <<>> /\ Decode(<<>>).open = <<>>
    BY DecodeAppend
  <2>3. Whole(<<>>) /\ Begun(<<>>, <<>>)
    BY <2>1, DecodeAppend DEF Whole, Begun
  <2>4. QED  BY <2>1, <2>2, <2>3
<1>2. ASSUME NEW s \in Seq(Bytes), NEW byte \in Bytes, s \in T
      PROVE  Append(s, byte) \in T
  <2>1. PICK d, next, done, open : /\ d = Decode(s) /\ next = Decode(Append(s, byte))
                                   /\ done = d.done /\ open = d.open
    OBVIOUS
  <2>2. SUFFICES Whole(next.done) /\ Begun(next.done, next.open)
    BY <2>1, AppendProperties
  <2>3. d \in Decoded /\ next = DecodeByte(d, byte)
    BY <2>1, DecodeAppend
  <2>4. done \in Seq(Bytes) /\ open \in Opens /\ Broken(d) \in Seq(Bytes)
    BY <2>1, <2>3, BrokenType DEF Decoded
  <2>5. Whole(done) /\ Begun(done, open)
    BY <1>2, <2>1
  <2>6. Whole(Broken(d))
    BY <2>1, <2>4, <2>5, ReplacementIsWhole DEF Broken
  <2>7. ASSUME NEW bytes \in Seq(Bytes), Whole(bytes), next.done = bytes, next.open = <<>>
        PROVE  Whole(next.done) /\ Begun(next.done, next.open)
    <3>1. bytes \o <<>> = bytes
      BY ConcatEmptySeq
    <3>2. QED  BY <2>7, <3>1 DEF Whole, Begun
  <2>8. CASE byte = Continuation /\ open = <<>>
    <3>1. next = [done |-> done \o Replacement, open |-> <<>>, valid |-> FALSE]
      BY <2>1, <2>3, <2>8, DecodeCases
    <3>2. done \o Replacement \in Seq(Bytes) /\ Whole(done \o Replacement)
      BY <2>4, <2>5, ReplacementIsWhole, ReplacementType, ConcatProperties
    <3>3. QED  BY <2>7, <3>1, <3>2
  <2>9. CASE byte = Continuation /\ open \in Going
    <3>1. next = [done |-> done, open |-> Append(open, Continuation), valid |-> d.valid]
      BY <2>1, <2>3, <2>9, DecodeCases
    <3>2. QED  BY <2>4, <2>5, <2>9, <3>1, GoesOnCharacter
  <2>10. CASE byte = Continuation /\ open \in Ending
    <3>1. next = [done |-> done \o Append(open, Continuation), open |-> <<>>, valid |-> d.valid]
      BY <2>1, <2>3, <2>10, DecodeCases
    <3>2. Continuation \in Bytes /\ open \in Seq(Bytes)
      BY <2>4, OpensType DEF Bytes
    <3>3. done \o Append(open, Continuation) \in Seq(Bytes)
      BY <2>4, <3>2, AppendProperties, ConcatProperties
    <3>4. Whole(done \o Append(open, Continuation))
      BY <2>4, <2>5, <2>10, GoesOnCharacter
    <3>5. QED  BY <2>7, <3>1, <3>3, <3>4
  <2>11. CASE byte \in {Nul, Ascii}
    <3>1. next.done = Append(Broken(d), byte) /\ next.open = <<>>
      BY <2>3, <2>11, DecodeFirst DEF Nul, Ascii, Continuation
    <3>2. Append(Broken(d), byte) \in Seq(Bytes) /\ Whole(Append(Broken(d), byte))
      BY <2>4, <2>6, <2>11, StartsCharacter, AppendProperties
    <3>3. QED  BY <2>7, <3>1, <3>2
  <2>12. CASE byte \in {Lead2, Lead3, Lead4}
    <3>1. next.done = Broken(d) /\ next.open = <<byte>>
      BY <2>3, <2>12, DecodeFirst DEF Lead2, Lead3, Lead4, Continuation
    <3>2. QED  BY <2>4, <2>6, <2>12, <3>1, StartsCharacter
  <2>13. QED  BY <2>4, <2>8, <2>9, <2>10, <2>11, <2>12 DEF Opens, Bytes
<1>3. Seq(Bytes) \subseteq T
  <2> HIDE DEF T
  <2>1. QED  BY <1>1, <1>2, SequencesFromEmpty
<1>4. QED  BY <1>3

\* A beginning of bytes that are characters is one of characters.
LEMMA ValidPrefix ==
    ASSUME NEW s \in Seq(Bytes)
    PROVE  \A t \in Seq(Bytes) : Decode(s \o t).valid => Decode(s).valid
<1> DEFINE T == {t \in Seq(Bytes) : Decode(s \o t).valid => Decode(s).valid}
<1>1. <<>> \in T
  <2>1. <<>> \in Seq(Bytes) /\ s \o <<>> = s
    BY EmptySeq, ConcatEmptySeq
  <2>2. QED  BY <2>1
<1>2. ASSUME NEW t \in Seq(Bytes), NEW byte \in Bytes, t \in T
      PROVE  Append(t, byte) \in T
  <2>1. PICK d : d = Decode(s \o t)
    OBVIOUS
  <2>2. s \o t \in Seq(Bytes) /\ s \o Append(t, byte) = Append(s \o t, byte)
    BY ConcatProperties, ConcatAppend
  <2>3. d \in Decoded /\ Decode(s \o Append(t, byte)) = DecodeByte(d, byte)
    BY <2>1, <2>2, DecodeAppend
  <2>4. DecodeByte(d, byte).valid => d.valid
    <3>1. CASE byte = Continuation /\ d.open = <<>>
      <4>1. DecodeByte(d, byte) = [done |-> d.done \o Replacement, open |-> <<>>, valid |-> FALSE]
        BY <2>3, <3>1, DecodeCases
      <4>2. QED  BY <4>1
    <3>2. CASE byte = Continuation /\ d.open \in Going
      <4>1. DecodeByte(d, byte) = [done |-> d.done, open |-> Append(d.open, Continuation), valid |-> d.valid]
        BY <2>3, <3>2, DecodeCases
      <4>2. QED  BY <4>1
    <3>3. CASE byte = Continuation /\ d.open \in Ending
      <4>1. DecodeByte(d, byte) =
                [done |-> d.done \o Append(d.open, Continuation), open |-> <<>>, valid |-> d.valid]
        BY <2>3, <3>3, DecodeCases
      <4>2. QED  BY <4>1
    <3>4. CASE byte # Continuation
      BY <2>3, <3>4, DecodeFirst
    <3>5. QED  BY <2>3, <3>1, <3>2, <3>3, <3>4 DEF Decoded, Opens
  <2>5. d.valid => Decode(s).valid
    BY <1>2, <2>1
  <2>6. QED  BY <2>3, <2>4, <2>5, AppendProperties
<1>3. Seq(Bytes) \subseteq T
  <2> HIDE DEF T
  <2>1. QED  BY <1>1, <1>2, SequencesFromEmpty
<1>4. QED  BY <1>3

\* The bytes of C strings and of messages.
Text == Seq(Bytes \ {Nul})

\* What has no NUL can be put together.
LEMMA TextType ==
    /\ \A s \in Text : s \in Seq(Bytes)
    /\ \A s \in Text, t \in Text : s \o t \in Text
    /\ \A open \in Opens : open \in Text
    /\ Replacement \in Text /\ <<>> \in Text
<1>1. \A s \in Text : s \in Seq(Bytes)
  BY SeqMonotonic DEF Text
<1>2. \A s \in Text, t \in Text : s \o t \in Text
  BY ConcatProperties DEF Text
<1>3. PICK T : T = Bytes \ {Nul}
  OBVIOUS
<1>4. Lead2 \in T /\ Lead3 \in T /\ Lead4 \in T /\ Continuation \in T
  BY <1>3 DEF Bytes, Lead2, Lead3, Lead4, Continuation, Nul
<1>5. /\ <<>> \in Seq(T) /\ <<Lead2>> \in Seq(T) /\ <<Lead3>> \in Seq(T) /\ <<Lead4>> \in Seq(T)
      /\ <<Lead3, Continuation>> \in Seq(T) /\ <<Lead4, Continuation>> \in Seq(T)
      /\ <<Lead4, Continuation, Continuation>> \in Seq(T)
      /\ <<Lead3, Continuation, Continuation>> \in Seq(T)
  BY <1>4
<1>6. QED  BY <1>1, <1>2, <1>3, <1>5 DEF Opens, Going, Ending, Replacement, Text

\* Decoding makes no NUL.
LEMMA DoneIsText == \A s \in Text : Decode(s).done \in Text
<1> DEFINE T == {s \in Text : Decode(s).done \in Text}
<1>1. <<>> \in T
  <2>1. Decode(<<>>).done = <<>>
    BY DecodeAppend
  <2>2. QED  BY <2>1, TextType
<1>2. ASSUME NEW s \in Seq(Bytes \ {Nul}), NEW byte \in Bytes \ {Nul}, s \in T
      PROVE  Append(s, byte) \in T
  <2>1. PICK d, next : d = Decode(s) /\ next = Decode(Append(s, byte))
    OBVIOUS
  <2>2. s \in Text /\ Append(s, byte) \in Text
    BY AppendProperties DEF Text
  <2>3. d \in Decoded /\ next = DecodeByte(d, byte)
    BY <2>1, <2>2, TextType, DecodeAppend
  <2>4. d.done \in Text
    BY <1>2, <2>1
  <2>5. Broken(d) \in Text
    BY <2>4, TextType DEF Broken
  <2>6. SUFFICES next.done \in Text
    BY <2>1, <2>2
  <2>7. CASE byte = Continuation /\ d.open = <<>>
    <3>1. next = [done |-> d.done \o Replacement, open |-> <<>>, valid |-> FALSE]
      BY <2>3, <2>7, DecodeCases
    <3>2. QED  BY <2>4, <3>1, TextType
  <2>8. CASE byte = Continuation /\ d.open \in Going
    <3>1. next = [done |-> d.done, open |-> Append(d.open, Continuation), valid |-> d.valid]
      BY <2>3, <2>8, DecodeCases
    <3>2. QED  BY <2>4, <3>1
  <2>9. CASE byte = Continuation /\ d.open \in Ending
    <3>1. next = [done |-> d.done \o Append(d.open, Continuation), open |-> <<>>, valid |-> d.valid]
      BY <2>3, <2>9, DecodeCases
    <3>2. d.open \in Text
      BY <2>3, TextType DEF Decoded
    <3>3. Append(d.open, Continuation) \in Text
      BY <2>9, <3>2, AppendProperties DEF Text
    <3>4. QED  BY <2>4, <3>1, <3>3, TextType
  <2>10. CASE byte \in {Ascii, Lead2, Lead3, Lead4}
    <3>1. next.done = Append(Broken(d), byte) \/ next.done = Broken(d)
      BY <2>3, <2>10, DecodeFirst DEF Ascii, Lead2, Lead3, Lead4, Continuation
    <3>2. Append(Broken(d), byte) \in Text
      BY <2>5, AppendProperties DEF Text
    <3>3. QED  BY <2>5, <3>1, <3>2
  <2>11. QED  BY <2>3, <2>7, <2>8, <2>9, <2>10 DEF Decoded, Opens, Bytes
<1>3. Text \subseteq T
  <2> HIDE DEF T
  <2>1. QED  BY <1>1, <1>2, SequencesFromEmpty DEF Text
<1>4. QED  BY <1>3

\* What is read in a lossy way is a string, and one without NUL if its bytes were.
LEMMA LossyIsString ==
    ASSUME NEW bytes \in Seq(Bytes)
    PROVE  /\ Lossy(bytes) \in Seq(Bytes) /\ IsUtf8(Lossy(bytes))
           /\ bytes \in Text => Lossy(bytes) \in Text
           /\ IsUtf8(bytes) => Lossy(bytes) = bytes
<1>1. PICK d, done : d = Decode(bytes) /\ done = d.done
  OBVIOUS
<1>2. d \in Decoded /\ done \in Seq(Bytes) /\ Whole(done)
  BY <1>1, DecodeAppend, DoneIsWhole DEF Decoded
<1>3. Lossy(bytes) = done \/ Lossy(bytes) = done \o Replacement
  <2>1. done \o <<>> = done
    BY <1>2, ConcatEmptySeq
  <2>2. QED  BY <1>1, <2>1 DEF Lossy
<1>4. Lossy(bytes) \in Seq(Bytes) /\ Whole(Lossy(bytes))
  BY <1>2, <1>3, ReplacementIsWhole, ReplacementType, ConcatProperties
<1>5. IsUtf8(Lossy(bytes))
  BY <1>4 DEF Whole, IsUtf8
<1>6. bytes \in Text => Lossy(bytes) \in Text
  BY <1>1, <1>3, DoneIsText, TextType
<1>7. ASSUME IsUtf8(bytes) PROVE Lossy(bytes) = bytes
  <2>1. d.valid /\ d.open = <<>>
    BY <1>1, <1>7 DEF IsUtf8
  <2>2. done \o <<>> = bytes
    BY <1>1, <2>1, ValidKeepsBytes
  <2>3. QED  BY <1>1, <2>1, <2>2 DEF Lossy
<1>8. QED  BY <1>4, <1>5, <1>6, <1>7

\* What fits is read back; of what does not, as much as there is room for.
Kept(value, size) == IF Len(value) <= size THEN Len(value) ELSE size

\* What a fixed buffer gives back is the beginning that fits.
LEMMA BufferKeeps ==
    ASSUME NEW value \in Text, NEW size \in Nat
    PROVE  /\ UntilNul(StrToFixedBuffer(Zeroed(size), value).buffer) = SubSeq(value, 1, Kept(value, size))
           /\ StrToFixedBuffer(Zeroed(size), value).fits <=> Len(value) <= size
<1>1. PICK k, zeroed, buffer, all : /\ k = Kept(value, size) /\ zeroed = Zeroed(size)
                                    /\ buffer = StrToFixedBuffer(zeroed, value).buffer
                                    /\ all = Append(buffer, Nul)
  OBVIOUS
<1>2. /\ value \in Seq(Bytes) /\ Len(value) \in Nat
      /\ \A i \in 1..Len(value) : value[i] \in Bytes /\ value[i] # Nul
  <2>1. \A i \in 1..Len(value) : value[i] \in Bytes \ {Nul}
    BY ElementOfSeq DEF Text
  <2>2. QED  BY <2>1, TextType, LenProperties
<1>3. k \in Nat /\ k <= size /\ k <= Len(value) /\ (k = size \/ k = Len(value))
  BY <1>1, <1>2 DEF Kept
<1>4. Nul \in Bytes
  BY DEF Bytes
<1>5. zeroed = [i \in 1..size |-> Nul] /\ Len(zeroed) = size /\ DOMAIN zeroed = 1..size
  BY <1>1 DEF Zeroed
<1>6. buffer = [i \in 1..size |-> IF i <= Len(value) THEN value[i]
                                 ELSE IF i = Len(value) + 1 THEN Nul ELSE zeroed[i]]
  BY <1>1, <1>5 DEF StrToFixedBuffer
<1>7. /\ buffer \in Seq(Bytes) /\ Len(buffer) = size
      /\ \A i \in 1..size : buffer[i] = IF i <= Len(value) THEN value[i] ELSE Nul
  <2>1. \A i \in 1..size : buffer[i] = IF i <= Len(value) THEN value[i] ELSE Nul
    BY <1>5, <1>6
  <2>2. \A i \in 1..size : buffer[i] \in Bytes
    BY <1>2, <1>4, <2>1
  <2>3. buffer \in [1..size -> Bytes]
    BY <1>6, <2>2
  <2>4. buffer \in Seq(Bytes)
    BY <2>3, SeqDef
  <2>5. Len(buffer) = size
    BY <2>3, <2>4, LenProperties
  <2>6. QED  BY <2>1, <2>4, <2>5
<1>8. /\ Len(all) = size + 1 /\ all[size + 1] = Nul
      /\ \A i \in 1..size : all[i] = buffer[i]
  BY <1>1, <1>4, <1>7, AppendProperties
<1>9. SelectInSeq(all, LAMBDA b : b = Nul) = k + 1
  <2> DEFINE I == {i \in 1..Len(all) : all[i] = Nul}
  <2>1. k + 1 \in I
    <3>1. CASE k = size
      BY <1>8, <3>1
    <3>2. CASE k = Len(value) /\ k # size
      <4>1. k + 1 \in 1..size /\ ~(k + 1 <= Len(value))
        BY <1>3, <3>2
      <4>2. QED  BY <1>7, <1>8, <4>1
    <3>3. QED  BY <1>3, <3>1, <3>2
  <2>2. \A i \in I : k + 1 <= i
    <3>1. SUFFICES ASSUME NEW i \in 1..Len(all), i <= k PROVE all[i] # Nul
      BY <1>3, <1>8
    <3>2. i \in 1..size /\ i \in 1..Len(value)
      BY <1>2, <1>3, <3>1
    <3>3. QED  BY <1>2, <1>7, <1>8, <3>2
  <2>3. \A i \in I : i \in Nat
    BY <1>8
  <2> HIDE DEF I
  <2>4. Min(I) = k + 1
    <3>1. Min(I) \in I /\ \A i \in I : Min(I) <= i
      BY <2>1, <2>2 DEF Min
    <3>2. PICK m : m = Min(I)
      OBVIOUS
    <3>3. m <= k + 1 /\ k + 1 <= m /\ m \in Nat
      BY <2>1, <2>2, <2>3, <3>1, <3>2
    <3>4. QED  BY <1>3, <3>2, <3>3
  <2>5. I # {}
    BY <2>1
  <2>6. QED  BY <2>4, <2>5 DEF SelectInSeq, I
<1>10. SubSeq(buffer, 1, k) = SubSeq(value, 1, k)
  <2>1. PICK left, right : left = SubSeq(buffer, 1, k) /\ right = SubSeq(value, 1, k)
    OBVIOUS
  <2>2. \A i \in 1..k : buffer[i] \in Bytes /\ value[i] \in Bytes /\ buffer[i] = value[i]
    BY <1>2, <1>3, <1>7
  <2>3. 1 \in Int /\ k \in Int
    BY <1>3
  <2>4. /\ left \in Seq(Bytes) /\ Len(left) = (IF 1 <= k THEN k - 1 + 1 ELSE 0)
        /\ \A i \in 1..(k - 1 + 1) : left[i] = buffer[1 + i - 1]
    BY <2>1, <2>2, <2>3, SubSeqProperties
  <2>5. /\ right \in Seq(Bytes) /\ Len(right) = (IF 1 <= k THEN k - 1 + 1 ELSE 0)
        /\ \A i \in 1..(k - 1 + 1) : right[i] = value[1 + i - 1]
    BY <2>1, <2>2, <2>3, SubSeqProperties
  <2>6. Len(left) = k /\ Len(right) = k /\ \A i \in 1..k : left[i] = right[i]
    BY <1>3, <2>2, <2>4, <2>5
  <2>7. left = right
    BY <2>4, <2>5, <2>6, SeqEqual
  <2>8. QED  BY <2>1, <2>7
<1>11. UntilNul(buffer) = SubSeq(value, 1, k)
  <2>1. UntilNul(buffer) = SubSeq(buffer, 1, (k + 1) - 1)
    BY <1>1, <1>9, Zenon DEF UntilNul
  <2>2. (k + 1) - 1 = k
    BY <1>3
  <2>3. QED  BY <1>10, <2>1, <2>2
<1>12. StrToFixedBuffer(zeroed, value).fits <=> Len(value) <= size
  BY <1>5 DEF StrToFixedBuffer
<1>13. QED  BY <1>1, <1>11, <1>12

\* A message that fits is read as it is; of one that does not, what is left of
\* its last character, three bytes at most, becomes a replacement.
ReadAs(read, said, size) ==
    \/ read = said
    \/ /\ Len(said) > size
       /\ \E kept \in (size - 3)..size :
             read = SubSeq(said, 1, kept) \o (IF kept = size THEN <<>> ELSE Replacement)

\* What a library reads of a message that was cut to size.
LEMMA MessageIsRead ==
    ASSUME NEW said \in Text, IsUtf8(said), NEW size \in Nat \ {0},
           NEW read, read = ErrorMessage(StrToFixedBuffer(Zeroed(size), said).buffer)
    PROVE  read \in Seq(Bytes) /\ ReadAs(read, said, size)
<1>1. said \in Seq(Bytes) /\ Len(said) \in Nat /\ \A i \in 1..Len(said) : said[i] \in Bytes
  BY TextType, LenProperties, ElementOfSeq
<1>2. read = Lossy(SubSeq(said, 1, Kept(said, size)))
  BY BufferKeeps DEF ErrorMessage
<1>3. CASE Len(said) <= size
  <2>1. SubSeq(said, 1, Kept(said, size)) = said
    BY <1>1, <1>3, SubSeqFull DEF Kept
  <2>2. read = said
    BY <1>1, <1>2, <2>1, LossyIsString
  <2>3. QED  BY <1>1, <2>2 DEF ReadAs
<1>4. CASE ~(Len(said) <= size)
  <2>1. PICK cut, rest : cut = SubSeq(said, 1, size) /\ rest = SubSeq(said, size + 1, Len(said))
    OBVIOUS
  <2>2. /\ cut \in Seq(Bytes) /\ Len(cut) = size
        /\ \A i \in 1..size : cut[i] = said[i]
    <3>1. 1 \in Int /\ size \in Int /\ \A i \in 1..size : said[i] \in Bytes
      BY <1>1, <1>4
    <3>2. /\ cut \in Seq(Bytes) /\ Len(cut) = (IF 1 <= size THEN size - 1 + 1 ELSE 0)
          /\ \A i \in 1..(size - 1 + 1) : cut[i] = said[1 + i - 1]
      BY <2>1, <3>1, SubSeqProperties
    <3>3. QED  BY <3>2
  <2>3. rest \in Seq(Bytes) /\ said = cut \o rest
    <3>1. size + 1 \in Int /\ Len(said) \in Int /\ \A i \in (size + 1)..Len(said) : said[i] \in Bytes
      BY <1>1
    <3>2. rest \in Seq(Bytes)
      BY <2>1, <3>1, SubSeqProperties
    <3>3. 1 \in 1..(Len(said) + 1) /\ size \in (1 - 1)..Len(said) /\ Len(said) \in size..Len(said)
      BY <1>1, <1>4
    <3>4. SubSeq(said, 1, size) \o SubSeq(said, size + 1, Len(said)) = SubSeq(said, 1, Len(said))
      BY <1>1, <3>3, ConcatAdjacentSubSeq
    <3>5. SubSeq(said, 1, Len(said)) = said
      BY <1>1, SubSeqFull
    <3>6. QED  BY <2>1, <3>2, <3>4, <3>5
  <2>4. read = Lossy(cut)
    BY <1>2, <1>4, <2>1 DEF Kept
  <2>5. Decode(cut).valid
    BY <2>2, <2>3, ValidPrefix DEF IsUtf8
  <2>6. PICK done, open : done = Decode(cut).done /\ open = Decode(cut).open
    OBVIOUS
  <2>7. done \in Seq(Bytes) /\ open \in Opens /\ done \o open = cut
    BY <2>2, <2>5, <2>6, DecodeAppend, ValidKeepsBytes DEF Decoded
  <2>8. /\ open \in Seq(Bytes) /\ Len(open) \in 0..3 /\ Len(done) \in Nat
        /\ (open = <<>> <=> Len(open) = 0)
    BY <2>7, OpensType, LenProperties
  <2>9. /\ Len(done) + Len(open) = size
        /\ \A i \in 1..Len(done) : done[i] = cut[i]
    <3>1. /\ Len(cut) = Len(done) + Len(open)
          /\ \A i \in 1..(Len(done) + Len(open)) :
                cut[i] = IF i <= Len(done) THEN done[i] ELSE open[i - Len(done)]
      BY <2>7, <2>8, ConcatProperties
    <3>2. QED  BY <2>2, <2>8, <3>1
  <2>10. done = SubSeq(said, 1, Len(done))
    <3>1. PICK n, part : n = Len(done) /\ part = SubSeq(said, 1, n)
      OBVIOUS
    <3>2. n \in Nat /\ n <= size /\ 1 \in Int /\ n \in Int /\ \A i \in 1..n : said[i] \in Bytes
      BY <1>1, <1>4, <2>8, <2>9, <3>1
    <3>3. /\ part \in Seq(Bytes) /\ Len(part) = (IF 1 <= n THEN n - 1 + 1 ELSE 0)
          /\ \A i \in 1..(n - 1 + 1) : part[i] = said[1 + i - 1]
      BY <3>1, <3>2, SubSeqProperties
    <3>4. Len(part) = n /\ \A i \in 1..n : part[i] = done[i]
      BY <2>2, <2>9, <3>1, <3>2, <3>3
    <3>5. part = done
      BY <2>7, <3>1, <3>3, <3>4, SeqEqual
    <3>6. QED  BY <3>1, <3>5
  <2>11. read = done \o (IF open = <<>> THEN <<>> ELSE Replacement)
    BY <2>4, <2>6 DEF Lossy
  <2>12. Len(done) \in (size - 3)..size /\ (Len(done) = size <=> open = <<>>)
    <3>1. PICK n, m : n = Len(done) /\ m = Len(open)
      OBVIOUS
    <3>2. n \in Nat /\ m \in 0..3 /\ n + m = size /\ size \in Nat /\ (open = <<>> <=> m = 0)
      BY <2>8, <2>9, <3>1
    <3>3. n \in (size - 3)..size /\ (n = size <=> m = 0)
      BY ONLY <3>2
    <3>4. QED  BY <3>1, <3>2, <3>3
  <2>13. read = SubSeq(said, 1, Len(done)) \o (IF Len(done) = size THEN <<>> ELSE Replacement)
    BY <2>10, <2>11, <2>12
  <2>14. read \in Seq(Bytes)
    BY <2>2, <2>4, LossyIsString
  <2>15. Len(said) > size
    BY <1>1, <1>4
  <2>16. QED  BY <2>12, <2>13, <2>14, <2>15 DEF ReadAs
<1>5. QED  BY <1>3, <1>4

-----------------------------------------------------------------------------
(* The registry.                                                           *)

\* Two commands share an id, but none the id and the size.
LEMMA CommandsAreTold ==
    \A c, d \in Commands :
        CommandId[c] = CommandId[d] /\ CommandSize[c] = CommandSize[d] => c = d
BY DEF Commands, CommandId, CommandSize

Served == {"ProcessList", "ProcessModules", "MemoryRead", "InputKeyboard", "InputMouse",
           "MetricsReportSend"}

\* The id of these is theirs alone.
LEMMA ServedAreTold ==
    \A c \in Served, d \in Commands : CommandId[c] = CommandId[d] => c = d
BY DEF Served, Commands, CommandId

\* The tables of the commands.
LEMMA TableTypes ==
    /\ "none" \notin Commands /\ Served \subseteq Commands
    /\ DOMAIN Registered = 1..8
    /\ \A i \in 1..8 : Registered[i] \in Commands
    /\ \A c \in Served : CommandId[c] < CommandIdMax /\ \E i \in 1..8 : Registered[i] = c
BY DEF Served, Commands, CommandId, Registered, CommandIdMax

\* A command reaches its own handler or none.
LEMMA HandleProperties ==
    ASSUME NEW command \in Commands
    PROVE  /\ Handle(command).handler \in {"none", command}
           /\ Handle(command).result \in {"Success", "CommandInvalid", "CommandParameterInvalid"}
           /\ Handle(command).result = "Success" <=> Handle(command).handler = command
           /\ command \in Served => Handle(command).handler = command
<1>1. PICK slot : slot = Slot(CommandId[command])
  OBVIOUS
<1>2. slot \in SUBSET (1..8) /\ \A i \in slot : CommandId[Registered[i]] = CommandId[command]
  BY <1>1, TableTypes DEF Slot
<1>3. CASE CommandId[command] >= CommandIdMax \/ slot = {}
  <2>1. command \notin Served
    BY <1>1, <1>3, TableTypes DEF Slot, CommandIdMax, Served, CommandId
  <2>2. Handle(command) = [handler |-> "none", result |-> "CommandInvalid"]
    BY <1>1, <1>3, Zenon DEF Handle
  <2>3. QED  BY <2>1, <2>2, TableTypes
<1>4. CASE ~(CommandId[command] >= CommandIdMax \/ slot = {})
  <2>1. PICK handler : handler = Registered[Max(slot)]
    OBVIOUS
  <2>2. Max(slot) \in slot
    BY <1>2, <1>4, MaxProperties
  <2>3. handler \in Commands /\ CommandId[handler] = CommandId[command]
    BY <1>2, <2>1, <2>2, TableTypes
  <2>4. CASE CommandSize[handler] = CommandSize[command]
    <3>1. handler = command
      BY <2>3, <2>4, CommandsAreTold
    <3>2. Handle(command) = [handler |-> handler, result |-> "Success"]
      BY <1>1, <1>4, <2>1, <2>4, Zenon DEF Handle
    <3>3. QED  BY <3>1, <3>2
  <2>5. CASE CommandSize[handler] # CommandSize[command]
    <3>1. handler # command
      BY <2>5
    <3>2. command \notin Served
      BY <2>3, <3>1, ServedAreTold
    <3>3. Handle(command) = [handler |-> "none", result |-> "CommandParameterInvalid"]
      BY <1>1, <1>4, <2>1, <2>5, Zenon DEF Handle
    <3>4. QED  BY <3>2, <3>3, TableTypes
  <2>6. QED  BY <2>4, <2>5
<1>5. QED  BY <1>3, <1>4

-----------------------------------------------------------------------------
(* A call.                                                                 *)

\* The strings and batches that an application may give.
LEMMA StringTypes ==
    /\ \A max \in Nat : Strings(max) \subseteq Text
    /\ MaxBytes \in Nat /\ MaxText \in Nat
    /\ Batches(KeyboardState) \subseteq Seq(KeyboardState)
    /\ Batches(FfiMouseState) \subseteq Seq(FfiMouseState)
<1>1. MaxBytes \in Nat /\ MaxText \in Nat
  BY CommandsAssumption
<1>2. \A n \in 0..MaxStates : n \in Nat
  BY CommandsAssumption
<1>3. ASSUME NEW max \in Nat PROVE Strings(max) \subseteq Text
  <2>1. \A n \in 0..max : n \in Nat
    OBVIOUS
  <2>2. QED  BY <2>1, SeqDef DEF Strings, Text
<1>4. \A S : Batches(S) \subseteq Seq(S)
  BY <1>2, SeqDef DEF Batches
<1>5. QED  BY <1>1, <1>3, <1>4

\* The messages of driver and system are UTF-8 without a NUL.
LEMMA OwnTexts ==
    /\ <<>> \in Text /\ IsUtf8(<<>>)
    /\ OwnText \in Text /\ IsUtf8(OwnText)
    /\ \A said \in SystemTexts : said \in Text /\ IsUtf8(said)
<1>1. <<>> \in Text /\ IsUtf8(<<>>)
  <2>1. Decode(<<>>).valid /\ Decode(<<>>).open = <<>>
    BY DecodeAppend
  <2>2. QED  BY <2>1, TextType DEF IsUtf8
<1>2. OwnText \in Text /\ IsUtf8(OwnText)
  <2>1. Whole(<<>>) /\ Ascii \in Bytes /\ Ascii \in Bytes \ {Nul} /\ <<>> \in Seq(Bytes)
    BY DecodeAppend DEF Whole, Bytes, Ascii, Nul
  <2>2. Whole(Append(<<>>, Ascii))
    BY <2>1, StartsCharacter
  <2>3. Append(<<>>, Ascii) = OwnText
    BY DEF OwnText
  <2>4. OwnText \in Text
    BY <2>1 DEF OwnText, Text
  <2>5. Decode(OwnText).valid /\ Decode(OwnText).open = <<>>
    BY <2>2, <2>3 DEF Whole
  <2>6. QED  BY <2>4, <2>5 DEF IsUtf8
<1>3. QED  BY <1>1, <1>2, StringTypes DEF SystemTexts

\* An error buffer in which nothing was written holds the empty message.
LEMMA NoMessage ==
    Zeroed(ErrorSize) = StrToFixedBuffer(Zeroed(ErrorSize), <<>>).buffer
<1>1. PICK zeroed, size : zeroed = Zeroed(size) /\ size = ErrorSize
  OBVIOUS
<1>2. DOMAIN zeroed = 1..size /\ \A i \in 1..size : zeroed[i] = Nul
  BY <1>1 DEF Zeroed
<1>3. size \in Nat
  BY <1>1, CommandsAssumption
<1>4. StrToFixedBuffer(zeroed, <<>>).buffer =
          [i \in 1..size |-> IF i <= Len(<<>>) THEN <<>>[i]
                             ELSE IF i = Len(<<>>) + 1 THEN Nul ELSE zeroed[i]]
  BY <1>2 DEF StrToFixedBuffer
<1>5. \A i \in 1..size : ~(i <= Len(<<>>))
  BY <1>3
<1>6. StrToFixedBuffer(zeroed, <<>>).buffer = [i \in 1..size |-> Nul]
  BY <1>2, <1>4, <1>5
<1>7. QED  BY <1>1, <1>6 DEF Zeroed

Errors == {"none", "unsupported", "system"}

\* What every command does, whatever it is.
LEMMA ExecuteProperties ==
    ASSUME NEW command \in Commands, NEW features, NEW error \in Errors,
           Execute(command, features, error)
    PROVE  /\ sent' = command /\ needed' = features
           /\ handled' \in {"none", command}
           /\ result' \in {"Success", "Error", "CommandInvalid", "CommandParameterInvalid"}
           /\ message' \in {"none", error}
           /\ result' = "Success" => handled' = command
           /\ command \in Served =>
                 handled' = command /\ result' = IF error = "none" THEN "Success" ELSE "Error"
           /\ text' \in Seq(Bytes) /\ told' \in Seq(Bytes)
           /\ MessageReadable'
<1>1. PICK reached, handler, answer :
          /\ reached = Handle(command) /\ handler = reached.handler /\ answer = reached.result
  OBVIOUS
<1>2. /\ handler \in {"none", command}
      /\ answer \in {"Success", "CommandInvalid", "CommandParameterInvalid"}
      /\ answer = "Success" <=> handler = command
      /\ command \in Served => handler = command
  BY <1>1, HandleProperties
<1>3. /\ sent' = command /\ needed' = features /\ handled' = handler
      /\ result' = IF answer = "Success" /\ error # "none" THEN "Error" ELSE answer
      /\ message' = IF answer = "Success" THEN error ELSE "none"
  BY <1>1 DEF Execute
<1>4. /\ result' \in {"Success", "Error", "CommandInvalid", "CommandParameterInvalid"}
      /\ message' \in {"none", error}
      /\ result' = "Success" => handled' = command
      /\ command \in Served =>
            handled' = command /\ result' = IF error = "none" THEN "Success" ELSE "Error"
  BY <1>2, <1>3
<1>5. text' \in Text /\ IsUtf8(text')
  <2>1. text' \in CASE message' = "system" -> SystemTexts
                   [] message' = "unsupported" \/ result' = "CommandParameterInvalid" -> {OwnText}
                   [] OTHER -> {<<>>}
    BY DEF Execute
  <2>2. text' \in SystemTexts \/ text' = OwnText \/ text' = <<>>
    <3> HIDE DEF SystemTexts, OwnText
    <3>1. CASE message' = "system"
      BY <2>1, <3>1
    <3>2. CASE message' # "system" /\ (message' = "unsupported" \/ result' = "CommandParameterInvalid")
      BY <2>1, <3>2
    <3>3. CASE message' # "system" /\ message' # "unsupported" /\ result' # "CommandParameterInvalid"
      BY <2>1, <3>3
    <3>4. QED  BY <3>1, <3>2, <3>3
  <2>3. QED  BY <2>2, OwnTexts
<1>6. told' = ErrorMessage(StrToFixedBuffer(Zeroed(ErrorSize), text').buffer)
  <2>1. told' = ErrorMessage(IF result' = "CommandInvalid" THEN Zeroed(ErrorSize)
                             ELSE StrToFixedBuffer(Zeroed(ErrorSize), text').buffer)
    BY DEF Execute
  <2>2. CASE result' = "CommandInvalid"
    <3>1. message' = "none"
      BY <1>2, <1>3, <2>2
    <3>2. text' \in {<<>>}
      BY <2>2, <3>1 DEF Execute
    <3>3. QED  BY <2>1, <2>2, <3>2, NoMessage
  <2>3. CASE result' # "CommandInvalid"
    BY <2>1, <2>3
  <2>4. QED  BY <2>2, <2>3
<1>7. ErrorSize \in Nat \ {0}
  BY CommandsAssumption
<1>8. PICK said, read, size : said = text' /\ read = told' /\ size = ErrorSize
  OBVIOUS
<1>9. read \in Seq(Bytes) /\ ReadAs(read, said, size)
  <2>1. said \in Text /\ IsUtf8(said) /\ size \in Nat \ {0}
        /\ read = ErrorMessage(StrToFixedBuffer(Zeroed(size), said).buffer)
    BY <1>5, <1>6, <1>7, <1>8
  <2>2. QED  BY ONLY <2>1, MessageIsRead
<1>10. MessageReadable'
  BY <1>8, <1>9 DEF MessageReadable, ReadAs
<1>11. text' \in Seq(Bytes) /\ told' \in Seq(Bytes)
  BY <1>5, <1>8, <1>9, TextType
<1>12. QED  BY <1>2, <1>3, <1>4, <1>10, <1>11

\* Who asks for the features of a command first, asks for one that is served.
LEMMA AdvertisedAreServed ==
    /\ \A c \in DOMAIN Feature : c \in Commands /\ (Feature[c] \subseteq DriverFeatures => c \in Served)
    /\ \A table \in DOMAIN DirectoryTableType :
          DirectoryTableType[table] \subseteq DriverFeatures => table = "Default"
    /\ {"MemoryRead", "InputKeyboard", "InputMouse", "MetricsReportSend", "ProcessList",
        "ProcessModules"} = Served
    /\ DOMAIN Feature = Commands \ {"Initialize"}
BY DEF Feature, DriverFeatures, Served, DirectoryTableType, Commands, CommandId

-----------------------------------------------------------------------------
(* The invariant.  Only the keys depend on more than the last call.        *)

CallInv == HandledAsSent /\ AdvertisedIsServed /\ ReadIsWhole /\ RecordTypeKept /\ MessageReadable
IInv == TypeOK /\ CallInv /\ KeysFollow

\* Nothing is down and nothing was said.
LEMMA InitIInv == Init => IInv
<1>1. SUFFICES ASSUME Init PROVE IInv
  OBVIOUS
<1>2. <<>> \in Seq(Bytes) /\ 0 \in 0..MaxLength
  BY CommandsAssumption
<1>3. TypeOK
  BY <1>1, <1>2 DEF Init, TypeOK
<1>4. CallInv
  BY <1>1 DEF Init, CallInv, HandledAsSent, AdvertisedIsServed, ReadIsWhole, RecordTypeKept,
              MessageReadable
<1>5. KeysFollow
  BY <1>1 DEF Init, KeysFollow
<1>6. QED  BY <1>3, <1>4, <1>5 DEF IInv

StatusTypes == {"Success", "GeneralFailure", "Unimplemented", "ProcessUnknown", "MemoryAccessFailed"}

\* A call whose command is no read and no metrics record.
LEMMA CallKeepsCallInv ==
    ASSUME NEW command \in Commands \ {"Initialize", "MemoryRead", "MetricsReportSend"},
           NEW error \in Errors, error # "unsupported",
           Execute(command, Feature[command], error), NoRecord
    PROVE  CallInv'
<1>1. /\ sent' = command /\ needed' = Feature[command] /\ handled' \in {"none", command}
      /\ message' \in {"none", error} /\ MessageReadable'
      /\ result' = "Success" => handled' = command
      /\ command \in Served => handled' = command
  BY ExecuteProperties
<1>2. HandledAsSent'
  BY <1>1 DEF HandledAsSent
<1>3. AdvertisedIsServed'
  BY <1>1, AdvertisedAreServed DEF AdvertisedIsServed
<1>4. ReadIsWhole'
  BY <1>1 DEF ReadIsWhole
<1>5. RecordTypeKept'
  <2>1. sent' # "none" /\ sent' # "MetricsReportSend"
    BY <1>1, TableTypes
  <2>2. QED  BY <2>1 DEF RecordTypeKept
<1>6. QED  BY <1>1, <1>2, <1>3, <1>4, <1>5 DEF CallInv

\* A call that is refused sends nothing and is told nothing.
LEMMA RefuseKeepsCallInv ==
    ASSUME NEW reason, Refuse(reason),
           reason = "GeneralFailure" => Len(Lossy(named')) > TypeSize
    PROVE  CallInv'
<1>1. /\ sent' = "none" /\ handled' = "none" /\ status' = reason
      /\ text' = <<>> /\ told' = <<>>
  BY DEF Refuse
<1>2. QED  BY <1>1 DEF CallInv, HandledAsSent, AdvertisedIsServed, ReadIsWhole, RecordTypeKept,
                       MessageReadable

-----------------------------------------------------------------------------
(* The steps.                                                              *)

\* Only a success is a success.
LEMMA CommandStatusTypes ==
    /\ \A r : CommandStatus(r) \in {"Success", "GeneralFailure"}
    /\ \A r : CommandStatus(r) = "Success" <=> r = "Success"
BY DEF CommandStatus

\* A command without input leaves the keys alone.
LEMMA InputUnchanged ==
    ASSUME IInv, UNCHANGED input
    PROVE  /\ KeysFollow' /\ keys' \subseteq Keys /\ keys_sent' \subseteq Keys
           /\ buttons' \subseteq Buttons /\ buttons_sent' \subseteq Buttons
BY DEF IInv, TypeOK, KeysFollow, input

\* A command without a record has no type of one.
LEMMA NoRecordTypes == NoRecord => named' \in Seq(Bytes) /\ record' \in Seq(Bytes) \cup {NoStr}
<1>1. <<>> \in Seq(Bytes)
  OBVIOUS
<1>2. QED  BY <1>1 DEF NoRecord

\* A length that fits the width is kept by it.
LEMMA ReadLength ==
    ASSUME NEW length \in Nat
    PROVE  /\ length % Unsigned \in 0..length
           /\ length < Unsigned => length % Unsigned = length
BY CommandsAssumption

\* A read that succeeds has all its bytes.
LEMMA MemoryReadIInv ==
    ASSUME IInv, NEW table \in DOMAIN DirectoryTableType, NEW length \in 0..MaxLength,
           MemoryRead(table, length)
    PROVE  IInv'
<1> DEFINE features == Feature.MemoryRead \cup DirectoryTableType[table]
           error == IF table = "Default" THEN "none" ELSE "unsupported"
<1>1. PICK opened \in BOOLEAN, read \in BOOLEAN, some \in 0..(length % Unsigned) :
          /\ Execute("MemoryRead", features, error)
          /\ read => some = length % Unsigned
          /\ asked' = length
          /\ filled' = IF result' = "Success" /\ opened THEN some ELSE 0
          /\ status' = IF result' = "Success" THEN AccessStatus[ReadResult(opened, read)]
                                              ELSE CommandStatus(result')
          /\ NoRecord
          /\ UNCHANGED input
  BY DEF MemoryRead
<1>2. error \in Errors /\ "MemoryRead" \in Commands /\ "MemoryRead" \in Served
  BY AdvertisedAreServed, TableTypes DEF Errors
<1>3. /\ sent' = "MemoryRead" /\ needed' = features /\ handled' = "MemoryRead"
      /\ result' = IF error = "none" THEN "Success" ELSE "Error"
      /\ message' \in {"none", error}
      /\ text' \in Seq(Bytes) /\ told' \in Seq(Bytes) /\ MessageReadable'
  <2> HIDE DEF features, error
  <2>1. QED  BY <1>1, <1>2, ExecuteProperties
<1>4. /\ status' \in StatusTypes
      /\ status' = "Success" => result' = "Success" /\ opened /\ read
  <2>1. CASE result' = "Success"
    <3>1. ReadResult(opened, read) \in DOMAIN AccessStatus
      BY DEF ReadResult, AccessStatus
    <3>2. /\ AccessStatus[ReadResult(opened, read)] \in StatusTypes
          /\ AccessStatus[ReadResult(opened, read)] = "Success" => opened /\ read
      BY DEF ReadResult, AccessStatus, StatusTypes
    <3>3. QED  BY <1>1, <2>1, <3>2
  <2>2. CASE result' # "Success"
    BY <1>1, <2>2, CommandStatusTypes DEF StatusTypes
  <2>3. QED  BY <2>1, <2>2
<1>5. /\ length \in Nat /\ length % Unsigned \in 0..length
      /\ length < Unsigned => length % Unsigned = length
  <2>1. length \in Nat
    BY CommandsAssumption
  <2>2. QED  BY <2>1, ReadLength
<1>6. asked' \in 0..MaxLength /\ filled' \in 0..MaxLength
  <2>1. PICK rest : rest = length % Unsigned
    OBVIOUS
  <2>2. rest \in 0..length /\ some \in 0..rest /\ length \in 0..MaxLength /\ MaxLength \in Nat
    BY <1>1, <1>5, <2>1, CommandsAssumption
  <2>3. some \in 0..MaxLength /\ 0 \in 0..MaxLength
    BY ONLY <2>2
  <2>4. QED  BY <1>1, <2>3
<1>7. TypeOK'
  <2>1. /\ keys' \subseteq Keys /\ keys_sent' \subseteq Keys
        /\ buttons' \subseteq Buttons /\ buttons_sent' \subseteq Buttons
    BY <1>1, InputUnchanged
  <2>2. named' \in Seq(Bytes) /\ record' \in Seq(Bytes) \cup {NoStr}
    BY <1>1, NoRecordTypes
  <2>3. sent' \in Commands /\ handled' \in Commands /\ message' \in Errors
    BY <1>2, <1>3 DEF Errors
  <2>4. result' \in {"Success", "Error"}
    BY <1>3
  <2> HIDE DEF features, error
  <2>5. QED  BY <1>3, <1>4, <1>6, <2>1, <2>2, <2>3, <2>4 DEF TypeOK, StatusTypes, Errors
<1>8. HandledAsSent'
  BY <1>3 DEF HandledAsSent
<1>9. AdvertisedIsServed'
  <2>1. ASSUME needed' \subseteq DriverFeatures PROVE message' # "unsupported"
    <3>1. DirectoryTableType[table] \subseteq DriverFeatures
      BY <1>3, <2>1
    <3>2. table = "Default"
      BY <3>1, AdvertisedAreServed
    <3>3. QED  BY <1>3, <3>2
  <2>2. QED  BY <1>3, <2>1 DEF AdvertisedIsServed
<1>10. ReadIsWhole'
  <2>1. ASSUME status' = "Success", asked' < Unsigned PROVE filled' = asked'
    <3>1. length % Unsigned = length
      BY <1>1, <1>5, <2>1
    <3>2. QED  BY <1>1, <1>4, <2>1, <3>1
  <2>2. QED  BY <2>1 DEF ReadIsWhole
<1>11. RecordTypeKept'
  BY <1>3 DEF RecordTypeKept
<1>12. KeysFollow'
  BY <1>1, InputUnchanged
<1>13. QED  BY <1>3, <1>7, <1>8, <1>9, <1>10, <1>11, <1>12 DEF IInv, CallInv

\* The types of a call whose command is no read and no metrics record.
LEMMA CallKeepsTypes ==
    ASSUME NEW command \in Commands, NEW error \in Errors,
           Execute(command, Feature[command], error),
           status' \in StatusTypes, asked' = 0, filled' = 0,
           named' \in Seq(Bytes), record' \in Seq(Bytes) \cup {NoStr},
           keys' \subseteq Keys, keys_sent' \subseteq Keys,
           buttons' \subseteq Buttons, buttons_sent' \subseteq Buttons
    PROVE  TypeOK'
<1>1. 0 \in 0..MaxLength
  BY CommandsAssumption
<1>2. /\ sent' = command /\ handled' \in {"none", command} /\ message' \in {"none", error}
      /\ result' \in {"Success", "Error", "CommandInvalid", "CommandParameterInvalid"}
      /\ text' \in Seq(Bytes) /\ told' \in Seq(Bytes)
  BY ExecuteProperties
<1>3. QED  BY <1>1, <1>2 DEF TypeOK, StatusTypes, Errors

\* A list succeeds or has a message of the system.
LEMMA ListingIInv ==
    ASSUME IInv, NEW command \in Commands, Listing(command)
    PROVE  IInv'
<1>1. PICK error \in {"none", "system"} : Execute(command, Feature[command], error)
  BY DEF Listing
<1>2. /\ command \in {"ProcessList", "ProcessModules"} /\ asked' = 0 /\ filled' = 0
      /\ NoRecord /\ UNCHANGED input
  BY DEF Listing
<1>3. status' \in StatusTypes
  <2>1. status' \in {"Success", "GeneralFailure", "ProcessUnknown", CommandStatus(result')}
    BY DEF Listing
  <2>2. QED  BY <2>1, CommandStatusTypes DEF StatusTypes
<1>4. error \in Errors /\ error # "unsupported"
  BY DEF Errors
<1>5. CallInv'
  BY <1>1, <1>2, <1>4, CallKeepsCallInv
<1>6. TypeOK'
  BY <1>1, <1>2, <1>3, <1>4, CallKeepsTypes, InputUnchanged, NoRecordTypes
<1>7. QED  BY <1>2, <1>5, <1>6, InputUnchanged DEF IInv

\* A call that is answered by the result of its command alone.
LEMMA ReplyKeeps ==
    ASSUME NEW command \in Commands \ {"Initialize", "MemoryRead", "MetricsReportSend"},
           Reply(command, Feature[command], "none"), NoRecord,
           keys' \subseteq Keys, keys_sent' \subseteq Keys,
           buttons' \subseteq Buttons, buttons_sent' \subseteq Buttons
    PROVE  TypeOK' /\ CallInv'
<1>1. /\ Execute(command, Feature[command], "none") /\ asked' = 0 /\ filled' = 0
      /\ status' = CommandStatus(result')
  BY DEF Reply
<1>2. status' \in StatusTypes
  BY <1>1, CommandStatusTypes DEF StatusTypes
<1>3. "none" \in Errors
  BY DEF Errors
<1>4. CallInv'
  BY <1>1, <1>3, CallKeepsCallInv
<1>5. TypeOK'
  BY <1>1, <1>2, <1>3, CallKeepsTypes, NoRecordTypes
<1>6. QED  BY <1>4, <1>5

\* The other commands have no message.
LEMMA OtherCommandIInv ==
    ASSUME IInv, NEW command \in Commands, OtherCommand(command)
    PROVE  IInv'
<1>1. /\ command \in Commands \ {"Initialize", "MemoryRead", "MetricsReportSend"}
      /\ Reply(command, Feature[command], "none") /\ NoRecord /\ UNCHANGED input
  BY DEF OtherCommand
<1>2. QED  BY <1>1, ReplyKeeps, InputUnchanged DEF IInv

\* A call for which the library sends no command.
LEMMA NoCommandIInv ==
    ASSUME IInv, NoCommand
    PROVE  IInv'
<1>1. Refuse("Unimplemented") /\ NoRecord /\ UNCHANGED input
  BY DEF NoCommand
<1>2. CallInv'
  BY <1>1, RefuseKeepsCallInv
<1>3. <<>> \in Seq(Bytes) /\ 0 \in 0..MaxLength
  BY CommandsAssumption
<1>4. TypeOK'
  BY <1>1, <1>3, InputUnchanged, NoRecordTypes DEF TypeOK, Refuse
<1>5. QED  BY <1>1, <1>2, <1>4, InputUnchanged DEF IInv

\* The keys are those of the fold, which are those that were said.
LEMMA KeyboardIInv ==
    ASSUME IInv, NEW states \in Batches(KeyboardState), Keyboard(states)
    PROVE  IInv'
<1>1. PICK held, after : held = keys /\ after = FoldLeft(KeyInput, held, states)
  OBVIOUS
<1>2. states \in Seq(KeyboardState) /\ held \in SUBSET Keys /\ keys_sent = held
  BY <1>1, StringTypes DEF IInv, TypeOK, KeysFollow
<1>3. after = KeysSaid(held, states) /\ after \in SUBSET Keys
  <2>1. after = KeysSaid(held, states)
    BY <1>1, <1>2, KeysAsSaid
  <2>2. KeysSaid(held, states) \in SUBSET Keys
    BY DEF KeysSaid
  <2>3. QED  BY <2>1, <2>2
<1>4. /\ Reply("InputKeyboard", Feature.InputKeyboard, "none")
      /\ keys' = IF result' = "Success" THEN after ELSE held
      /\ keys_sent' = KeysSaid(held, states)
      /\ NoRecord /\ UNCHANGED <<buttons, buttons_sent>>
  BY <1>1, <1>2 DEF Keyboard
<1>5. result' = "Success"
  <2>1. "InputKeyboard" \in Served /\ "InputKeyboard" \in Commands /\ "none" \in Errors
    BY AdvertisedAreServed, TableTypes DEF Errors
  <2>2. Execute("InputKeyboard", Feature.InputKeyboard, "none")
    BY <1>4 DEF Reply
  <2>3. QED  BY <2>1, <2>2, ExecuteProperties
<1>6. keys' = after /\ keys_sent' = after
  BY <1>3, <1>4, <1>5
<1>7. /\ keys' \subseteq Keys /\ keys_sent' \subseteq Keys
      /\ buttons' \subseteq Buttons /\ buttons_sent' \subseteq Buttons
  BY <1>3, <1>4, <1>6 DEF IInv, TypeOK
<1>8. "InputKeyboard" \in Commands \ {"Initialize", "MemoryRead", "MetricsReportSend"}
  BY AdvertisedAreServed, TableTypes
<1>9. TypeOK' /\ CallInv'
  BY <1>4, <1>7, <1>8, ReplyKeeps
<1>10. KeysFollow'
  BY <1>6 DEF KeysFollow
<1>11. QED  BY <1>9, <1>10 DEF IInv

\* The buttons are those of the folds.
LEMMA MouseIInv ==
    ASSUME IInv, NEW states \in Batches(FfiMouseState), Mouse(states)
    PROVE  IInv'
<1>1. PICK held, said, after, told_after :
          /\ held = buttons /\ said = buttons_sent
          /\ after = FoldLeft(MouseInput, held, states)
          /\ told_after = FoldLeft(Said, said, states)
  OBVIOUS
<1>2. /\ states \in Seq(FfiMouseState) /\ held \in SUBSET Buttons /\ said \in SUBSET Buttons
  BY <1>1, StringTypes DEF IInv, TypeOK
<1>3. after \in SUBSET Buttons /\ told_after \in SUBSET Buttons
  BY <1>1, <1>2, ButtonsStay
<1>4. /\ Reply("InputMouse", Feature.InputMouse, "none")
      /\ buttons' = IF result' = "Success" THEN after ELSE held
      /\ buttons_sent' = told_after
      /\ NoRecord /\ UNCHANGED <<keys, keys_sent>>
  BY <1>1 DEF Mouse
<1>5. buttons' \subseteq Buttons /\ buttons_sent' \subseteq Buttons
  BY <1>2, <1>3, <1>4
<1>6. keys' \subseteq Keys /\ keys_sent' \subseteq Keys /\ KeysFollow'
  BY <1>4 DEF IInv, TypeOK, KeysFollow
<1>7. "InputMouse" \in Commands \ {"Initialize", "MemoryRead", "MetricsReportSend"}
  BY AdvertisedAreServed, TableTypes
<1>8. TypeOK' /\ CallInv'
  BY <1>4, <1>5, <1>6, <1>7, ReplyKeeps
<1>9. QED  BY <1>6, <1>8 DEF IInv

\* A string that fits in a buffer is read back whole, also when it fills it up.
LEMMA StringIsReadBack ==
    ASSUME NEW value \in Text, IsUtf8(value), NEW size \in Nat,
           StrToFixedBuffer(Zeroed(size), value).fits
    PROVE  FixedBufferToStr(StrToFixedBuffer(Zeroed(size), value).buffer) = value
<1>1. PICK buffer : buffer = StrToFixedBuffer(Zeroed(size), value).buffer
  OBVIOUS
<1>2. value \in Seq(Bytes) /\ Len(value) <= size
  BY BufferKeeps, TextType
<1>3. SubSeq(value, 1, Kept(value, size)) = value
  BY <1>2, SubSeqFull DEF Kept
<1>4. UntilNul(buffer) = value
  BY <1>1, <1>3, BufferKeeps
<1>5. QED  BY <1>1, <1>4 DEF FixedBufferToStr

\* The type of a record is what was named, or is refused.
LEMMA AddMetricsRecordIInv ==
    ASSUME IInv, NEW record_type \in Strings(MaxBytes), AddMetricsRecord(record_type)
    PROVE  IInv'
<1>1. PICK value, size, set :
          /\ value = Lossy(record_type) /\ size = TypeSize
          /\ set = StrToFixedBuffer(Zeroed(size), value)
  OBVIOUS
<1>2. record_type \in Text /\ record_type \in Seq(Bytes) /\ size \in Nat
  BY <1>1, StringTypes, TextType, CommandsAssumption
<1>3. value \in Text /\ value \in Seq(Bytes) /\ IsUtf8(value) /\ Len(value) \in Nat
  BY <1>1, <1>2, LossyIsString, LenProperties
<1>4. set.fits <=> Len(value) <= size
  BY <1>1, <1>2, <1>3, BufferKeeps
<1>5. named' = record_type /\ UNCHANGED input
  BY DEF AddMetricsRecord
<1>6. /\ keys' \subseteq Keys /\ keys_sent' \subseteq Keys
      /\ buttons' \subseteq Buttons /\ buttons_sent' \subseteq Buttons /\ KeysFollow'
  BY <1>5, InputUnchanged
<1>7. CASE set.fits
  <2>1. /\ Reply("MetricsReportSend", Feature.MetricsReportSend, "none")
        /\ record' = IF handled' = sent' THEN FixedBufferToStr(set.buffer) ELSE <<>>
    BY <1>1, <1>7 DEF AddMetricsRecord
  <2>2. /\ "MetricsReportSend" \in Served /\ "MetricsReportSend" \in Commands /\ "none" \in Errors
        /\ "MetricsReportSend" # "none"
    BY AdvertisedAreServed, TableTypes DEF Errors
  <2>3. /\ Execute("MetricsReportSend", Feature.MetricsReportSend, "none")
        /\ status' = CommandStatus(result') /\ asked' = 0 /\ filled' = 0
    BY <2>1 DEF Reply
  <2>4. /\ sent' = "MetricsReportSend" /\ handled' = "MetricsReportSend"
        /\ message' \in {"none"} /\ MessageReadable'
    BY <2>2, <2>3, ExecuteProperties
  <2>5. record' = value
    <3>1. FixedBufferToStr(set.buffer) = value
      BY <1>1, <1>2, <1>3, <1>7, StringIsReadBack
    <3>2. QED  BY <2>1, <2>4, <3>1
  <2>6. RecordTypeKept'
    <3>1. record' = Lossy(named')
      BY <1>1, <1>5, <2>5
    <3>2. QED  BY <2>4, <3>1 DEF RecordTypeKept
  <2>7. CallInv'
    BY <2>4, <2>6 DEF CallInv, HandledAsSent, AdvertisedIsServed, ReadIsWhole
  <2>8. status' \in StatusTypes
    BY <2>3, CommandStatusTypes DEF StatusTypes
  <2>9. TypeOK'
    BY <1>2, <1>3, <1>5, <1>6, <2>2, <2>3, <2>5, <2>8, CallKeepsTypes
  <2>10. QED  BY <1>6, <2>7, <2>9 DEF IInv
<1>8. CASE ~set.fits
  <2>1. Refuse("GeneralFailure") /\ record' = <<>>
    BY <1>1, <1>8 DEF AddMetricsRecord
  <2>2. Len(Lossy(named')) > TypeSize
    BY <1>1, <1>2, <1>3, <1>4, <1>5, <1>8
  <2>3. CallInv'
    BY <2>1, <2>2, RefuseKeepsCallInv
  <2>4. <<>> \in Seq(Bytes) /\ 0 \in 0..MaxLength
    BY CommandsAssumption
  <2>5. TypeOK'
    BY <1>2, <1>5, <1>6, <2>1, <2>4 DEF TypeOK, Refuse
  <2>6. QED  BY <1>6, <2>3, <2>5 DEF IInv
<1>9. QED  BY <1>7, <1>8

\* Nothing happens.
LEMMA StutterIInv ==
    ASSUME IInv, UNCHANGED vars
    PROVE  IInv'
<1>1. IInv /\ UNCHANGED vars
  OBVIOUS
<1>2. /\ TypeOK /\ HandledAsSent /\ AdvertisedIsServed /\ ReadIsWhole /\ RecordTypeKept
      /\ MessageReadable /\ KeysFollow
  BY DEF IInv, CallInv
<1> USE DEF vars, reply, input
<1>3. TypeOK'
  BY <1>1, <1>2 DEF TypeOK
<1>4. HandledAsSent' /\ AdvertisedIsServed' /\ ReadIsWhole'
  BY <1>1, <1>2 DEF HandledAsSent, AdvertisedIsServed, ReadIsWhole
<1>5. RecordTypeKept'
  BY <1>1, <1>2 DEF RecordTypeKept
<1>6. MessageReadable'
  BY <1>1, <1>2 DEF MessageReadable
<1>7. KeysFollow'
  BY <1>1, <1>2 DEF KeysFollow
<1>8. QED  BY <1>3, <1>4, <1>5, <1>6, <1>7 DEF IInv, CallInv

\* Every call keeps the invariant.
LEMMA StepIInv == IInv /\ [Next]_vars => IInv'
<1> SUFFICES ASSUME IInv, [Next]_vars PROVE IInv'
  OBVIOUS
<1>1. ASSUME NEW table \in DOMAIN DirectoryTableType, NEW length \in 0..MaxLength,
             MemoryRead(table, length)
      PROVE  IInv'
  BY <1>1, MemoryReadIInv
<1>2. ASSUME NEW command \in Commands, Listing(command) PROVE IInv'
  BY <1>2, ListingIInv
<1>3. ASSUME NEW command \in Commands, OtherCommand(command) PROVE IInv'
  BY <1>3, OtherCommandIInv
<1>4. ASSUME NEW record_type \in Strings(MaxBytes), AddMetricsRecord(record_type) PROVE IInv'
  BY <1>4, AddMetricsRecordIInv
<1>5. CASE NoCommand
  BY <1>5, NoCommandIInv
<1>6. ASSUME NEW states \in Batches(KeyboardState), Keyboard(states) PROVE IInv'
  BY <1>6, KeyboardIInv
<1>7. ASSUME NEW states \in Batches(FfiMouseState), Mouse(states) PROVE IInv'
  BY <1>7, MouseIInv
<1>8. CASE UNCHANGED vars
  BY <1>8, StutterIInv
<1>9. QED  BY <1>1, <1>2, <1>3, <1>4, <1>5, <1>6, <1>7, <1>8 DEF Next

\* So it holds in every state that can be reached.
LEMMA SpecIInv == Spec => []IInv
<1>1. QED  BY InitIInv, StepIInv, PTL DEF Spec

-----------------------------------------------------------------------------
(* Theorems.                                                               *)

\* Every call leaves the library, the driver and the system's input in states
\* of their types, whatever keys, strings and numbers of states there are.
THEOREM CommandsTypeCorrect == Spec => []TypeOK
<1>1. IInv => TypeOK
  BY DEF IInv
<1>2. QED  BY <1>1, SpecIInv, PTL

\* The registry's handle: a handler never gets the bytes of a command that is not
\* its own, though MetricsFlush and Cr3ShenanigansEnable share an id: no two
\* commands have the same id and the same size.
THEOREM OwnCommandOnly == Spec => []HandledAsSent
<1>1. IInv => HandledAsSent
  BY DEF IInv, CallInv
<1>2. QED  BY <1>1, SpecIInv, PTL

\* DriverFeatures of init against the handlers it registers: each command that a
\* feature of the driver stands for has a handler, which supports the call.
THEOREM FeaturesAreServed == Spec => []AdvertisedIsServed
<1>1. IInv => AdvertisedIsServed
  BY DEF IInv, CallInv
<1>2. QED  BY <1>1, SpecIInv, PTL

\* The memory read: success says that the buffer is filled, for every length that
\* fits into the u32 of NtReadVirtualMemory.
THEOREM ReadsAreWhole == Spec => []ReadIsWhole
<1>1. IInv => ReadIsWhole
  BY DEF IInv, CallInv
<1>2. QED  BY <1>1, SpecIInv, PTL

\* The type of a metrics record, of any bytes without NUL and for a buffer of any
\* size: refused or kept, also at the very size of the buffer, where no NUL fits.
THEOREM RecordTypesAreKept == Spec => []RecordTypeKept
<1>1. IInv => RecordTypeKept
  BY DEF IInv, CallInv
<1>2. QED  BY <1>1, SpecIInv, PTL

\* The error message of a handler, of any characters and for a buffer of any size:
\* read as written, or cut to its whole characters and one replacement.
THEOREM MessagesAreReadable == Spec => []MessageReadable
<1>1. IInv => MessageReadable
  BY DEF IInv, CallInv
<1>2. QED  BY <1>1, SpecIInv, PTL

\* The keyboard: the events that the driver makes of any sequence of states leave
\* those keys held that the application last said are down.
THEOREM KeysAreFollowed == Spec => []KeysFollow
<1>1. IInv => KeysFollow
  BY DEF IInv
<1>2. QED  BY <1>1, SpecIInv, PTL
=============================================================================
