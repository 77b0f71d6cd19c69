---------------------- MODULE RestoreProtocolProofs ----------------------
(***************************************************************************)
(* Proofs about the text between the root helper and the window, for every *)
(* text, place, limit and pipe:                                            *)
(*                                                                         *)
(*   - sanitizeProtocolText makes of a text what was meant, and            *)
(*     parseProtocolLine of a line the message it was made of              *)
(*     (SanitizedAsMeant, LineRead);                                       *)
(*   - of what is not a whole line it makes no message of another kind     *)
(*     (PartRead);                                                         *)
(*   - the word that asks the helper to stop is heard (WordHeard);         *)
(*   - the messages arrive, and the verdict is the helper's                *)
(*     (MessagesArrive, VerdictIsTheHelpers), by two invariants: SaidInv,  *)
(*     what the helper has said, and FlowInv, where its characters are.    *)
(***************************************************************************)
EXTENDS RestoreProtocol, SequenceTheorems, WellFoundedInduction, TLAPS

----------------------------------------------------------------------------
\* Numbers and recursive functions. What the code does character by character is a
\* recursive function here; what holds of one holds because there would be a least
\* number where it does not.

\* A set of numbers has a least one.
LEMMA LeastNumber ==
  ASSUME NEW T, T \subseteq Nat, T # {}
  PROVE  Min(T) \in T /\ \A k \in T : Min(T) <= k
<1> DEFINE R == { pair \in Nat \X Nat : pair[1] < pair[2] }
<1>1. IsWellFoundedOn(R, Nat) BY NatLessThanWellFounded DEF OpToRel
<1>2. \A a, b \in Nat : << a, b >> \in R <=> a < b OBVIOUS
<1> HIDE DEF R
<1>3. PICK x \in T : \A y \in T : << y, x >> \notin R BY <1>1, WFMin
<1>4. \A y \in T : x <= y
  <2> TAKE y \in T
  <2>1. x \in Nat /\ y \in Nat /\ ~ (y < x) BY <1>2, <1>3
  <2> QED BY <2>1
<1> QED BY <1>4 DEF Min

\* A bounded one has a greatest.
LEMMA GreatestNumber ==
  ASSUME NEW n \in Nat, NEW T, T \subseteq 0 .. n, T # {}
  PROVE  Max(T) \in T /\ \A k \in T : k <= Max(T)
<1> DEFINE U == { n - k : k \in T }
<1>1. U \subseteq Nat /\ U # {}
  <2>1. \A k \in T : k \in 0 .. n OBVIOUS
  <2>2. \A k \in 0 .. n : n - k \in Nat OBVIOUS
  <2>3. PICK k \in T : TRUE OBVIOUS
  <2> QED BY <2>1, <2>2, <2>3
<1> HIDE DEF U
<1>2. Min(U) \in U /\ \A k \in U : Min(U) <= k BY <1>1, LeastNumber
<1>3. PICK x \in T : Min(U) = n - x BY <1>2 DEF U
<1>4. \A y \in T : y <= x
  <2> TAKE y \in T
  <2>1. n - y \in U BY DEF U
  <2>2. x \in 0 .. n /\ y \in 0 .. n /\ n - x <= n - y BY <1>2, <1>3, <2>1
  <2> QED BY <2>2
<1>5. \E z \in T : \A y \in T : z >= y
  <2> WITNESS x \in T
  <2> TAKE y \in T
  <2>1. y <= x /\ x \in 0 .. n /\ y \in 0 .. n BY <1>4
  <2> QED BY <2>1
<1>6. Max(T) \in T /\ \A k \in T : Max(T) >= k
  <2> HIDE DEF U
  <2> QED BY <1>5 DEF Max
<1> QED
  <2> SUFFICES ASSUME NEW k \in T PROVE k <= Max(T) BY <1>6
  <2>1. Max(T) \in 0 .. n /\ k \in 0 .. n /\ Max(T) >= k BY <1>6
  <2> QED BY <2>1

\* Step by step up to a number.
LEMMA UpTo ==
  ASSUME NEW n \in Nat, NEW G, 0 \in G, \A i \in 0 .. n - 1 : i \in G => i + 1 \in G
  PROVE  \A i \in 0 .. n : i \in G
<1> SUFFICES ASSUME \E i \in 0 .. n : i \notin G PROVE FALSE OBVIOUS
<1> DEFINE T == { i \in 0 .. n : i \notin G }
<1>1. T \subseteq Nat /\ T # {} OBVIOUS
<1> HIDE DEF T
<1>2. PICK m \in T : \A k \in T : m <= k BY <1>1, LeastNumber
<1>3. m \in 0 .. n /\ m \notin G BY DEF T
<1>4. m - 1 \in 0 .. n - 1 /\ m - 1 \notin T BY <1>2, <1>3
<1>5. m - 1 \in G BY <1>3, <1>4 DEF T
<1> QED BY <1>3, <1>4, <1>5

\* What a recursive function is: a beginning, and what comes after what came before.
Follows(g, n, base, next) ==
  g[0] = base /\ \A i \in 1 .. n : g[i] = next[<< i, g[i - 1] >>]

\* One result for each number and each result before it.
Steps(n, S) == [(1 .. n) \X S -> S]

\* A function that says what comes first and what comes next exists.
LEMMA Recursion ==
  ASSUME NEW n \in Nat, NEW S, NEW base \in S, NEW next \in Steps(n, S)
  PROVE  \E g \in [0 .. n -> S] : Follows(g, n, base, next)
<1> DEFINE F(m, g) == g[0] = base /\ \A i \in 1 .. m : g[i] = next[<< i, g[i - 1] >>]
           G == { m \in 0 .. n : \E g \in [0 .. m -> S] : F(m, g) }
<1>1. 0 \in G
  <2> DEFINE g == [i \in 0 .. 0 |-> base]
  <2>1. g \in [0 .. 0 -> S] /\ F(0, g) OBVIOUS
  <2> HIDE DEF g
  <2> QED BY <2>1
<1>2. ASSUME NEW m \in 0 .. n - 1, m \in G PROVE m + 1 \in G
  <2>1. PICK g \in [0 .. m -> S] : F(m, g) BY <1>2
  <2> DEFINE h == [i \in 0 .. m + 1 |-> IF i <= m THEN g[i] ELSE next[<< m + 1, g[m] >>]]
  <2>2. next[<< m + 1, g[m] >>] \in S BY <2>1 DEF Steps
  <2>3. h \in [0 .. m + 1 -> S] BY <2>2
  <2>4. \A i \in 1 .. m + 1 : h[i] = next[<< i, h[i - 1] >>]
    <3> TAKE i \in 1 .. m + 1
    <3>1. CASE i <= m
      <4>1. h[i] = g[i] /\ h[i - 1] = g[i - 1] BY <3>1
      <4>2. g[i] = next[<< i, g[i - 1] >>] BY <2>1, <3>1
      <4> QED BY <4>1, <4>2
    <3>2. CASE i = m + 1
      <4>1. h[i] = next[<< m + 1, g[m] >>] /\ h[i - 1] = g[m] BY <3>2
      <4> QED BY <3>2, <4>1
    <3> QED BY <3>1, <3>2
  <2>5. h[0] = base BY <2>1
  <2> HIDE DEF h
  <2>6. m + 1 \in 0 .. n BY <1>2
  <2> QED BY <2>3, <2>4, <2>5, <2>6
<1> HIDE DEF G
<1>3. n \in G BY <1>1, <1>2, UpTo
<1> QED BY <1>3 DEF G, Follows

----------------------------------------------------------------------------
\* Texts, and what sanitizeProtocolText makes of them.

\* What a message is made of; the words of a protocol line count as one character.
Alphabet ==
  STRING \cup {Blank, NewLine, HighHalf, LowHalf, Replacement, "/",
               "version", "5", "plan", "step", "detail", "failure", "result", "can", "cel"}

\* Texts, lines and what a pipe carries.
Characters == Seq(Alphabet)

\* What sanitizeProtocolText makes of a text.
Plain(text) ==
  /\ text \in Characters
  /\ Len(text) <= MaxProtocolTextLength
  /\ text # << >> => text[1] \notin Separators /\ text[Len(text)] \notin Separators
  /\ \A j \in 1 .. Len(text) :
       text[j] \in Separators => text[j] = Blank /\ text[j + 1] \notin Separators
  /\ Paired(text)

\* The words of a text are found character by character.
LEMMA WordsAre ==
  ASSUME NEW text \in Characters
  PROVE  /\ Words(text) \in [0 .. Len(text) -> Characters]
         /\ Words(text)[0] = << >>
         /\ \A i \in 1 .. Len(text) : Words(text)[i] = Extended(Words(text)[i - 1], text, i)
<1> DEFINE n == Len(text)
           next == [p \in (1 .. n) \X Characters |-> Extended(p[2], text, p[1])]
           F(g) == g = [i \in 0 .. n |-> IF i = 0 THEN << >> ELSE Extended(g[i - 1], text, i)]
           w == Words(text)
<1>1. n \in Nat /\ << >> \in Characters BY DEF Characters
<1>2. \A i \in 1 .. n, words \in Characters : Extended(words, text, i) \in Characters
  <2> TAKE i \in 1 .. n, words \in Characters
  <2>1. text[i] \in Alphabet BY DEF Characters
  <2>2. Blank \in Alphabet BY DEF Alphabet
  <2> QED BY <2>1, <2>2 DEF Extended, Characters
<1>3. next \in Steps(n, Characters) BY <1>2 DEF Steps
<1>4. \A i \in 1 .. n, words \in Characters : next[<< i, words >>] = Extended(words, text, i)
  OBVIOUS
<1> HIDE DEF n, next, w
<1>5. PICK g \in [0 .. n -> Characters] : Follows(g, n, << >>, next)
  BY <1>1, <1>3, Recursion
<1>6. F(g)
  <2>1. \A i \in 1 .. n : g[i - 1] \in Characters BY <1>1, <1>5
  <2>2. \A i \in 1 .. n : g[i] = Extended(g[i - 1], text, i) BY <1>4, <1>5, <2>1 DEF Follows
  <2>3. \A i \in 0 .. n : g[i] = IF i = 0 THEN << >> ELSE Extended(g[i - 1], text, i)
    BY <1>1, <1>5, <2>2 DEF Follows
  <2> QED BY <1>5, <2>3
<1>7. w = CHOOSE f : F(f) BY DEF Words, n, w
<1>8. F(w)
  <2> HIDE DEF F
  <2> QED BY <1>6, <1>7
<1>9. w[0] = << >> /\ \A i \in 1 .. n : w[i] = Extended(w[i - 1], text, i) BY <1>1, <1>8
<1>10. \A i \in 0 .. n : w[i] \in Characters
  <2> DEFINE G == { i \in 0 .. n : w[i] \in Characters }
  <2>1. 0 \in G BY <1>1, <1>9
  <2>2. \A i \in 0 .. n - 1 : i \in G => i + 1 \in G BY <1>1, <1>2, <1>9
  <2> HIDE DEF G
  <2>3. \A i \in 0 .. n : i \in G BY <1>1, <2>1, <2>2, UpTo
  <2> QED BY <2>3 DEF G
<1>11. w \in [0 .. n -> Characters] BY <1>8, <1>10
<1> QED BY <1>9, <1>11 DEF n, w

\* What the words of a text up to a character are like.
WordsUpTo(words, text, i) ==
  /\ words \in Characters
  /\ words # << >> => words[1] \notin Separators /\ words[Len(words)] \notin Separators
  /\ \A j \in 1 .. Len(words) :
       /\ words[j] \in Separators => words[j] = Blank /\ words[j + 1] \notin Separators
       /\ words[j] = HighHalf =>
            IF j = Len(words) THEN i > 0 /\ text[i] = HighHalf ELSE words[j + 1] = LowHalf
       /\ words[j] = LowHalf => j > 1 /\ words[j - 1] = HighHalf
  /\ i > 0 /\ text[i] \notin Separators => words # << >> /\ words[Len(words)] = text[i]

\* A character of a text, taken together with what came before it, leaves words with single
\* blanks between them and only grows them.
LEMMA WordsExtended ==
  ASSUME NEW text \in Characters, Paired(text), NEW i \in 1 .. Len(text), NEW words,
         WordsUpTo(words, text, i - 1)
  PROVE  /\ WordsUpTo(Extended(words, text, i), text, i)
         /\ Len(words) <= Len(Extended(words, text, i))
<1> DEFINE more == Extended(words, text, i)
<1>1. words \in Characters /\ text[i] \in Alphabet /\ Blank \in Alphabet
  BY DEF WordsUpTo, Characters, Alphabet
<1>2. Blank \in Separators /\ HighHalf \notin Separators /\ LowHalf \notin Separators
      /\ HighHalf # LowHalf /\ Blank # HighHalf /\ Blank # LowHalf
  BY DEF Separators, Blank, NewLine, HighHalf, LowHalf
<1>3. i > 1 => i - 1 \in DOMAIN text /\ i - 1 > 0 BY <1>1 DEF Characters
<1>4. i \in DOMAIN text BY DEF Characters
<1>8. ASSUME i - 1 > 0, text[i - 1] = HighHalf PROVE text[i] = LowHalf
  <2>1. i - 1 \in DOMAIN text BY <1>3, <1>8
  <2>2. text[(i - 1) + 1] = LowHalf BY <1>8, <2>1 DEF Paired
  <2> QED BY <2>2
<1>5. CASE text[i] \in Separators
  <2>1. more = words BY <1>5 DEF Extended
  <2>2. words # << >> => words[Len(words)] # HighHalf \/ ~ (i - 1 > 0 /\ text[i - 1] = HighHalf)
    BY <1>2, <1>5, <1>8
  <2>3. words # << >> => Len(words) \in 1 .. Len(words) BY <1>1 DEF Characters
  <2>4. words # << >> => words[Len(words)] # HighHalf BY <2>2, <2>3 DEF WordsUpTo
  <2> HIDE DEF more
  <2>5. WordsUpTo(more, text, i)
    BY <1>1, <1>5, <2>1, <2>3, <2>4 DEF WordsUpTo, Characters
  <2> QED BY <1>1, <2>1, <2>5 DEF more, Characters
<1>6. CASE text[i] \notin Separators /\ words # << >> /\ text[i - 1] \in Separators
  <2>1. more = words \o << Blank, text[i] >> BY <1>6 DEF Extended
  <2>2. /\ more \in Characters /\ Len(more) = Len(words) + 2
        /\ \A j \in 1 .. Len(words) : more[j] = words[j]
        /\ more[Len(words) + 1] = Blank /\ more[Len(words) + 2] = text[i]
    BY <1>1, <2>1 DEF Characters
  <2>3. Len(words) \in Nat /\ Len(words) >= 1 BY <1>1, <1>6 DEF Characters
  <2>4. words[Len(words)] \notin Separators /\ words[Len(words)] # HighHalf
    BY <1>2, <1>6, <2>3 DEF WordsUpTo
  <2>5. text[i] # LowHalf BY <1>2, <1>4, <1>6 DEF Paired
  <2> HIDE DEF more
  <2>6. ASSUME NEW j \in 1 .. Len(more)
        PROVE  /\ more[j] \in Separators => more[j] = Blank /\ more[j + 1] \notin Separators
               /\ more[j] = HighHalf =>
                    IF j = Len(more) THEN i > 0 /\ text[i] = HighHalf ELSE more[j + 1] = LowHalf
               /\ more[j] = LowHalf => j > 1 /\ more[j - 1] = HighHalf
    <3>1. CASE j < Len(words)
      <4>1. /\ j \in 1 .. Len(words) /\ j # Len(words) /\ j # Len(more)
            /\ j + 1 \in 1 .. Len(words)
            /\ j > 1 => j - 1 \in 1 .. Len(words)
        BY <2>2, <2>3, <3>1
      <4>2. /\ more[j] = words[j] /\ more[j + 1] = words[j + 1]
            /\ j > 1 => more[j - 1] = words[j - 1]
        BY <2>2, <4>1
      <4> QED BY <4>1, <4>2 DEF WordsUpTo
    <3>2. CASE j = Len(words)
      <4>1. j \in 1 .. Len(words) /\ j # Len(more) /\ more[j] = words[j] BY <2>2, <2>3, <3>2
      <4>2. more[j] = LowHalf => j > 1 /\ words[j - 1] = HighHalf BY <4>1 DEF WordsUpTo
      <4> QED BY <2>2, <2>3, <2>4, <3>2, <4>1, <4>2
    <3>3. CASE j = Len(words) + 1 BY <1>2, <1>6, <2>2, <2>3, <3>3
    <3>4. CASE j = Len(words) + 2 BY <1>6, <2>2, <2>3, <2>5, <3>4
    <3> QED BY <2>2, <2>3, <3>1, <3>2, <3>3, <3>4
  <2>7. more[1] = words[1] /\ words[1] \notin Separators BY <1>6, <2>2, <2>3 DEF WordsUpTo
  <2>8. WordsUpTo(more, text, i) BY <1>6, <2>2, <2>3, <2>6, <2>7 DEF WordsUpTo
  <2> QED BY <2>2, <2>3, <2>8 DEF more
<1>7. CASE text[i] \notin Separators /\ ~ (words # << >> /\ text[i - 1] \in Separators)
  <2>1. more = Append(words, text[i]) BY <1>7 DEF Extended
  <2>2. /\ more \in Characters /\ Len(more) = Len(words) + 1
        /\ \A j \in 1 .. Len(words) : more[j] = words[j]
        /\ more[Len(words) + 1] = text[i]
    BY <1>1, <2>1 DEF Characters
  <2>3. Len(words) \in Nat BY <1>1 DEF Characters
  <2>4. ASSUME words # << >>
        PROVE  /\ Len(words) >= 1
               /\ words[Len(words)] \notin Separators
               /\ words[Len(words)] = HighHalf => text[i] = LowHalf
    <3>1. Len(words) >= 1 BY <1>1, <2>4 DEF Characters
    <3>2. words[Len(words)] = HighHalf => i - 1 > 0 /\ text[i - 1] = HighHalf
      BY <2>3, <3>1 DEF WordsUpTo
    <3> QED BY <1>8, <2>4, <3>1, <3>2 DEF WordsUpTo
  <2>5. text[i] = LowHalf => words # << >> /\ words[Len(words)] = HighHalf
    <3> SUFFICES ASSUME text[i] = LowHalf PROVE words # << >> /\ words[Len(words)] = HighHalf
      OBVIOUS
    <3>1. i > 1 /\ text[i - 1] = HighHalf BY <1>4 DEF Paired
    <3>2. i - 1 > 0 /\ text[i - 1] \notin Separators BY <1>2, <3>1
    <3> QED BY <3>1, <3>2 DEF WordsUpTo
  <2> HIDE DEF more
  <2>6. ASSUME NEW j \in 1 .. Len(more)
        PROVE  /\ more[j] \in Separators => more[j] = Blank /\ more[j + 1] \notin Separators
               /\ more[j] = HighHalf =>
                    IF j = Len(more) THEN i > 0 /\ text[i] = HighHalf ELSE more[j + 1] = LowHalf
               /\ more[j] = LowHalf => j > 1 /\ more[j - 1] = HighHalf
    <3>1. CASE j < Len(words)
      <4>1. /\ j \in 1 .. Len(words) /\ j # Len(words) /\ j # Len(more)
            /\ j + 1 \in 1 .. Len(words)
            /\ j > 1 => j - 1 \in 1 .. Len(words)
        BY <2>2, <2>3, <3>1
      <4>2. /\ more[j] = words[j] /\ more[j + 1] = words[j + 1]
            /\ j > 1 => more[j - 1] = words[j - 1]
        BY <2>2, <4>1
      <4> QED BY <4>1, <4>2 DEF WordsUpTo
    <3>2. CASE j = Len(words)
      <4>1. j \in 1 .. Len(words) /\ j # Len(more) /\ more[j] = words[j] /\ words # << >>
        BY <2>2, <2>3, <3>2
      <4>2. more[j] = LowHalf => j > 1 /\ words[j - 1] = HighHalf BY <4>1 DEF WordsUpTo
      <4> QED BY <2>2, <2>3, <2>4, <3>2, <4>1, <4>2
    <3>3. CASE j = Len(words) + 1
      <4>1. more[j] = LowHalf => j > 1 /\ more[j - 1] = HighHalf
        BY <2>2, <2>3, <2>4, <2>5, <3>3
      <4> QED BY <1>7, <2>2, <2>3, <3>3, <4>1
    <3> QED BY <2>2, <2>3, <3>1, <3>2, <3>3
  <2>7. more[1] \notin Separators
    <3>1. CASE words = << >> BY <1>7, <2>2, <3>1
    <3>2. CASE words # << >> BY <2>2, <2>3, <2>4, <3>2 DEF WordsUpTo
    <3> QED BY <3>1, <3>2
  <2>8. WordsUpTo(more, text, i) BY <1>7, <2>2, <2>3, <2>6, <2>7 DEF WordsUpTo
  <2> QED BY <2>2, <2>3, <2>8 DEF more
<1> QED BY <1>5, <1>6, <1>7

\* The facts about Words that are used from here on.
LEMMA WordsFacts ==
  ASSUME NEW text \in Characters, Paired(text)
  PROVE  \A i \in 0 .. Len(text) : WordsUpTo(Words(text)[i], text, i)
<1> DEFINE n == Len(text)
           w == Words(text)
           G == { i \in 0 .. n : WordsUpTo(w[i], text, i) }
<1>1. n \in Nat BY DEF Characters
<1>2. w[0] = << >> /\ \A i \in 1 .. n : w[i] = Extended(w[i - 1], text, i) BY WordsAre
<1> HIDE DEF w
<1>3. 0 \in G
  <2>1. WordsUpTo(<< >>, text, 0) BY DEF WordsUpTo, Characters
  <2> QED BY <1>1, <1>2, <2>1
<1>4. ASSUME NEW i \in 0 .. n - 1, i \in G PROVE i + 1 \in G
  <2>1. i + 1 \in 1 .. n /\ (i + 1) - 1 = i BY <1>1
  <2>2. WordsUpTo(w[(i + 1) - 1], text, (i + 1) - 1) BY <1>4, <2>1
  <2>3. WordsUpTo(Extended(w[(i + 1) - 1], text, i + 1), text, i + 1)
    BY <2>1, <2>2, WordsExtended
  <2> QED BY <1>1, <1>2, <2>1, <2>3
<1> HIDE DEF G
<1>5. \A i \in 0 .. n : i \in G BY <1>1, <1>3, <1>4, UpTo
<1> QED BY <1>5 DEF G, w

\* What sanitizeProtocolText's loop may have at hand.
SanitizerStates == [text : Characters, pendingSpace : BOOLEAN, full : BOOLEAN]

\* With what it begins.
EmptyState == Kept(<< >>, FALSE, FALSE)

\* A text, the blank that is due and a character.
Longer(state, character) ==
  state.text \o (IF state.pendingSpace THEN << Blank >> ELSE << >>) \o << character >>

\* sanitizeProtocolText's loop, case by case.
LEMMA TakenCases ==
  ASSUME NEW state \in SanitizerStates, NEW character \in Alphabet
  PROVE  /\ Longer(state, character) \in Characters
         /\ Taken(state, character) =
              IF state.full THEN state
              ELSE IF character \in Separators THEN Kept(state.text, state.text # << >>, FALSE)
              ELSE IF Len(Longer(state, character)) > MaxProtocolTextLength
              THEN Kept(state.text, state.pendingSpace, TRUE)
              ELSE Kept(Longer(state, character), FALSE, FALSE)
         /\ Taken(state, character) \in SanitizerStates
<1>1. /\ state.text \in Characters /\ Blank \in Alphabet
      /\ state.full \in BOOLEAN /\ state.pendingSpace \in BOOLEAN
  BY DEF SanitizerStates, Alphabet
<1>2. Longer(state, character) \in Characters BY <1>1 DEF Longer, Characters
<1>3. Taken(state, character) =
        IF state.full THEN state
        ELSE IF character \in Separators THEN Kept(state.text, state.text # << >>, FALSE)
        ELSE IF Len(Longer(state, character)) > MaxProtocolTextLength
        THEN Kept(state.text, state.pendingSpace, TRUE)
        ELSE Kept(Longer(state, character), FALSE, FALSE)
  BY DEF Taken, Longer
<1>4. (state.text # << >>) \in BOOLEAN OBVIOUS
<1>5. /\ Kept(state.text, state.text # << >>, FALSE) \in SanitizerStates
      /\ Kept(state.text, state.pendingSpace, TRUE) \in SanitizerStates
      /\ Kept(Longer(state, character), FALSE, FALSE) \in SanitizerStates
  BY <1>1, <1>2, <1>4 DEF SanitizerStates, Kept
<1> QED BY <1>2, <1>3, <1>5

\* The states of sanitizeProtocolText's loop, one after each character.
LEMMA LoopIs ==
  ASSUME NEW text \in Characters
  PROVE  \E after \in [0 .. Len(text) -> SanitizerStates] :
           /\ after[0] = EmptyState
           /\ \A i \in 1 .. Len(text) : after[i] = Taken(after[i - 1], text[i])
           /\ Loop(text) = after[Len(text)].text
<1> DEFINE n == Len(text)
           next == [p \in (1 .. n) \X SanitizerStates |-> Taken(p[2], text[p[1]])]
           F(g) == g = [i \in 0 .. n |-> IF i = 0 THEN EmptyState ELSE Taken(g[i - 1], text[i])]
           w == CHOOSE f : F(f)
<1>1. n \in Nat BY DEF Characters
<1>2. EmptyState \in SanitizerStates BY DEF EmptyState, Kept, SanitizerStates, Characters
<1>3. \A i \in 1 .. n, state \in SanitizerStates : Taken(state, text[i]) \in SanitizerStates
  <2>1. \A i \in 1 .. n : text[i] \in Alphabet BY DEF Characters
  <2> QED BY <2>1, TakenCases
<1>4. next \in Steps(n, SanitizerStates) BY <1>3 DEF Steps
<1>5. \A i \in 1 .. n, state \in SanitizerStates : next[<< i, state >>] = Taken(state, text[i])
  OBVIOUS
<1> HIDE DEF n, next
<1>6. PICK g \in [0 .. n -> SanitizerStates] : Follows(g, n, EmptyState, next)
  BY <1>1, <1>2, <1>4, Recursion
<1>7. F(g)
  <2>1. \A i \in 1 .. n : g[i - 1] \in SanitizerStates BY <1>1, <1>6
  <2>2. \A i \in 1 .. n : g[i] = Taken(g[i - 1], text[i]) BY <1>5, <1>6, <2>1 DEF Follows
  <2>3. \A i \in 0 .. n : g[i] = IF i = 0 THEN EmptyState ELSE Taken(g[i - 1], text[i])
    BY <1>1, <1>6, <2>2 DEF Follows
  <2> QED BY <1>6, <2>3
<1>8. F(w)
  <2> HIDE DEF F
  <2> QED BY <1>7
<1>9. Loop(text) = w[n].text BY DEF Loop, n, EmptyState
<1> HIDE DEF w
<1>10. w[0] = EmptyState /\ \A i \in 1 .. n : w[i] = Taken(w[i - 1], text[i]) BY <1>1, <1>8
<1>11. w \in [0 .. n -> SanitizerStates]
  <2> DEFINE G == { i \in 0 .. n : w[i] \in SanitizerStates }
  <2>1. 0 \in G BY <1>1, <1>2, <1>10
  <2>2. \A i \in 0 .. n - 1 : i \in G => i + 1 \in G BY <1>1, <1>3, <1>10
  <2> HIDE DEF G
  <2>3. \A i \in 0 .. n : i \in G BY <1>1, <2>1, <2>2, UpTo
  <2>4. \A i \in 0 .. n : w[i] \in SanitizerStates BY <2>3 DEF G
  <2> QED BY <1>8, <2>4
<1> QED BY <1>9, <1>10, <1>11 DEF n

\* sanitizeProtocolText's loop has the words up to some character, j, and what it
\* has left out did not fit.
LoopInv(text, words, i, state) ==
  /\ \E j \in 0 .. i :
       /\ state.text = words[j] /\ Len(words[j]) <= MaxProtocolTextLength
       /\ \A k \in 0 .. i : k > j => words[k] = words[j] \/ Len(words[k]) > MaxProtocolTextLength
  /\ ~ state.full =>
       /\ state.text = words[i]
       /\ state.pendingSpace <=> words[i] # << >> /\ i > 0 /\ text[i] \in Separators
  /\ state.full => Len(words[i]) > MaxProtocolTextLength

\* Its loop keeps what LoopInv says of it.
LEMMA LoopStep ==
  ASSUME NEW text \in Characters, Paired(text), NEW i \in 0 .. Len(text) - 1,
         NEW state \in SanitizerStates, LoopInv(text, Words(text), i, state)
  PROVE  LoopInv(text, Words(text), i + 1, Taken(state, text[i + 1]))
<1> DEFINE n == Len(text)
           w == Words(text)
           c == text[i + 1]
           after == Taken(state, c)
<1>1. n \in Nat /\ i + 1 \in 1 .. n /\ c \in Alphabet /\ i \in 0 .. n /\ i + 1 \in 0 .. n
  BY DEF Characters
<1>2. w[i + 1] = Extended(w[i], text, i + 1)
  <2>1. (i + 1) - 1 = i OBVIOUS
  <2> QED BY <1>1, <2>1, WordsAre
<1>3. w[i] \in Characters /\ w[i + 1] \in Characters BY <1>1, WordsAre
<1>4. Len(w[i]) <= Len(w[i + 1])
  <2>1. WordsUpTo(w[(i + 1) - 1], text, (i + 1) - 1) BY <1>1, WordsFacts
  <2> QED BY <1>1, <1>2, <2>1, WordsExtended
<1>5. Len(w[i]) \in Nat /\ Len(w[i + 1]) \in Nat BY <1>3 DEF Characters
<1>6. MaxProtocolTextLength \in Nat BY ProtocolAssumption
<1>7. state.full \in BOOLEAN /\ state.pendingSpace \in BOOLEAN BY DEF SanitizerStates
<1> HIDE DEF w, c, n
<1>8. PICK j \in 0 .. i :
        /\ state.text = w[j] /\ Len(w[j]) <= MaxProtocolTextLength
        /\ \A k \in 0 .. i : k > j => w[k] = w[j] \/ Len(w[k]) > MaxProtocolTextLength
  BY DEF LoopInv, w
<1>9. j \in 0 .. i + 1 /\ i + 1 > j OBVIOUS
<1>10. ASSUME after.text = state.text,
              w[i + 1] = w[j] \/ Len(w[i + 1]) > MaxProtocolTextLength
       PROVE  \E m \in 0 .. i + 1 :
                /\ after.text = w[m] /\ Len(w[m]) <= MaxProtocolTextLength
                /\ \A k \in 0 .. i + 1 : k > m => w[k] = w[m] \/ Len(w[k]) > MaxProtocolTextLength
  <2>1. \A k \in 0 .. i + 1 : k > j => w[k] = w[j] \/ Len(w[k]) > MaxProtocolTextLength
    <3> TAKE k \in 0 .. i + 1
    <3>1. CASE k = i + 1 BY <1>10, <3>1
    <3>2. CASE k \in 0 .. i BY <1>8, <3>2
    <3> QED BY <3>1, <3>2
  <2> QED BY <1>8, <1>9, <1>10, <2>1
<1>11. CASE state.full
  <2>1. after = state BY <1>1, <1>11, TakenCases DEF c
  <2>2. Len(w[i]) > MaxProtocolTextLength BY <1>11 DEF LoopInv, w
  <2>3. Len(w[i + 1]) > MaxProtocolTextLength BY <1>4, <1>5, <1>6, <2>2
  <2> QED BY <1>10, <1>11, <2>1, <2>3 DEF LoopInv, w, c
<1>12. CASE ~ state.full
  <2>1. state.text = w[i] BY <1>12 DEF LoopInv, w
  <2>2. state.pendingSpace <=> w[i] # << >> /\ i > 0 /\ text[i] \in Separators
    BY <1>12 DEF LoopInv, w
  <2>3. CASE c \in Separators
    <3>1. after = Kept(state.text, state.text # << >>, FALSE)
      BY <1>1, <1>12, <2>3, TakenCases DEF c
    <3>2. after.text = state.text /\ after.full = FALSE /\ after.pendingSpace = (state.text # << >>)
      BY <3>1 DEF Kept
    <3>3. w[i + 1] = w[i] BY <1>2, <2>3 DEF Extended, c
    <3>4. w[i + 1] = w[j] BY <1>8, <2>1, <3>3
    <3>5. \E m \in 0 .. i + 1 :
            /\ after.text = w[m] /\ Len(w[m]) <= MaxProtocolTextLength
            /\ \A k \in 0 .. i + 1 : k > m => w[k] = w[m] \/ Len(w[k]) > MaxProtocolTextLength
      BY <1>10, <3>2, <3>4
    <3>6. i + 1 > 0 /\ text[i + 1] \in Separators BY <2>3 DEF c
    <3> HIDE DEF after
    <3>7. LoopInv(text, w, i + 1, after) BY <2>1, <3>2, <3>3, <3>5, <3>6 DEF LoopInv
    <3> QED BY <3>7 DEF w, c, after
  <2>4. CASE c \notin Separators
    <3>1. Longer(state, c) = w[i + 1]
      <4>1. (i + 1) - 1 = i OBVIOUS
      <4>2. CASE state.pendingSpace
        <5>1. w[i + 1] = w[i] \o << Blank, c >> BY <1>2, <2>2, <2>4, <4>1, <4>2 DEF Extended, c
        <5>2. Longer(state, c) = (w[i] \o << Blank >>) \o << c >> BY <2>1, <4>2 DEF Longer
        <5>3. Blank \in Alphabet BY DEF Alphabet
        <5> DEFINE front == w[i]
        <5>4. front \in Seq(Alphabet) BY <1>3 DEF Characters
        <5> HIDE DEF front
        <5>5. (front \o << Blank >>) \o << c >> = front \o << Blank, c >> BY <1>1, <5>3, <5>4
        <5> QED BY <5>1, <5>2, <5>5 DEF front
      <4>3. CASE ~ state.pendingSpace
        <5>1. w[i] = << >> \/ i = 0 \/ text[i] \notin Separators BY <2>2, <4>3
        <5>2. i = 0 => w[i] = << >> BY WordsAre DEF w
        <5>3. w[i + 1] = Append(w[i], c) BY <1>2, <2>4, <4>1, <5>1, <5>2 DEF Extended, c
        <5>4. Longer(state, c) = (w[i] \o << >>) \o << c >> BY <2>1, <4>3 DEF Longer
        <5> QED BY <1>1, <1>3, <5>3, <5>4 DEF Characters
      <4> QED BY <1>7, <4>2, <4>3
    <3>2. CASE Len(w[i + 1]) > MaxProtocolTextLength
      <4>1. after = Kept(state.text, state.pendingSpace, TRUE)
        BY <1>1, <1>12, <2>4, <3>1, <3>2, TakenCases DEF c
      <4>2. after.text = state.text /\ after.full = TRUE BY <4>1 DEF Kept
      <4> QED BY <1>10, <3>2, <4>2 DEF LoopInv, w, c
    <3>3. CASE ~ (Len(w[i + 1]) > MaxProtocolTextLength)
      <4>1. after = Kept(w[i + 1], FALSE, FALSE)
        BY <1>1, <1>12, <2>4, <3>1, <3>3, TakenCases DEF c
      <4>2. after.text = w[i + 1] /\ after.full = FALSE /\ after.pendingSpace = FALSE
        BY <4>1 DEF Kept
      <4>3. Len(w[i + 1]) <= MaxProtocolTextLength BY <1>5, <1>6, <3>3
      <4>4. \A k \in 0 .. i + 1 : ~ (k > i + 1) OBVIOUS
      <4>5. i + 1 \in 0 .. i + 1 OBVIOUS
      <4>6. \E m \in 0 .. i + 1 :
              /\ after.text = w[m] /\ Len(w[m]) <= MaxProtocolTextLength
              /\ \A k \in 0 .. i + 1 : k > m => w[k] = w[m] \/ Len(w[k]) > MaxProtocolTextLength
        BY <4>2, <4>3, <4>4, <4>5
      <4> HIDE DEF after
      <4>7. LoopInv(text, w, i + 1, after) BY <2>4, <4>2, <4>6 DEF LoopInv, c
      <4> QED BY <4>7 DEF w, c, after
    <3> QED BY <3>2, <3>3
  <2> QED BY <2>3, <2>4
<1> QED BY <1>11, <1>12

\* When it ends, it has the longest beginning of the words that fits.
LEMMA LoopMeans ==
  ASSUME NEW text \in Characters, Paired(text)
  PROVE  \E j \in 0 .. Len(text) :
           /\ Loop(text) = Words(text)[j] /\ Len(Words(text)[j]) <= MaxProtocolTextLength
           /\ \A k \in 0 .. Len(text) :
                k > j => \/ Words(text)[k] = Words(text)[j]
                         \/ Len(Words(text)[k]) > MaxProtocolTextLength
<1> DEFINE n == Len(text)
           w == Words(text)
<1>1. n \in Nat BY DEF Characters
<1>2. PICK after \in [0 .. n -> SanitizerStates] :
        /\ after[0] = EmptyState
        /\ \A i \in 1 .. n : after[i] = Taken(after[i - 1], text[i])
        /\ Loop(text) = after[n].text
  BY LoopIs
<1> DEFINE G == { i \in 0 .. n : LoopInv(text, w, i, after[i]) }
<1>3. 0 \in G
  <2>1. w[0] = << >> BY WordsAre
  <2>2. EmptyState.text = << >> /\ EmptyState.full = FALSE /\ EmptyState.pendingSpace = FALSE
    BY DEF EmptyState, Kept
  <2>3. Len(<< >>) <= MaxProtocolTextLength BY ProtocolAssumption
  <2>4. 0 \in 0 .. 0 /\ \A k \in 0 .. 0 : ~ (k > 0) OBVIOUS
  <2> HIDE DEF w
  <2>5. LoopInv(text, w, 0, after[0]) BY <1>2, <2>1, <2>2, <2>3, <2>4 DEF LoopInv
  <2> QED BY <1>1, <2>5
<1>4. ASSUME NEW i \in 0 .. n - 1, i \in G PROVE i + 1 \in G
  <2>1. i \in 0 .. n /\ i + 1 \in 1 .. n /\ i + 1 \in 0 .. n /\ (i + 1) - 1 = i BY <1>1
  <2>2. after[i] \in SanitizerStates /\ after[i + 1] = Taken(after[i], text[i + 1])
    BY <1>2, <2>1
  <2>3. LoopInv(text, w, i + 1, Taken(after[i], text[i + 1])) BY <1>4, <2>2, LoopStep
  <2> QED BY <2>1, <2>2, <2>3
<1> HIDE DEF G
<1>5. n \in G
  <2>1. \A i \in 0 .. n : i \in G BY <1>1, <1>3, <1>4, UpTo
  <2> QED BY <1>1, <2>1
<1>6. LoopInv(text, w, n, after[n]) BY <1>5 DEF G
<1> QED BY <1>2, <1>6 DEF LoopInv

\* The beginnings of a text whose words fit and end in no half of a character.
Fitting(text) ==
  { i \in 0 .. Len(text) :
      /\ Len(Words(text)[i]) <= MaxProtocolTextLength
      /\ Words(text)[i] # << >> => Last(Words(text)[i]) # HighHalf }

\* What is meant to arrive is the longest of them.
LEMMA MeantIsFitting ==
  ASSUME NEW text \in Characters
  PROVE  /\ TextMeant(text) = Words(text)[Max(Fitting(text))]
         /\ Max(Fitting(text)) \in Fitting(text)
         /\ \A k \in Fitting(text) : k <= Max(Fitting(text))
<1>1. TextMeant(text) = Words(text)[Max(Fitting(text))] BY DEF TextMeant, Fitting
<1>2. Words(text)[0] = << >> BY WordsAre
<1>3. 0 \in Fitting(text)
  <2>1. Len(text) \in Nat BY DEF Characters
  <2>2. Len(<< >>) <= MaxProtocolTextLength BY ProtocolAssumption
  <2> QED BY <1>2, <2>1, <2>2 DEF Fitting
<1>4. Fitting(text) \subseteq 0 .. Len(text) /\ Len(text) \in Nat BY DEF Fitting, Characters
<1> QED BY <1>1, <1>3, <1>4, GreatestNumber

\* Every text is one that UTF-8 can tell, is cut where no half is left over, and
\* is what was meant.
THEOREM SanitizedAsMeant ==
  ASSUME NEW text \in Characters, Paired(text)
  PROVE  sanitizeProtocolText(text) = TextMeant(text) /\ Plain(TextMeant(text))
<1> DEFINE n == Len(text)
           w == Words(text)
           m == Max(Fitting(text))
<1>1. n \in Nat BY DEF Characters
<1>2. m \in Fitting(text) /\ \A k \in Fitting(text) : k <= m BY MeantIsFitting
<1>3. TextMeant(text) = w[m] BY MeantIsFitting
<1>4. m \in 0 .. n /\ Len(w[m]) <= MaxProtocolTextLength /\ (w[m] # << >> => Last(w[m]) # HighHalf)
  BY <1>2 DEF Fitting
<1>5. \A i \in 0 .. n : WordsUpTo(w[i], text, i) BY WordsFacts
<1>6. \A i \in 0 .. n : w[i] \in Characters BY <1>5 DEF WordsUpTo
<1>7. \A i \in 1 .. n : w[i] = Extended(w[i - 1], text, i) BY WordsAre
<1>8. \A k \in 0 .. n : /\ Len(w[k]) <= MaxProtocolTextLength
                        /\ w[k] # << >> => Last(w[k]) # HighHalf
                        => k \in Fitting(text)
  BY DEF Fitting
<1>9. PICK j \in 0 .. n :
        /\ Loop(text) = w[j] /\ Len(w[j]) <= MaxProtocolTextLength
        /\ \A k \in 0 .. n : k > j => w[k] = w[j] \/ Len(w[k]) > MaxProtocolTextLength
  BY LoopMeans
<1>10. Blank \in Separators /\ HighHalf \notin Separators /\ LowHalf # HighHalf
  BY DEF Separators, Blank, HighHalf, NewLine, LowHalf
<1>11. MaxProtocolTextLength \in Nat BY ProtocolAssumption
<1> HIDE DEF w, m, n
<1>12. \A k \in 0 .. n : w[k] # << >> => Len(w[k]) \in 1 .. Len(w[k]) /\ Last(w[k]) \notin Separators
  <2> SUFFICES ASSUME NEW k \in 0 .. n, w[k] # << >>
               PROVE  Len(w[k]) \in 1 .. Len(w[k]) /\ Last(w[k]) \notin Separators
    OBVIOUS
  <2>1. w[k] \in Characters BY <1>6
  <2>2. Len(w[k]) \in 1 .. Len(w[k]) BY <2>1 DEF Characters
  <2> QED BY <1>5, <2>2 DEF WordsUpTo, Last
<1>13. w[m] # << >> => Last(w[m]) \notin Separators BY <1>4, <1>12
<1>14. m >= j => w[m] = w[j]
  <2>1. Len(w[m]) \in Nat BY <1>4, <1>6 DEF Characters
  <2>2. ~ (Len(w[m]) > MaxProtocolTextLength) BY <1>4, <1>11, <2>1
  <2> QED BY <1>4, <1>9, <2>2
<1>15. ASSUME w[j] = << >> \/ Last(w[j]) # HighHalf PROVE sanitizeProtocolText(text) = w[m]
  <2>1. j \in Fitting(text) BY <1>8, <1>9, <1>15
  <2>2. w[m] = w[j] BY <1>2, <1>4, <1>9, <1>14, <2>1
  <2>3. ChopLast(w[j], HighHalf) = w[j] BY <1>15 DEF ChopLast
  <2>4. ChopLast(w[j], Blank) = w[j] BY <1>10, <1>12 DEF ChopLast
  <2> QED BY <1>9, <2>2, <2>3, <2>4 DEF sanitizeProtocolText
<1>16. ASSUME w[j] # << >>, Last(w[j]) = HighHalf PROVE sanitizeProtocolText(text) = w[m]
  <2>1. j > 0 /\ text[j] = HighHalf BY <1>5, <1>12, <1>16 DEF WordsUpTo, Last
  <2>2. j \in 1 .. n /\ j - 1 \in 0 .. n BY <1>1, <2>1
  <2> DEFINE before == w[j - 1]
  <2>3. before \in Characters BY <1>6, <2>2
  <2>4. w[j] = Extended(before, text, j) BY <1>7, <2>2
  <2>5. w[j] = before \o << Blank, HighHalf >> \/ w[j] = Append(before, HighHalf)
    BY <1>10, <2>1, <2>4 DEF Extended
  <2>6. before # << >> => Last(before) # HighHalf
    <3> SUFFICES ASSUME before # << >>, Last(before) = HighHalf PROVE FALSE OBVIOUS
    <3>1. j - 1 > 0 /\ text[j - 1] = HighHalf BY <1>5, <1>12, <2>2 DEF WordsUpTo, Last
    <3>2. j - 1 \in DOMAIN text BY <2>2, <3>1 DEF Characters, n
    <3>3. text[(j - 1) + 1] = LowHalf BY <3>1, <3>2 DEF Paired
    <3>4. (j - 1) + 1 = j OBVIOUS
    <3> QED BY <1>10, <2>1, <3>3, <3>4
  <2>7. before # << >> => Last(before) # Blank BY <1>10, <1>12, <2>2
  <2> HIDE DEF before
  <2>8. Blank \in Alphabet /\ HighHalf \in Alphabet BY DEF Alphabet
  <2>9. /\ Len(before) <= Len(w[j])
        /\ ChopLast(w[j], HighHalf) \in {before, Append(before, Blank)}
    <3>1. CASE w[j] = before \o << Blank, HighHalf >>
      <4>1. w[j] = Append(Append(before, Blank), HighHalf)
        BY <2>3, <2>8, <3>1 DEF Characters
      <4>2. Front(w[j]) = Append(before, Blank) /\ Len(before) <= Len(w[j])
        <5> DEFINE q == Append(before, Blank)
        <5>1. q \in Seq(Alphabet) /\ Len(q) = Len(before) + 1 /\ Len(before) \in Nat
          BY <2>3, <2>8 DEF Characters
        <5> HIDE DEF q
        <5>2. SubSeq(Append(q, HighHalf), 1, Len(Append(q, HighHalf)) - 1) = q BY <2>8, <5>1
        <5>3. Len(Append(q, HighHalf)) = Len(q) + 1 BY <2>8, <5>1
        <5> QED BY <4>1, <5>1, <5>2, <5>3 DEF q, Front
      <4> QED BY <1>16, <4>2 DEF ChopLast
    <3>2. CASE w[j] = Append(before, HighHalf)
      <4>1. Front(w[j]) = before /\ Len(before) <= Len(w[j])
        BY <2>3, <2>8, <3>2 DEF Front, Characters
      <4> QED BY <1>16, <4>1 DEF ChopLast
    <3> QED BY <2>5, <3>1, <3>2
  <2>10. ChopLast(before, Blank) = before BY <2>7 DEF ChopLast
  <2>11. ChopLast(Append(before, Blank), Blank) = before
    <3>1. Append(before, Blank) # << >> /\ Last(Append(before, Blank)) = Blank
          /\ Front(Append(before, Blank)) = before
      BY <2>3, <2>8 DEF Characters, Front, Last
    <3> QED BY <3>1 DEF ChopLast
  <2>12. sanitizeProtocolText(text) = before
    BY <1>9, <2>9, <2>10, <2>11 DEF sanitizeProtocolText
  <2>13. j - 1 \in Fitting(text)
    <3>1. Len(before) \in Nat /\ Len(w[j]) \in Nat BY <1>6, <2>3 DEF Characters
    <3>2. Len(before) <= MaxProtocolTextLength BY <1>9, <1>11, <2>9, <3>1
    <3> QED BY <1>8, <2>2, <2>6, <3>2 DEF before
  <2>14. ~ (m >= j) BY <1>4, <1>14, <1>16
  <2>15. m = j - 1 BY <1>2, <1>4, <2>13, <2>14
  <2> QED BY <2>12, <2>15 DEF before
<1>17. Plain(w[m])
  <2>1. w[m] \in Characters /\ WordsUpTo(w[m], text, m) BY <1>4, <1>5, <1>6
  <2>2. Paired(w[m])
    <3> SUFFICES ASSUME NEW i \in 1 .. Len(w[m])
                 PROVE  /\ w[m][i] = HighHalf => i < Len(w[m]) /\ w[m][i + 1] = LowHalf
                        /\ w[m][i] = LowHalf => i > 1 /\ w[m][i - 1] = HighHalf
      BY <2>1 DEF Paired, Characters
    <3>1. w[m] # << >> /\ Len(w[m]) \in Nat BY <2>1 DEF Characters
    <3>2. w[m][Len(w[m])] # HighHalf BY <1>4, <3>1 DEF Last
    <3> QED BY <2>1, <3>1, <3>2 DEF WordsUpTo
  <2> QED BY <1>4, <2>1, <2>2 DEF Plain, WordsUpTo
<1> QED BY <1>3, <1>15, <1>16, <1>17

----------------------------------------------------------------------------
\* Pieces of a text and lines one after the other.

\* A text that has been sanitized is not changed by doing it again.
THEOREM MeantOnce ==
  ASSUME NEW text, Plain(text)
  PROVE  sanitizeProtocolText(text) = text /\ TextMeant(text) = text
<1> DEFINE n == Len(text)
           w == Words(text)
           part(i) == SubSeq(text, 1, i)
           wanted(i) == IF i > 0 /\ text[i] = Blank THEN part(i - 1) ELSE part(i)
           G == { i \in 0 .. n : w[i] = wanted(i) }
<1>1. text \in Characters /\ Paired(text) /\ n \in Nat /\ n <= MaxProtocolTextLength
  BY DEF Plain, Characters
<1>2. Blank \in Separators BY DEF Separators
<1>3. \A i \in 1 .. n : w[i] = Extended(w[i - 1], text, i) BY <1>1, WordsAre
<1>4. w[0] = << >> BY <1>1, WordsAre
<1>5. \A i \in 1 .. n : text[i] \in Alphabet BY <1>1 DEF Characters
<1>6. \A i \in 0 .. n : part(i) \in Characters /\ Len(part(i)) = i
  BY <1>1 DEF Characters
<1>7. \A i \in 1 .. n : part(i) = Append(part(i - 1), text[i])
  <2> TAKE i \in 1 .. n
  <2>1. i - 1 \in 0 .. n BY <1>1
  <2> QED BY <1>1, <1>5, <2>1 DEF Characters
<1>8. part(0) = << >> BY <1>1 DEF Characters
<1> HIDE DEF w, n, part
<1>9. 0 \in G BY <1>1, <1>4, <1>8
<1>10. ASSUME NEW i \in 0 .. n - 1, i \in G PROVE i + 1 \in G
  <2>1. i + 1 \in 1 .. n /\ (i + 1) - 1 = i /\ i \in 0 .. n /\ i + 1 \in 0 .. n BY <1>1
  <2>2. w[i] = wanted(i) BY <1>10
  <2>3. w[i + 1] = Extended(w[i], text, i + 1) BY <1>3, <2>1
  <2>4. CASE text[i + 1] = Blank
    <3>1. i > 0 => text[i] # Blank
      <4> SUFFICES ASSUME i > 0, text[i] = Blank PROVE FALSE OBVIOUS
      <4>1. i \in 1 .. Len(text) BY <2>1 DEF n
      <4>2. text[i + 1] \notin Separators BY <1>2, <4>1 DEF Plain
      <4> QED BY <1>2, <2>4, <4>2
    <3>2. w[i] = part(i) BY <2>2, <3>1
    <3>3. w[i + 1] = w[i] BY <1>2, <2>3, <2>4 DEF Extended
    <3> QED BY <2>1, <2>4, <3>2, <3>3
  <2>5. CASE text[i + 1] # Blank
    <3>1. text[i + 1] \notin Separators
      <4>1. i + 1 \in 1 .. Len(text) BY <2>1 DEF n
      <4> QED BY <2>5, <4>1 DEF Plain
    <3>2. CASE i > 0 /\ text[i] = Blank
      <4>1. w[i] = part(i - 1) /\ i \in 1 .. n /\ i - 1 \in 0 .. n BY <1>1, <2>1, <2>2, <3>2
      <4>2. i # 1
        <5>1. text # << >> BY <4>1, <1>1 DEF n, Characters
        <5> QED BY <1>2, <3>2, <5>1 DEF Plain
      <4>3. w[i] # << >>
        <5>1. Len(part(i - 1)) = i - 1 /\ i - 1 # 0 BY <1>6, <4>1, <4>2
        <5> QED BY <4>1, <5>1
      <4>4. w[i + 1] = part(i - 1) \o << Blank, text[i + 1] >>
        BY <1>2, <2>1, <2>3, <3>1, <3>2, <4>1, <4>3 DEF Extended
      <4>5. part(i) = Append(part(i - 1), Blank) BY <1>7, <3>2, <4>1
      <4>6. part(i + 1) = Append(part(i), text[i + 1]) BY <1>7, <2>1
      <4> DEFINE q == part(i - 1)
      <4>7. q \in Seq(Alphabet) BY <1>6, <4>1 DEF Characters
      <4>8. text[i + 1] \in Alphabet /\ Blank \in Alphabet BY <1>5, <2>1 DEF Alphabet
      <4> HIDE DEF q
      <4>9. Append(Append(q, Blank), text[i + 1]) = q \o << Blank, text[i + 1] >> BY <4>7, <4>8
      <4> QED BY <2>1, <2>5, <4>4, <4>5, <4>6, <4>9 DEF q
    <3>3. CASE ~ (i > 0 /\ text[i] = Blank)
      <4>1. w[i] = part(i) BY <2>2, <3>3
      <4>2. i > 0 => text[i] \notin Separators
        <5> SUFFICES ASSUME i > 0, text[i] \in Separators PROVE FALSE OBVIOUS
        <5>1. i \in 1 .. Len(text) BY <2>1 DEF n
        <5> QED BY <3>3, <5>1 DEF Plain
      <4>3. i = 0 => w[i] = << >> BY <1>4
      <4>4. w[i + 1] = Append(w[i], text[i + 1])
        BY <2>1, <2>3, <3>1, <4>2, <4>3 DEF Extended
      <4> QED BY <1>7, <2>1, <2>5, <4>1, <4>4
    <3> QED BY <3>2, <3>3
  <2> QED BY <2>4, <2>5
<1> HIDE DEF G
<1>11. \A i \in 0 .. n : i \in G BY <1>1, <1>9, <1>10, UpTo
<1>12. n \in 0 .. n BY <1>1
<1>13. w[n] = wanted(n) BY <1>11, <1>12 DEF G
<1>14. n > 0 => text # << >> /\ n \in 1 .. Len(text) BY <1>1 DEF n, Characters
<1>15. w[n] = text
  <2>1. ~ (n > 0 /\ text[n] = Blank) BY <1>2, <1>14 DEF Plain, n
  <2>2. part(n) = text BY <1>1 DEF part, n, Characters
  <2> QED BY <1>13, <2>1, <2>2
<1>16. n \in Fitting(text)
  <2>1. text # << >> => Last(text) # HighHalf
    <3> SUFFICES ASSUME text # << >>, Last(text) = HighHalf PROVE FALSE OBVIOUS
    <3>1. n \in DOMAIN text /\ text[n] = HighHalf /\ n \in Nat BY <1>1 DEF Last, n, Characters
    <3>2. n < Len(text) BY <1>1, <3>1 DEF Paired
    <3> QED BY <3>1, <3>2 DEF n
  <2> QED BY <1>1, <1>12, <1>15, <2>1 DEF Fitting, w, n
<1>17. Max(Fitting(text)) = n
  <2>1. Max(Fitting(text)) \in 0 .. n /\ n <= Max(Fitting(text))
    BY <1>1, <1>16, MeantIsFitting DEF Fitting, n
  <2> QED BY <1>1, <2>1
<1>18. TextMeant(text) = text BY <1>1, <1>15, <1>17, MeantIsFitting DEF w
<1> QED BY <1>1, <1>18, SanitizedAsMeant

\* Lines one after the other, as writeLine is called for them.
LEMMA FlattenIs ==
  ASSUME NEW seqs \in Seq(Characters), Len(seqs) > 0
  PROVE  \E g \in [0 .. Len(seqs) -> Characters] :
           /\ g[0] = << >>
           /\ \A i \in 1 .. Len(seqs) : g[i] = g[i - 1] \o seqs[i]
           /\ FlattenSeq(seqs) = g[Len(seqs)]
<1> DEFINE n == Len(seqs)
           next == [p \in (1 .. n) \X Characters |-> p[2] \o seqs[p[1]]]
           F(f) == f = [i \in 1 .. n |-> IF i = 1 THEN seqs[i] ELSE f[i - 1] \o seqs[i]]
           w == CHOOSE f : F(f)
<1>1. n \in Nat /\ n > 0 /\ << >> \in Characters BY DEF Characters
<1>2. \A i \in 1 .. n, text \in Characters : text \o seqs[i] \in Characters
  <2> TAKE i \in 1 .. n, text \in Characters
  <2>1. seqs[i] \in Characters OBVIOUS
  <2> QED BY <2>1 DEF Characters
<1>3. next \in Steps(n, Characters) BY <1>2 DEF Steps
<1>4. \A i \in 1 .. n, text \in Characters : next[<< i, text >>] = text \o seqs[i] OBVIOUS
<1>5. \A i \in 1 .. n : << >> \o seqs[i] = seqs[i]
  <2> TAKE i \in 1 .. n
  <2>1. seqs[i] \in Characters OBVIOUS
  <2> QED BY <2>1 DEF Characters
<1> HIDE DEF n, next
<1>6. PICK g \in [0 .. n -> Characters] : Follows(g, n, << >>, next)
  BY <1>1, <1>3, Recursion
<1>7. /\ g[0] = << >>
      /\ \A i \in 1 .. n : g[i] = g[i - 1] \o seqs[i]
  <2>1. \A i \in 1 .. n : g[i - 1] \in Characters BY <1>1, <1>6
  <2> QED BY <1>4, <1>6, <2>1 DEF Follows
<1> DEFINE f == [i \in 1 .. n |-> g[i]]
<1>8. F(f)
  <2>1. \A i \in 1 .. n : f[i] = IF i = 1 THEN seqs[i] ELSE f[i - 1] \o seqs[i]
    <3> TAKE i \in 1 .. n
    <3>1. CASE i = 1
      <4>1. f[i] = g[i] /\ i - 1 = 0 BY <3>1
      <4>2. g[i] = << >> \o seqs[i] BY <1>7, <4>1
      <4> QED BY <1>5, <3>1, <4>1, <4>2
    <3>2. CASE i # 1
      <4>1. i - 1 \in 1 .. n BY <1>1, <3>2
      <4>2. f[i] = g[i - 1] \o seqs[i] /\ f[i - 1] = g[i - 1] BY <1>7, <4>1
      <4> QED BY <3>2, <4>2
    <3> QED BY <3>1, <3>2
  <2> QED BY <2>1
<1> HIDE DEF f
<1>9. F(w)
  <2> HIDE DEF F
  <2> QED BY <1>8
<1>10. FlattenSeq(seqs) = w[n] BY <1>1 DEF FlattenSeq, n
<1> HIDE DEF w
<1>11. \A i \in 1 .. n : w[i] = IF i = 1 THEN seqs[i] ELSE w[i - 1] \o seqs[i] BY <1>9
<1> DEFINE G == { i \in 0 .. n : i > 0 => w[i] = g[i] }
<1>12. 0 \in G BY <1>1
<1>13. ASSUME NEW i \in 0 .. n - 1, i \in G PROVE i + 1 \in G
  <2>1. i + 1 \in 1 .. n /\ (i + 1) - 1 = i /\ i + 1 \in 0 .. n BY <1>1
  <2>2. g[i + 1] = g[i] \o seqs[i + 1] BY <1>7, <2>1
  <2>3. CASE i = 0
    <3>1. 1 \in 1 .. n /\ i + 1 = 1 BY <2>1, <2>3
    <3>2. w[1] = seqs[1] BY <1>11, <3>1
    <3>3. g[1] = seqs[1] BY <1>5, <1>7, <2>2, <2>3, <3>1
    <3> QED BY <2>1, <3>1, <3>2, <3>3
  <2>4. CASE i # 0
    <3>1. w[i] = g[i] BY <1>13, <2>4
    <3>2. w[i + 1] = w[(i + 1) - 1] \o seqs[i + 1]
      <4>1. i + 1 # 1 BY <2>4
      <4> QED BY <1>11, <2>1, <4>1
    <3> QED BY <2>1, <2>2, <3>1, <3>2
  <2> QED BY <2>3, <2>4
<1> HIDE DEF G
<1>14. \A i \in 0 .. n : i \in G BY <1>1, <1>12, <1>13, UpTo
<1>15. w[n] = g[n] BY <1>1, <1>14 DEF G
<1> QED BY <1>7, <1>10, <1>15 DEF n

\* No line is no character.
LEMMA FlattenEmpty == FlattenSeq(<< >>) = << >>
  BY DEF FlattenSeq

\* Lines make a stream of characters.
LEMMA FlattenTyped ==
  ASSUME NEW seqs \in Seq(Characters)
  PROVE  FlattenSeq(seqs) \in Characters
<1>1. CASE Len(seqs) > 0
  <2>1. Len(seqs) \in 0 .. Len(seqs) OBVIOUS
  <2> QED BY <1>1, <2>1, FlattenIs
<1>2. CASE seqs = << >> 
  <2>1. << >> \in Characters BY DEF Characters
  <2> QED BY <1>2, <2>1, FlattenEmpty
<1> QED BY <1>1, <1>2

\* One line more comes after all others.
LEMMA FlattenAppend ==
  ASSUME NEW seqs \in Seq(Characters), NEW last \in Characters
  PROVE  FlattenSeq(Append(seqs, last)) = FlattenSeq(seqs) \o last
<1> DEFINE all == Append(seqs, last)
           n == Len(seqs)
<1>1. /\ all \in Seq(Characters) /\ n \in Nat /\ Len(all) = n + 1
      /\ \A i \in 1 .. n : all[i] = seqs[i]
      /\ all[n + 1] = last
  OBVIOUS
<1> HIDE DEF all
<1>2. PICK h \in [0 .. n + 1 -> Characters] :
        /\ h[0] = << >>
        /\ \A i \in 1 .. n + 1 : h[i] = h[i - 1] \o all[i]
        /\ FlattenSeq(all) = h[n + 1]
  <2>1. Len(all) > 0 BY <1>1
  <2> QED BY <1>1, <2>1, FlattenIs
<1>3. FlattenSeq(all) = h[n] \o last
  <2>1. n + 1 \in 1 .. n + 1 /\ (n + 1) - 1 = n BY <1>1
  <2> QED BY <1>1, <1>2, <2>1
<1>4. CASE n = 0
  <2>1. seqs = << >> BY <1>4
  <2> QED BY <1>2, <1>3, <1>4, <2>1, FlattenEmpty DEF all
<1>5. CASE n > 0
  <2>1. PICK g \in [0 .. n -> Characters] :
          /\ g[0] = << >>
          /\ \A i \in 1 .. n : g[i] = g[i - 1] \o seqs[i]
          /\ FlattenSeq(seqs) = g[n]
    BY <1>5, FlattenIs
  <2> DEFINE G == { i \in 0 .. n : h[i] = g[i] }
  <2> HIDE DEF n
  <2>2. 0 \in G BY <1>1, <1>2, <2>1
  <2>3. ASSUME NEW i \in 0 .. n - 1, i \in G PROVE i + 1 \in G
    <3>1. i + 1 \in 1 .. n /\ i + 1 \in 1 .. n + 1 /\ (i + 1) - 1 = i /\ i + 1 \in 0 .. n
      BY <1>1
    <3>2. h[i] = g[i] BY <2>3
    <3>3. h[i + 1] = h[i] \o all[i + 1] BY <1>2, <3>1
    <3>4. g[i + 1] = g[i] \o seqs[i + 1] BY <2>1, <3>1
    <3> QED BY <1>1, <3>1, <3>2, <3>3, <3>4
  <2> HIDE DEF G
  <2>4. \A i \in 0 .. n : i \in G BY <1>1, <2>2, <2>3, UpTo
  <2>5. h[n] = g[n] BY <1>1, <2>4 DEF G
  <2> QED BY <1>3, <2>1, <2>5 DEF all
<1> QED BY <1>1, <1>4, <1>5

\* What is written later comes later in the stream.
LEMMA FlattenConcat ==
  ASSUME NEW first \in Seq(Characters), NEW second \in Seq(Characters)
  PROVE  FlattenSeq(first \o second) = FlattenSeq(first) \o FlattenSeq(second)
<1> DEFINE n == Len(second)
           part(i) == SubSeq(second, 1, i)
           G == { i \in 0 .. n : FlattenSeq(first \o part(i)) = FlattenSeq(first) \o FlattenSeq(part(i)) }
<1>1. n \in Nat OBVIOUS
<1>2. \A i \in 0 .. n : part(i) \in Seq(Characters) OBVIOUS
<1>3. 0 \in G
  <2>1. part(0) = << >> /\ first \o << >> = first OBVIOUS
  <2>2. FlattenSeq(first) \in Characters BY FlattenTyped
  <2>3. FlattenSeq(first) \o << >> = FlattenSeq(first) BY <2>2 DEF Characters
  <2>4. FlattenSeq(first \o part(0)) = FlattenSeq(first) \o FlattenSeq(part(0))
    BY <2>1, <2>3, FlattenEmpty
  <2> HIDE DEF part
  <2> QED BY <1>1, <2>4
<1>4. ASSUME NEW i \in 0 .. n - 1, i \in G PROVE i + 1 \in G
  <2>1. i + 1 \in 1 .. n /\ i \in 0 .. n /\ i + 1 \in 0 .. n BY <1>1
  <2> DEFINE x == second[i + 1]
             p == part(i)
  <2>2. x \in Characters /\ p \in Seq(Characters) BY <1>2, <2>1
  <2>3. part(i + 1) = Append(p, x) BY <2>1
  <2>4. FlattenSeq(first \o p) = FlattenSeq(first) \o FlattenSeq(p) BY <1>4
  <2> HIDE DEF x, p, part, n
  <2>5. first \o Append(p, x) = Append(first \o p, x) /\ first \o p \in Seq(Characters) BY <2>2
  <2>6. FlattenSeq(Append(first \o p, x)) = (FlattenSeq(first) \o FlattenSeq(p)) \o x
    BY <2>2, <2>4, <2>5, FlattenAppend
  <2>7. FlattenSeq(Append(p, x)) = FlattenSeq(p) \o x BY <2>2, FlattenAppend
  <2> DEFINE a == FlattenSeq(first)
             b == FlattenSeq(p)
  <2>8. a \in Characters /\ b \in Characters BY <2>2, FlattenTyped
  <2> HIDE DEF a, b
  <2>9. (a \o b) \o x = a \o (b \o x) 
    <3>1. a \in Seq(Alphabet) /\ b \in Seq(Alphabet) /\ x \in Seq(Alphabet)
      BY <2>2, <2>8 DEF Characters
    <3> QED BY <3>1, ConcatAssociative
  <2> QED BY <2>1, <2>3, <2>5, <2>6, <2>7, <2>9 DEF a, b
<1>5. n \in G
  <2> HIDE DEF G, n
  <2>1. \A i \in 0 .. n : i \in G BY <1>1, <1>3, <1>4, UpTo
  <2> QED BY <1>1, <2>1
<1>6. part(n) = second OBVIOUS
<1> QED BY <1>5, <1>6

\* The lines that takeCompleteLines has found, and what comes after them.
CutStates == [lines : Seq(Characters), rest : Characters]

\* Before its first character.
Uncut == [lines |-> << >>, rest |-> << >>]

\* A character ends a line or is part of one.
LEMMA CutAtTyped ==
  ASSUME NEW state \in CutStates, NEW character \in Alphabet
  PROVE  CutAt(character, state) \in CutStates
<1>1. state.lines \in Seq(Characters) /\ state.rest \in Characters BY DEF CutStates
<1>2. Append(state.lines, state.rest) \in Seq(Characters) BY <1>1
<1>3. Append(state.rest, character) \in Characters /\ << >> \in Characters BY <1>1 DEF Characters
<1> QED BY <1>1, <1>2, <1>3 DEF CutAt, CutStates

\* takeCompleteLines goes from character to character.
LEMMA CutIs ==
  ASSUME NEW text \in Characters
  PROVE  /\ Cut(text) \in [0 .. Len(text) -> CutStates]
         /\ Cut(text)[0] = Uncut
         /\ \A i \in 1 .. Len(text) : Cut(text)[i] = CutAt(text[i], Cut(text)[i - 1])
<1> DEFINE n == Len(text)
           next == [p \in (1 .. n) \X CutStates |-> CutAt(text[p[1]], p[2])]
           F(g) == g = [i \in 0 .. n |-> IF i = 0 THEN Uncut ELSE CutAt(text[i], g[i - 1])]
           w == Cut(text)
<1>1. n \in Nat BY DEF Characters
<1>2. Uncut \in CutStates BY DEF Uncut, CutStates, Characters
<1>3. \A i \in 1 .. n, state \in CutStates : CutAt(text[i], state) \in CutStates
  <2>1. \A i \in 1 .. n : text[i] \in Alphabet BY DEF Characters
  <2> QED BY <2>1, CutAtTyped
<1>4. next \in Steps(n, CutStates) BY <1>3 DEF Steps
<1>5. \A i \in 1 .. n, state \in CutStates : next[<< i, state >>] = CutAt(text[i], state)
  OBVIOUS
<1> HIDE DEF n, next, w
<1>6. PICK g \in [0 .. n -> CutStates] : Follows(g, n, Uncut, next)
  BY <1>1, <1>2, <1>4, Recursion
<1>7. F(g)
  <2>1. \A i \in 1 .. n : g[i - 1] \in CutStates BY <1>1, <1>6
  <2>2. \A i \in 1 .. n : g[i] = CutAt(text[i], g[i - 1]) BY <1>5, <1>6, <2>1 DEF Follows
  <2>3. \A i \in 0 .. n : g[i] = IF i = 0 THEN Uncut ELSE CutAt(text[i], g[i - 1])
    BY <1>1, <1>6, <2>2 DEF Follows
  <2> QED BY <1>6, <2>3
<1>8. w = CHOOSE f : F(f) BY DEF Cut, n, w, Uncut
<1>9. F(w)
  <2> HIDE DEF F
  <2> QED BY <1>7, <1>8
<1>10. w[0] = Uncut /\ \A i \in 1 .. n : w[i] = CutAt(text[i], w[i - 1]) BY <1>1, <1>9
<1>11. w \in [0 .. n -> CutStates]
  <2> DEFINE G == { i \in 0 .. n : w[i] \in CutStates }
  <2>1. 0 \in G BY <1>1, <1>2, <1>10
  <2>2. \A i \in 0 .. n - 1 : i \in G => i + 1 \in G BY <1>1, <1>3, <1>10
  <2> HIDE DEF G
  <2>3. \A i \in 0 .. n : i \in G BY <1>1, <2>1, <2>2, UpTo
  <2>4. \A i \in 0 .. n : w[i] \in CutStates BY <2>3 DEF G
  <2> QED BY <1>9, <2>4
<1> QED BY <1>10, <1>11 DEF n, w

\* One part of a text: what lies between two line breaks.
PartOf(text, i, rest) ==
  \E b \in 0 .. i : rest = SubSeq(text, b + 1, i) /\ (b > 0 => text[b] = NewLine)

\* A line break is no half of a character, so that a part of a text has both
\* halves or none.
LEMMA PartsPaired ==
  ASSUME NEW text \in Characters, Paired(text), NEW i \in 0 .. Len(text) - 1,
         text[i + 1] = NewLine, NEW rest, PartOf(text, i, rest)
  PROVE  rest \in Characters /\ Paired(rest)
<1>1. PICK b \in 0 .. i : rest = SubSeq(text, b + 1, i) /\ (b > 0 => text[b] = NewLine)
  BY DEF PartOf
<1>2. Len(text) \in Nat BY DEF Characters
<1>3. /\ rest \in Characters /\ Len(rest) = i - b
      /\ \A j \in 1 .. i - b : rest[j] = text[b + j]
  BY <1>1, <1>2 DEF Characters
<1>4. NewLine # HighHalf /\ NewLine # LowHalf /\ HighHalf # LowHalf
  BY DEF NewLine, HighHalf, LowHalf
<1>5. ASSUME NEW j \in 1 .. i - b
      PROVE  /\ rest[j] = HighHalf => j < Len(rest) /\ rest[j + 1] = LowHalf
             /\ rest[j] = LowHalf => j > 1 /\ rest[j - 1] = HighHalf
  <2>1. b + j \in 1 .. Len(text) /\ rest[j] = text[b + j] BY <1>2, <1>3
  <2>2. b + j \in DOMAIN text BY <2>1 DEF Characters
  <2>3. ASSUME rest[j] = HighHalf PROVE j < Len(rest) /\ rest[j + 1] = LowHalf
    <3>1. text[b + j + 1] = LowHalf BY <2>1, <2>2, <2>3 DEF Paired
    <3>2. j # i - b
      <4> SUFFICES ASSUME j = i - b PROVE FALSE OBVIOUS
      <4>1. b + j + 1 = i + 1 OBVIOUS
      <4> QED BY <1>4, <3>1, <4>1
    <3>3. j + 1 \in 1 .. i - b /\ b + (j + 1) = b + j + 1 BY <3>2
    <3>4. rest[j + 1] = text[b + (j + 1)] BY <1>3, <3>3
    <3> QED BY <1>3, <3>1, <3>3, <3>4
  <2>4. ASSUME rest[j] = LowHalf PROVE j > 1 /\ rest[j - 1] = HighHalf
    <3>1. b + j > 1 /\ text[b + j - 1] = HighHalf
      <4> DEFINE m == b + j
      <4>1. m \in DOMAIN text /\ text[m] = LowHalf BY <2>1, <2>2, <2>4
      <4> HIDE DEF m
      <4>2. m > 1 /\ text[m - 1] = HighHalf BY <4>1 DEF Paired
      <4> QED BY <4>2 DEF m
    <3>2. j # 1
      <4> SUFFICES ASSUME j = 1 PROVE FALSE OBVIOUS
      <4>1. b > 0 /\ b + j - 1 = b BY <3>1
      <4> QED BY <1>1, <1>4, <3>1, <4>1
    <3>3. j - 1 \in 1 .. i - b /\ b + (j - 1) = b + j - 1 BY <3>2
    <3>4. rest[j - 1] = text[b + (j - 1)] BY <1>3, <3>3
    <3> QED BY <3>1, <3>3, <3>4
  <2> QED BY <2>3, <2>4
<1>6. DOMAIN rest = 1 .. i - b BY <1>3 DEF Characters
<1> QED BY <1>3, <1>5, <1>6 DEF Paired

\* So that the lines of a text can be told in UTF-8 if the text can.
LEMMA LinesPaired ==
  ASSUME NEW text \in Characters, Paired(text)
  PROVE  LinesOf(text) \in Seq({ line \in Characters : Paired(line) })
<1> DEFINE n == Len(text)
           w == Cut(text)
           P == { line \in Characters : Paired(line) }
           G == { i \in 0 .. n : w[i].lines \in Seq(P) /\ PartOf(text, i, w[i].rest) }
<1>1. n \in Nat BY DEF Characters
<1>2. w[0] = Uncut /\ \A i \in 1 .. n : w[i] = CutAt(text[i], w[i - 1]) BY CutIs
<1>3. \A i \in 1 .. n : text[i] \in Alphabet BY DEF Characters
<1> HIDE DEF w, P
<1>4. 0 \in G
  <2>1. w[0].lines \in Seq(P) /\ w[0].rest = << >> BY <1>2 DEF Uncut
  <2>2. SubSeq(text, 1, 0) = << >> BY DEF Characters
  <2>3. PartOf(text, 0, << >>) BY <2>2 DEF PartOf
  <2> QED BY <1>1, <2>1, <2>3
<1>5. ASSUME NEW i \in 0 .. n - 1, i \in G PROVE i + 1 \in G
  <2>1. i + 1 \in 1 .. n /\ i + 1 \in 0 .. n /\ (i + 1) - 1 = i BY <1>1
  <2>2. w[i + 1] = CutAt(text[i + 1], w[i]) BY <1>2, <2>1
  <2>3. w[i].lines \in Seq(P) /\ PartOf(text, i, w[i].rest) BY <1>5
  <2>4. CASE text[i + 1] = NewLine
    <3>1. w[i].rest \in P BY <2>3, <2>4, PartsPaired DEF P
    <3>2. w[i + 1].lines = Append(w[i].lines, w[i].rest) /\ w[i + 1].rest = << >>
      BY <2>2, <2>4 DEF CutAt
    <3>3. SubSeq(text, (i + 1) + 1, i + 1) = << >> BY <1>1, <2>1 DEF Characters
    <3>4. PartOf(text, i + 1, << >>) BY <2>1, <2>4, <3>3 DEF PartOf
    <3>5. w[i + 1].lines \in Seq(P) BY <2>3, <3>1, <3>2
    <3> QED BY <2>1, <3>2, <3>4, <3>5
  <2>5. CASE text[i + 1] # NewLine
    <3>1. w[i + 1].lines = w[i].lines /\ w[i + 1].rest = Append(w[i].rest, text[i + 1])
      BY <2>2, <2>5 DEF CutAt
    <3>2. PICK b \in 0 .. i : w[i].rest = SubSeq(text, b + 1, i) /\ (b > 0 => text[b] = NewLine)
      BY <2>3 DEF PartOf
    <3>3. Append(SubSeq(text, b + 1, i), text[i + 1]) = SubSeq(text, b + 1, i + 1)
      BY <1>1, <1>3, <2>1 DEF Characters
    <3>4. b \in 0 .. i + 1 OBVIOUS
    <3>5. PartOf(text, i + 1, w[i + 1].rest) BY <3>1, <3>2, <3>3, <3>4 DEF PartOf
    <3> QED BY <2>1, <2>3, <3>1, <3>5
  <2> QED BY <2>4, <2>5
<1>6. n \in G
  <2> HIDE DEF G
  <2>1. \A i \in 0 .. n : i \in G BY <1>1, <1>4, <1>5, UpTo
  <2> QED BY <1>1, <2>1
<1> QED BY <1>6 DEF LinesOf, w, P

----------------------------------------------------------------------------
\* What parseProtocolLine reads in a line.

\* NonEmpty keeps nothing but texts of the sequence, and none that is empty.
LEMMA NonEmptyKeeps ==
  ASSUME NEW S, NEW texts \in Seq(S)
  PROVE  NonEmpty(texts) \in Seq({ text \in S : text # << >> })
<1> DEFINE n == Len(texts)
           N == { text \in S : text # << >> }
           T == Seq(N)
           more(before, k) == IF texts[k] = << >> THEN before ELSE Append(before, texts[k])
           next == [p \in (1 .. n) \X T |-> more(p[2], p[1])]
           F(g) == g = [k \in 0 .. n |-> IF k = 0 THEN << >> ELSE more(g[k - 1], k)]
           w == CHOOSE f : F(f)
<1>1. n \in Nat /\ << >> \in T OBVIOUS
<1>2. \A k \in 1 .. n, before \in T : more(before, k) \in T
  <2> TAKE k \in 1 .. n, before \in T
  <2>1. texts[k] \in S OBVIOUS
  <2>2. CASE texts[k] = << >> BY <2>2
  <2>3. CASE texts[k] # << >>
    <3>1. texts[k] \in N BY <2>1, <2>3
    <3> HIDE DEF N
    <3> QED BY <2>3, <3>1
  <2> QED BY <2>2, <2>3
<1> HIDE DEF T
<1>3. next \in Steps(n, T) BY <1>2 DEF Steps
<1>4. \A k \in 1 .. n, before \in T : next[<< k, before >>] = more(before, k) OBVIOUS
<1> HIDE DEF n, next, more
<1>5. PICK g \in [0 .. n -> T] : Follows(g, n, << >>, next) BY <1>1, <1>3, Recursion
<1>6. F(g)
  <2>1. \A k \in 1 .. n : g[k - 1] \in T BY <1>1, <1>5
  <2>2. \A k \in 1 .. n : g[k] = more(g[k - 1], k) BY <1>4, <1>5, <2>1 DEF Follows
  <2>3. \A k \in 0 .. n : g[k] = IF k = 0 THEN << >> ELSE more(g[k - 1], k)
    BY <1>1, <1>5, <2>2 DEF Follows
  <2> QED BY <1>5, <2>3
<1>7. F(w)
  <2> HIDE DEF F
  <2> QED BY <1>6
<1>8. NonEmpty(texts) = w[n] BY DEF NonEmpty, n, more
<1> HIDE DEF w
<1>9. w[0] = << >> /\ \A k \in 1 .. n : w[k] = more(w[k - 1], k) BY <1>1, <1>7
<1>10. w[n] \in T
  <2> DEFINE G == { k \in 0 .. n : w[k] \in T }
  <2>1. 0 \in G BY <1>1, <1>9
  <2>2. \A k \in 0 .. n - 1 : k \in G => k + 1 \in G BY <1>1, <1>2, <1>9
  <2> HIDE DEF G
  <2>3. \A k \in 0 .. n : k \in G BY <1>1, <2>1, <2>2, UpTo
  <2> QED BY <1>1, <2>3 DEF G
<1> QED BY <1>8, <1>10 DEF T

\* The lines that a text is told in, one for each of its own that says anything.
Sanitized(text) ==
  NonEmpty([k \in DOMAIN Pieces(text) |-> sanitizeProtocolText(Pieces(text)[k])])

\* reportDetail sends a line for each piece of a text that has a word, and they are those
\* that were meant.
LEMMA DetailsAreMeant ==
  ASSUME NEW text \in Characters, Paired(text)
  PROVE  /\ Sanitized(text) \in Seq({ line \in Characters : Plain(line) /\ line # << >> })
         /\ DetailsMeant(text) =
              [k \in DOMAIN Sanitized(text) |-> Message("Detail", "", Sanitized(text)[k])]
<1> DEFINE pieces == Pieces(text)
           each == [k \in DOMAIN pieces |-> sanitizeProtocolText(pieces[k])]
           meant == [k \in DOMAIN pieces |-> TextMeant(pieces[k])]
           P == { line \in Characters : Paired(line) }
           S == { line \in Characters : Plain(line) }
<1>1. pieces \in Seq(P)
  <2> DEFINE all == text \o << NewLine >>
  <2>1. NewLine \in Alphabet /\ NewLine # HighHalf /\ NewLine # LowHalf
    BY DEF Alphabet, NewLine, HighHalf, LowHalf
  <2>2. /\ all \in Characters /\ Len(all) = Len(text) + 1 /\ Len(text) \in Nat
        /\ \A i \in 1 .. Len(text) : all[i] = text[i]
        /\ all[Len(text) + 1] = NewLine
        /\ DOMAIN all = 1 .. Len(text) + 1 /\ DOMAIN text = 1 .. Len(text)
    BY <2>1 DEF Characters
  <2> HIDE DEF all
  <2>3. Paired(all)
    <3> SUFFICES ASSUME NEW i \in 1 .. Len(text) + 1
                 PROVE  /\ all[i] = HighHalf => i < Len(all) /\ all[i + 1] = LowHalf
                        /\ all[i] = LowHalf => i > 1 /\ all[i - 1] = HighHalf
      BY <2>2 DEF Paired
    <3>1. CASE i = Len(text) + 1 BY <2>1, <2>2, <3>1
    <3>2. CASE i \in 1 .. Len(text)
      <4>1. all[i] = text[i] BY <2>2, <3>2
      <4>2. all[i] = HighHalf => i < Len(text) /\ text[i + 1] = LowHalf
        BY <2>2, <3>2, <4>1 DEF Paired
      <4>3. all[i] = LowHalf => i > 1 /\ text[i - 1] = HighHalf
        BY <2>2, <3>2, <4>1 DEF Paired
      <4>4. i < Len(text) => all[i + 1] = text[i + 1] BY <2>2, <3>2
      <4>5. i > 1 => all[i - 1] = text[i - 1] BY <2>2, <3>2
      <4> QED BY <2>2, <4>2, <4>3, <4>4, <4>5
    <3> QED BY <3>1, <3>2
  <2> QED BY <2>2, <2>3, LinesPaired DEF Pieces, all
<1> HIDE DEF pieces
<1>2. \A k \in DOMAIN pieces : pieces[k] \in Characters /\ Paired(pieces[k]) BY <1>1
<1>3. each = meant BY <1>2, SanitizedAsMeant
<1>4. each \in Seq(S)
  <2>1. \A k \in DOMAIN pieces : TextMeant(pieces[k]) \in S
    BY <1>2, SanitizedAsMeant DEF Plain
  <2> HIDE DEF S
  <2>2. DOMAIN pieces = 1 .. Len(pieces) /\ Len(pieces) \in Nat BY <1>1
  <2> QED BY <1>3, <2>1, <2>2
<1>5. NonEmpty(each) \in Seq({ line \in S : line # << >> })
  <2> HIDE DEF S, each
  <2> QED BY <1>4, NonEmptyKeeps
<1>6. { line \in S : line # << >> } = { line \in Characters : Plain(line) /\ line # << >> }
  OBVIOUS
<1>7. Sanitized(text) = NonEmpty(each) BY DEF Sanitized, pieces
<1>8. DetailsMeant(text) = [k \in DOMAIN NonEmpty(meant) |-> Message("Detail", "", NonEmpty(meant)[k])]
  BY DEF DetailsMeant, pieces
<1> HIDE DEF each, meant, S
<1> QED BY <1>3, <1>5, <1>6, <1>7, <1>8

\* The first blank is where parseProtocolLine divides a line.
LEMMA BlankSplits ==
  ASSUME NEW a \in Characters, NEW b \in Characters, \A i \in 1 .. Len(a) : a[i] # Blank
  PROVE  /\ BeforeBlank(a) = a /\ AfterBlank(a) = << >>
         /\ BeforeBlank(a \o << Blank >> \o b) = a
         /\ AfterBlank(a \o << Blank >> \o b) = b
<1> DEFINE n == Len(a)
           whole == a \o << Blank >> \o b
<1>1. Blank \in Alphabet BY DEF Alphabet
<1>2. /\ whole \in Characters /\ n \in Nat /\ Len(b) \in Nat /\ Len(whole) = n + 1 + Len(b)
      /\ \A i \in 1 .. n : whole[i] = a[i]
      /\ whole[n + 1] = Blank
      /\ \A i \in 1 .. Len(b) : whole[n + 1 + i] = b[i]
  BY <1>1 DEF Characters
<1> HIDE DEF whole
<1>3. Blanks(a) = {} BY DEF Blanks, Characters
<1>4. n + 1 \in Blanks(whole) /\ \A k \in Blanks(whole) : k \in Nat /\ n + 1 <= k
  <2>1. DOMAIN whole = 1 .. n + 1 + Len(b) BY <1>2 DEF Characters
  <2>2. n + 1 \in Blanks(whole) BY <1>2, <2>1 DEF Blanks
  <2>3. \A k \in 1 .. n + 1 + Len(b) : k <= n => whole[k] # Blank BY <1>2
  <2> QED BY <1>2, <2>1, <2>2, <2>3 DEF Blanks
<1>5. Min(Blanks(whole)) = n + 1
  <2>1. Blanks(whole) \subseteq Nat /\ Blanks(whole) # {} BY <1>4
  <2>2. Min(Blanks(whole)) \in Blanks(whole) /\ \A k \in Blanks(whole) : Min(Blanks(whole)) <= k
    BY <2>1, LeastNumber
  <2> QED BY <1>2, <1>4, <2>2
<1>6. BeforeBlank(whole) = SubSeq(whole, 1, n)
  BY <1>2, <1>4, <1>5 DEF BeforeBlank
<1>7. AfterBlank(whole) = SubSeq(whole, n + 2, Len(whole))
  BY <1>2, <1>4, <1>5 DEF AfterBlank
<1>8. SubSeq(whole, 1, n) = a
  <2>1. SubSeq(whole, 1, n) \in Characters /\ Len(SubSeq(whole, 1, n)) = n
        /\ \A i \in 1 .. n : SubSeq(whole, 1, n)[i] = whole[i]
    BY <1>2 DEF Characters
  <2> QED BY <1>2, <2>1, SeqEqual DEF Characters
<1>9. SubSeq(whole, n + 2, Len(whole)) = b
  <2> DEFINE c == SubSeq(whole, n + 2, Len(whole))
  <2>1. c \in Characters /\ Len(c) = Len(b)
        /\ \A i \in 1 .. Len(b) : c[i] = whole[n + 1 + i]
    BY <1>2 DEF Characters
  <2> HIDE DEF c
  <2>2. c = b BY <1>2, <2>1, SeqEqual DEF Characters
  <2> QED BY <2>2 DEF c
<1> QED BY <1>3, <1>6, <1>7, <1>8, <1>9 DEF BeforeBlank, AfterBlank, whole

\* Where a text without leading separators is trimmed.
LEMMA TrimmedAt ==
  ASSUME NEW text \in Characters, text # << >>, text[1] \notin Separators
  PROVE  \E m \in 1 .. Len(text) :
           /\ text[m] \notin Separators
           /\ \A i \in 1 .. Len(text) : i > m => text[i] \in Separators
           /\ Trimmed(text) = SubSeq(text, 1, m)
<1> DEFINE L == { i \in DOMAIN text : text[i] \notin Separators }
<1>1. Len(text) \in Nat /\ 1 \in 1 .. Len(text) /\ DOMAIN text = 1 .. Len(text)
  BY DEF Characters
<1>2. 1 \in L /\ L \subseteq 0 .. Len(text) /\ L \subseteq Nat BY <1>1
<1>3. Trimmed(text) = SubSeq(text, Min(L), Max(L)) BY <1>2 DEF Trimmed
<1>4. \A i \in L : i \in 1 .. Len(text) BY <1>1
<1>5. \A i \in 1 .. Len(text) : i \notin L => text[i] \in Separators BY <1>1
<1>6. \A i \in L : text[i] \notin Separators OBVIOUS
<1> HIDE DEF L
<1>7. Min(L) \in L /\ \A k \in L : Min(L) <= k BY <1>2, LeastNumber
<1>8. Max(L) \in L /\ \A k \in L : k <= Max(L) BY <1>1, <1>2, GreatestNumber
<1>9. Min(L) = 1
  <2>1. Min(L) <= 1 /\ Min(L) \in 1 .. Len(text) BY <1>2, <1>4, <1>7
  <2> QED BY <1>1, <2>1
<1>10. Max(L) \in 1 .. Len(text) /\ text[Max(L)] \notin Separators BY <1>4, <1>6, <1>8
<1>11. \A i \in 1 .. Len(text) : i > Max(L) => text[i] \in Separators
  <2> SUFFICES ASSUME NEW i \in 1 .. Len(text), i > Max(L) PROVE i \notin L BY <1>5
  <2>1. i \in L => i <= Max(L) BY <1>8
  <2> QED BY <1>10, <2>1
<1> QED BY <1>3, <1>9, <1>10, <1>11

\* A blank and nothing after it goes, all else stays.
LEMMA TrimmedLine ==
  ASSUME NEW head \in Characters, head # << >>, head[1] \notin Separators,
         head[Len(head)] \notin Separators, NEW text \in Characters,
         text # << >> => text[Len(text)] \notin Separators
  PROVE  Trimmed(head \o << Blank >> \o text) =
           IF text = << >> THEN head ELSE head \o << Blank >> \o text
<1> DEFINE n == Len(head)
           whole == head \o << Blank >> \o text
<1>1. Blank \in Alphabet /\ Blank \in Separators BY DEF Alphabet, Separators
<1>2. /\ whole \in Characters /\ n \in Nat /\ n > 0
      /\ Len(text) \in Nat /\ Len(whole) = n + 1 + Len(text)
      /\ \A i \in 1 .. n : whole[i] = head[i]
      /\ whole[n + 1] = Blank
      /\ \A i \in 1 .. Len(text) : whole[n + 1 + i] = text[i]
  BY <1>1 DEF Characters
<1>3. (text = << >> <=> Len(text) = 0) BY DEF Characters
<1> HIDE DEF whole
<1>4. whole # << >> /\ whole[1] \notin Separators
  <2>1. Len(whole) # 0 BY <1>2
  <2>2. Len(<< >>) = 0 OBVIOUS
  <2>3. whole # << >> BY <2>1, <2>2
  <2> QED BY <1>2, <2>3
<1>5. PICK m \in 1 .. Len(whole) :
        /\ whole[m] \notin Separators
        /\ \A i \in 1 .. Len(whole) : i > m => whole[i] \in Separators
        /\ Trimmed(whole) = SubSeq(whole, 1, m)
  BY <1>2, <1>4, TrimmedAt
<1>6. CASE text = << >>
  <2>1. Len(whole) = n + 1 BY <1>2, <1>3, <1>6
  <2>2. whole[n] \notin Separators /\ whole[n + 1] \in Separators BY <1>1, <1>2
  <2>3. m = n
    <3>1. m # n + 1 BY <1>5, <2>2
    <3>2. ~ (n > m) BY <1>2, <1>5, <2>1, <2>2
    <3> QED BY <1>2, <2>1, <3>1, <3>2
  <2>4. SubSeq(whole, 1, n) = head
    <3>1. SubSeq(whole, 1, n) \in Characters /\ Len(SubSeq(whole, 1, n)) = n
          /\ \A i \in 1 .. n : SubSeq(whole, 1, n)[i] = whole[i]
      BY <1>2 DEF Characters
    <3> QED BY <1>2, <3>1, SeqEqual DEF Characters
  <2> QED BY <1>5, <1>6, <2>3, <2>4 DEF whole
<1>7. CASE text # << >>
  <2>1. Len(text) \in 1 .. Len(text) BY <1>2, <1>3, <1>7
  <2>2. whole[Len(whole)] \notin Separators BY <1>2, <1>7, <2>1
  <2>3. m = Len(whole)
    <3>1. Len(whole) \in 1 .. Len(whole) BY <1>2
    <3> QED BY <1>5, <2>2, <3>1
  <2>4. SubSeq(whole, 1, Len(whole)) = whole BY <1>2 DEF Characters
  <2> QED BY <1>5, <1>7, <2>3, <2>4 DEF whole
<1> QED BY <1>6, <1>7

\* A line is read by its first character, however much of it there is.
LEMMA KeywordRead ==
  ASSUME NEW line \in Characters, line # << >>, line[1] \notin Separators,
         Len(line) > 1 => line[2] = Blank
  PROVE  Trimmed(line) # << >> /\ BeforeBlank(Trimmed(line)) = << line[1] >>
<1>1. PICK m \in 1 .. Len(line) :
        /\ line[m] \notin Separators
        /\ Trimmed(line) = SubSeq(line, 1, m)
  BY TrimmedAt
<1> DEFINE t == SubSeq(line, 1, m)
<1>2. Len(line) \in Nat BY DEF Characters
<1>3. /\ t \in Characters /\ Len(t) = m
      /\ \A i \in 1 .. m : t[i] = line[i]
  BY <1>2 DEF Characters
<1>4. line[1] \in Alphabet /\ Blank \in Separators /\ Blank \in Alphabet
  BY <1>2, <1>1 DEF Characters, Separators, Alphabet
<1> DEFINE a == << line[1] >>
<1>5. a \in Characters /\ Len(a) = 1 /\ a[1] = line[1] BY <1>4 DEF Characters
<1>6. \A i \in 1 .. Len(a) : a[i] # Blank BY <1>4, <1>5
<1>7. t # << >>
  <2>1. Len(t) # 0 BY <1>3
  <2> QED BY <2>1
<1> HIDE DEF t
<1>8. CASE m = 1
  <2>1. t = a BY <1>3, <1>5, <1>8, SeqEqual DEF Characters
  <2>2. BeforeBlank(a) = a
    <3> HIDE DEF a
    <3> QED BY <1>5, <1>6, BlankSplits
  <2> QED BY <1>1, <1>7, <2>1, <2>2 DEF t
<1>9. CASE m # 1
  <2>1. m # 2 BY <1>1, <1>4, <1>9
  <2>2. m > 2 BY <1>9, <2>1
  <2> DEFINE b == SubSeq(t, 3, m)
             whole == a \o << Blank >> \o b
  <2>3. b \in Characters /\ Len(b) = m - 2 /\ \A i \in 1 .. m - 2 : b[i] = t[i + 2]
    BY <1>3, <2>2 DEF Characters
  <2> HIDE DEF b
  <2>4. whole \in Characters /\ Len(whole) = m /\ whole[1] = line[1] /\ whole[2] = Blank
        /\ \A i \in 3 .. m : whole[i] = b[i - 2]
    BY <1>4, <1>5, <2>2, <2>3 DEF Characters
  <2> HIDE DEF whole
  <2>5. line[2] = Blank BY <2>2, <1>2
  <2>6. \A i \in 1 .. m : t[i] = whole[i]
    <3> TAKE i \in 1 .. m
    <3>1. CASE i = 1 BY <1>3, <2>4, <3>1
    <3>2. CASE i = 2 BY <1>3, <2>4, <2>5, <3>2
    <3>3. CASE i \in 3 .. m
      <4>1. i - 2 \in 1 .. m - 2 /\ (i - 2) + 2 = i BY <3>3
      <4> QED BY <2>3, <2>4, <3>3, <4>1
    <3> QED BY <3>1, <3>2, <3>3
  <2>7. t = whole BY <1>3, <2>4, <2>6, SeqEqual DEF Characters
  <2>8. BeforeBlank(whole) = a
    <3> HIDE DEF a
    <3> QED BY <1>5, <1>6, <2>3, BlankSplits DEF whole
  <2> QED BY <1>1, <1>7, <2>7, <2>8 DEF t
<1> QED BY <1>8, <1>9

\* The first line of every helper.
Announcement == Message("Version", "5", << "plan" >>)

\* The kinds of message that a restore may end with.
Verdicts == {"Result", "Failure"}

\* What a helper may say.
Sayable(m) ==
  \/ m = Announcement
  \/ \E number \in Range(Numbers), text \in Characters : Plain(text) /\ m = Message("Step", number, text)
  \/ \E kind \in {"Detail"} \cup Verdicts, text \in Characters :
       Plain(text) /\ m = Message(kind, "", text)

\* What comes before the text in a message's line.
HeadOf(m) ==
  CASE m.kind = "Version" -> << "version", Blank, "5" >>
    [] m.kind = "Step" -> << "step", Blank, m.number, "/", Last(Numbers) >>
    [] m.kind = "Detail" -> << "detail" >>
    [] m.kind = "Failure" -> << "failure" >>
    [] OTHER -> << "result" >>

\* A message as a line.
LineOf(m) == HeadOf(m) \o << Blank >> \o m.text

\* A step's number has no blank and no half in it.
LEMMA NumbersAre ==
  ASSUME NEW number \in Range(Numbers) \cup {Last(Numbers)}
  PROVE  /\ number \in Alphabet
         /\ number \notin Separators /\ number # HighHalf /\ number # LowHalf
<1> DEFINE S == STRING \ (Separators \cup {HighHalf, LowHalf})
<1>1. Numbers \in Seq(S) /\ Numbers # << >> BY TextAssumption
<1> HIDE DEF S
<1>2. \A i \in DOMAIN Numbers : Numbers[i] \in S BY <1>1
<1>3. Len(Numbers) \in DOMAIN Numbers BY <1>1
<1>4. number \in S BY <1>2, <1>3 DEF Range, Last
<1> QED BY <1>4 DEF S, Alphabet, Separators

\* The keyword of a kind of message.
WordOf(kind) ==
  CASE kind = "Version" -> "version"
    [] kind = "Step" -> "step"
    [] kind = "Detail" -> "detail"
    [] kind = "Failure" -> "failure"
    [] OTHER -> "result"

\* A line begins with a word that no other kind of line begins with.
LEMMA HeadIs ==
  ASSUME NEW m, Sayable(m)
  PROVE  LET head == HeadOf(m)
         IN  /\ head \in Characters /\ head # << >> /\ Len(head) <= 5
             /\ head[1] = WordOf(m.kind)
             /\ Len(head) > 1 => head[2] = Blank
             /\ head[Len(head)] \notin Separators
             /\ \A i \in 1 .. Len(head) :
                  head[i] # NewLine /\ head[i] # HighHalf /\ head[i] # LowHalf
<1> DEFINE head == HeadOf(m)
<1> USE DEF Blank, NewLine, HighHalf, LowHalf
<1>1. /\ "version" \in Alphabet /\ "5" \in Alphabet /\ "step" \in Alphabet /\ "/" \in Alphabet
      /\ "detail" \in Alphabet /\ "failure" \in Alphabet /\ "result" \in Alphabet
      /\ Blank \in Alphabet
  BY DEF Alphabet
<1>2. CASE m = Announcement
  <2>1. m.kind = "Version" BY <1>2 DEF Announcement, Message
  <2>2. head = << "version", Blank, "5" >> BY <2>1 DEF HeadOf
  <2> HIDE DEF head
  <2>3. head \in Characters /\ head # << >> /\ Len(head) = 3
        /\ head[1] = "version" /\ head[2] = Blank /\ head[3] = "5"
    BY <1>1, <2>2 DEF Characters
  <2> QED BY <2>1, <2>3 DEF Separators, WordOf, head
<1>3. CASE \E number \in Range(Numbers), text \in Characters :
             Plain(text) /\ m = Message("Step", number, text)
  <2>1. PICK number \in Range(Numbers), text \in Characters :
          Plain(text) /\ m = Message("Step", number, text) BY <1>3
  <2>2. m.kind = "Step" /\ m.number = number BY <2>1 DEF Message
  <2> DEFINE last == Last(Numbers)
  <2>3. head = << "step", Blank, number, "/", last >> BY <2>2 DEF HeadOf
  <2>4. /\ number \in Alphabet /\ number \notin Separators
        /\ number # HighHalf /\ number # LowHalf
        /\ last \in Alphabet /\ last \notin Separators
        /\ last # HighHalf /\ last # LowHalf
    BY NumbersAre
  <2> HIDE DEF last, head
  <2>5. head \in Characters /\ head # << >> /\ Len(head) = 5
        /\ head[1] = "step" /\ head[2] = Blank /\ head[3] = number /\ head[4] = "/"
        /\ head[5] = last
    BY <1>1, <2>3, <2>4 DEF Characters
  <2>6. \A i \in 1 .. 5 : head[i] # NewLine /\ head[i] # HighHalf /\ head[i] # LowHalf
    <3>1. number # NewLine /\ last # NewLine BY <2>4 DEF Separators
    <3> QED BY <2>4, <2>5, <3>1
  <2> QED BY <2>2, <2>4, <2>5, <2>6 DEF WordOf, head
<1>4. CASE \E kind \in {"Detail"} \cup Verdicts, text \in Characters :
             Plain(text) /\ m = Message(kind, "", text)
  <2>1. PICK kind \in {"Detail"} \cup Verdicts, text \in Characters :
          Plain(text) /\ m = Message(kind, "", text) BY <1>4
  <2>2. m.kind = kind /\ kind \in {"Detail", "Failure", "Result"}
    BY <2>1 DEF Message, Verdicts
  <2>3. head = << WordOf(kind) >> /\ WordOf(kind) \in {"detail", "failure", "result"}
    BY <2>2 DEF HeadOf, WordOf
  <2> HIDE DEF head
  <2>4. head \in Characters /\ head # << >> /\ Len(head) = 1 /\ head[1] = WordOf(kind)
    BY <1>1, <2>3 DEF Characters
  <2> QED BY <2>2, <2>3, <2>4 DEF Separators, head
<1> QED BY <1>2, <1>3, <1>4 DEF Sayable

\* A message's text ends in no blank and breaks no line.
LEMMA TextIs ==
  ASSUME NEW m, Sayable(m)
  PROVE  /\ m.text \in Characters
         /\ m # Announcement => Plain(m.text)
         /\ m.text # << >> => m.text[Len(m.text)] \notin Separators
         /\ \A i \in 1 .. Len(m.text) : m.text[i] # NewLine
         /\ Paired(m.text)
         /\ m.kind \in {"Version", "Step", "Detail", "Failure", "Result"}
         /\ m = Announcement <=> m.kind = "Version"
<1>1. ASSUME NEW text, Plain(text)
      PROVE  /\ text \in Characters
             /\ text # << >> => text[Len(text)] \notin Separators
             /\ \A i \in 1 .. Len(text) : text[i] # NewLine
             /\ Paired(text)
  BY <1>1 DEF Plain, Separators, Blank, NewLine
<1>2. CASE m = Announcement
  <2>1. m.text = << "plan" >> /\ m.kind = "Version" BY <1>2 DEF Announcement, Message
  <2>2. "plan" \in Alphabet BY DEF Alphabet
  <2> DEFINE t == << "plan" >>
  <2>3. t \in Characters /\ Len(t) = 1 /\ t[1] = "plan" /\ DOMAIN t = 1 .. 1
    BY <2>2 DEF Characters
  <2> HIDE DEF t
  <2>4. t[1] \notin Separators /\ \A i \in 1 .. 1 : t[i] # NewLine
    BY <2>3 DEF Separators, Blank, NewLine
  <2>5. Paired(t) BY <2>3 DEF Paired, HighHalf, LowHalf
  <2> QED BY <1>2, <2>1, <2>3, <2>4, <2>5 DEF t
<1>3. CASE \E number \in Range(Numbers), text \in Characters :
             Plain(text) /\ m = Message("Step", number, text)
  <2>1. PICK number \in Range(Numbers), text \in Characters :
          Plain(text) /\ m = Message("Step", number, text) BY <1>3
  <2>2. m.text = text /\ m.kind = "Step" BY <2>1 DEF Message
  <2>3. m # Announcement BY <2>2 DEF Announcement, Message
  <2> QED BY <1>1, <2>1, <2>2, <2>3
<1>4. CASE \E kind \in {"Detail"} \cup Verdicts, text \in Characters :
             Plain(text) /\ m = Message(kind, "", text)
  <2>1. PICK kind \in {"Detail"} \cup Verdicts, text \in Characters :
          Plain(text) /\ m = Message(kind, "", text) BY <1>4
  <2>2. m.text = text /\ m.kind = kind /\ kind \in {"Detail", "Failure", "Result"}
    BY <2>1 DEF Message, Verdicts
  <2>3. m # Announcement BY <2>2 DEF Announcement, Message
  <2> QED BY <1>1, <2>1, <2>2, <2>3
<1> QED BY <1>2, <1>3, <1>4 DEF Sayable

----------------------------------------------------------------------------
\* From a message to its line, and back.

\* Characters in a row are the same however they are put together.
LEMMA Associative ==
  ASSUME NEW a \in Characters, NEW b \in Characters, NEW c \in Characters
  PROVE  (a \o b) \o c = a \o (b \o c)
BY ConcatAssociative DEF Characters

\* UTF-8 loses nothing of a text whose characters are whole.
LEMMA CodedPaired ==
  ASSUME NEW text \in Characters, Paired(text)
  PROVE  Coded(text) = text
<1>1. /\ DOMAIN text = 1 .. Len(text) /\ Len(text) \in Nat
      /\ text = [i \in 1 .. Len(text) |-> text[i]]
  BY DEF Characters
<1>2. ASSUME NEW i \in 1 .. Len(text)
      PROVE  (IF \/ text[i] = HighHalf /\ ~ (i < Len(text) /\ text[i + 1] = LowHalf)
                 \/ text[i] = LowHalf /\ ~ (i > 1 /\ text[i - 1] = HighHalf)
              THEN Replacement ELSE text[i]) = text[i]
  BY <1>1 DEF Paired
<1>3. Coded(text) = [i \in 1 .. Len(text) |-> text[i]] BY <1>1, <1>2 DEF Coded
<1> QED BY <1>1, <1>3

\* And of any other, only halves.
LEMMA CodedTyped ==
  ASSUME NEW text \in Characters
  PROVE  /\ Coded(text) \in Characters /\ Len(Coded(text)) = Len(text)
         /\ \A i \in 1 .. Len(text) :
              text[i] # HighHalf /\ text[i] # LowHalf => Coded(text)[i] = text[i]
<1>1. /\ DOMAIN text = 1 .. Len(text) /\ Len(text) \in Nat
      /\ \A i \in 1 .. Len(text) : text[i] \in Alphabet
  BY DEF Characters
<1>2. Replacement \in Alphabet BY DEF Alphabet
<1> DEFINE other(i) == IF \/ text[i] = HighHalf /\ ~ (i < Len(text) /\ text[i + 1] = LowHalf)
                          \/ text[i] = LowHalf /\ ~ (i > 1 /\ text[i - 1] = HighHalf)
                       THEN Replacement ELSE text[i]
<1>3. \A i \in 1 .. Len(text) : other(i) \in Alphabet BY <1>1, <1>2
<1>4. Coded(text) = [i \in 1 .. Len(text) |-> other(i)] BY <1>1 DEF Coded
<1>5. \A i \in 1 .. Len(text) : text[i] # HighHalf /\ text[i] # LowHalf => other(i) = text[i]
  OBVIOUS
<1> HIDE DEF other
<1> DEFINE c == [i \in 1 .. Len(text) |-> other(i)]
<1>6. c \in Seq(Alphabet) /\ Len(c) = Len(text) BY <1>1, <1>3
<1>7. \A i \in 1 .. Len(text) : c[i] = other(i) OBVIOUS
<1> QED BY <1>4, <1>5, <1>6, <1>7 DEF Characters

\* A line is one line, of whole characters, and not longer than what the client keeps.
LEMMA LineIs ==
  ASSUME NEW m, Sayable(m)
  PROVE  /\ LineOf(m) \in Characters
         /\ Len(LineOf(m)) > 1 /\ Len(LineOf(m)) <= MaxBufferedBytes
         /\ LineOf(m)[1] = WordOf(m.kind) /\ LineOf(m)[2] = Blank
         /\ \A i \in 1 .. Len(LineOf(m)) : LineOf(m)[i] # NewLine
         /\ Paired(LineOf(m))
<1> DEFINE head == HeadOf(m)
           text == m.text
           n == Len(head)
           line == LineOf(m)
<1>1. /\ head \in Characters /\ head # << >> /\ n <= 5
      /\ head[1] = WordOf(m.kind)
      /\ n > 1 => head[2] = Blank
      /\ \A i \in 1 .. n : head[i] # NewLine /\ head[i] # HighHalf /\ head[i] # LowHalf
  BY HeadIs
<1>2. /\ text \in Characters
      /\ \A i \in 1 .. Len(text) : text[i] # NewLine
      /\ Paired(text)
  BY TextIs
<1>3. Blank \in Alphabet /\ Blank # NewLine /\ Blank # HighHalf /\ Blank # LowHalf
  BY DEF Alphabet, Blank, NewLine, HighHalf, LowHalf
<1>4. line = head \o << Blank >> \o text BY DEF LineOf
<1> HIDE DEF head, text, line
<1>5. /\ line \in Characters /\ n \in Nat /\ n > 0 /\ Len(text) \in Nat
      /\ Len(line) = n + 1 + Len(text)
      /\ \A i \in 1 .. n : line[i] = head[i]
      /\ line[n + 1] = Blank
      /\ \A i \in 1 .. Len(text) : line[n + 1 + i] = text[i]
  BY <1>1, <1>2, <1>3, <1>4 DEF Characters
<1> HIDE DEF n
<1>6. Len(line) <= MaxBufferedBytes
  <2>1. MaxProtocolTextLength \in Nat /\ MaxProtocolTextLength + 6 <= MaxBufferedBytes
        /\ MaxBufferedBytes \in Nat
    BY ProtocolAssumption
  <2>2. CASE m = Announcement
    <3>1. m.kind = "Version" /\ text = << "plan" >> BY <2>2 DEF Announcement, Message, text
    <3>2. head = << "version", Blank, "5" >> BY <3>1 DEF head, HeadOf
    <3>3. n = 3 /\ Len(text) = 1 BY <3>1, <3>2 DEF n
    <3> QED BY <1>5, <2>1, <3>3
  <2>3. CASE m # Announcement
    <3>1. Len(text) <= MaxProtocolTextLength BY <2>3, TextIs DEF Plain, text
    <3> QED BY <1>1, <1>5, <2>1, <3>1
  <2> QED BY <2>2, <2>3
<1>7. line[2] = Blank
  <2>1. CASE n = 1 BY <1>5, <2>1
  <2>2. CASE n > 1 BY <1>1, <1>5, <2>2
  <2> QED BY <1>5, <2>1, <2>2
<1>8. ASSUME NEW i \in 1 .. Len(line)
      PROVE  \/ line[i] # NewLine /\ line[i] # HighHalf /\ line[i] # LowHalf
             \/ i > n + 1 /\ i - n - 1 \in 1 .. Len(text) /\ line[i] = text[i - n - 1]
  <2>1. CASE i \in 1 .. n BY <1>1, <1>5, <2>1
  <2>2. CASE i = n + 1 BY <1>3, <1>5, <2>2
  <2>3. CASE i > n + 1
    <3>1. i - n - 1 \in 1 .. Len(text) /\ n + 1 + (i - n - 1) = i BY <1>5, <2>3
    <3> QED BY <1>5, <2>3, <3>1
  <2> QED BY <1>5, <2>1, <2>2, <2>3
<1>9. \A i \in 1 .. Len(line) : line[i] # NewLine BY <1>2, <1>8
<1>10. Paired(line)
  <2> SUFFICES ASSUME NEW i \in 1 .. Len(line), line[i] \in {HighHalf, LowHalf}
               PROVE  /\ line[i] = HighHalf => i < Len(line) /\ line[i + 1] = LowHalf
                      /\ line[i] = LowHalf => i > 1 /\ line[i - 1] = HighHalf
    BY <1>5 DEF Paired, Characters
  <2> DEFINE k == i - n - 1
  <2>1. i > n + 1 /\ k \in 1 .. Len(text) /\ line[i] = text[k] BY <1>8
  <2>2. i = n + 1 + k BY <1>5
  <2>3. DOMAIN text = 1 .. Len(text) BY <1>2 DEF Characters
  <2> HIDE DEF k
  <2>4. /\ text[k] = HighHalf => k < Len(text) /\ text[k + 1] = LowHalf
        /\ text[k] = LowHalf => k > 1 /\ text[k - 1] = HighHalf
    BY <1>2, <2>1, <2>3 DEF Paired
  <2>5. k < Len(text) => k + 1 \in 1 .. Len(text) /\ n + 1 + (k + 1) = i + 1 /\ i < Len(line)
    BY <1>5, <2>1, <2>2
  <2>6. k > 1 => k - 1 \in 1 .. Len(text) /\ n + 1 + (k - 1) = i - 1 /\ i > 1
    BY <1>5, <2>1, <2>2
  <2> QED BY <1>5, <2>1, <2>4, <2>5, <2>6
<1>11. line[1] = WordOf(m.kind) /\ Len(line) > 1 BY <1>1, <1>5
<1> QED BY <1>5, <1>6, <1>7, <1>9, <1>10, <1>11 DEF line

\* What a line says is read back.
THEOREM LineRead ==
  ASSUME NEW m, Sayable(m)
  PROVE  Trimmed(LineOf(m)) # << >> /\ parseProtocolLine(LineOf(m)) = m
<1> DEFINE head == HeadOf(m)
           text == m.text
           line == LineOf(m)
           trimmed == Trimmed(line)
           word == << WordOf(m.kind) >>
<1>1. /\ head \in Characters /\ head # << >>
      /\ head[1] = WordOf(m.kind) /\ WordOf(m.kind) \notin Separators /\ WordOf(m.kind) \in Alphabet
      /\ head[Len(head)] \notin Separators
  <2>1. WordOf(m.kind) \in {"version", "step", "detail", "failure", "result"} BY DEF WordOf
  <2>2. WordOf(m.kind) \notin Separators /\ WordOf(m.kind) \in Alphabet
    BY <2>1 DEF Separators, Blank, NewLine, Alphabet
  <2> QED BY <2>2, HeadIs
<1>2. text \in Characters /\ (text # << >> => text[Len(text)] \notin Separators) BY TextIs
<1>3. trimmed = IF text = << >> THEN head ELSE head \o << Blank >> \o text
  <2> HIDE DEF head, text
  <2>1. Trimmed(head \o << Blank >> \o text) = IF text = << >> THEN head ELSE head \o << Blank >> \o text
    BY <1>1, <1>2, TrimmedLine
  <2> QED BY <2>1 DEF head, text, LineOf
<1>4. trimmed # << >> /\ BeforeBlank(trimmed) = word
  BY <1>1, LineIs, KeywordRead
<1>5. \A i \in 1 .. Len(word) : word[i] # Blank BY <1>1 DEF Separators
<1>6. word \in Characters BY <1>1 DEF Characters
<1>7. Blank \in Alphabet BY DEF Alphabet
<1> HIDE DEF head, text, line, word, trimmed
<1>8. CASE m = Announcement
  <2>1. m.kind = "Version" /\ text = << "plan" >> /\ WordOf(m.kind) = "version"
    BY <1>8 DEF Announcement, Message, text, WordOf
  <2> DEFINE five == << "5" >>
             plan == << "plan" >>
             rest == five \o << Blank >> \o plan
  <2>2. five \in Characters /\ plan \in Characters
    <3>1. "5" \in Alphabet /\ "plan" \in Alphabet BY DEF Alphabet
    <3> QED BY <3>1 DEF Characters
  <2>3. rest \in Characters BY <1>7, <2>2 DEF Characters
  <2>4. trimmed = word \o << Blank >> \o rest
    <3>1. head = << "version", Blank, "5" >> BY <2>1 DEF head, HeadOf
    <3>2. trimmed = << "version", Blank, "5" >> \o << Blank >> \o << "plan" >>
      BY <1>3, <2>1, <3>1
    <3>3. << "version", Blank, "5" >> \o << Blank >> \o << "plan" >>
           = << "version" >> \o << Blank >> \o (<< "5" >> \o << Blank >> \o << "plan" >>)
      OBVIOUS
    <3> QED BY <2>1, <3>2, <3>3 DEF word
  <2>5. \A i \in 1 .. Len(five) : five[i] # Blank BY DEF Blank
  <2> HIDE DEF five, plan, rest
  <2>6. AfterBlank(trimmed) = rest BY <1>5, <1>6, <2>3, <2>4, BlankSplits
  <2>7. BeforeBlank(rest) = five /\ AfterBlank(rest) = plan BY <2>2, <2>5, BlankSplits DEF rest
  <2>8. parseProtocolLine(line) = ParseVersion(rest)
    <3>1. word = << "version" >> BY <2>1 DEF word
    <3> QED BY <1>4, <2>6, <3>1 DEF parseProtocolLine, trimmed
  <2> QED BY <1>4, <1>8, <2>7, <2>8 DEF ParseVersion, Announcement, five, plan, line, trimmed
<1>9. CASE \E number \in Range(Numbers), t \in Characters :
             Plain(t) /\ m = Message("Step", number, t)
  <2>1. PICK number \in Range(Numbers) : m = Message("Step", number, text)
    BY <1>9 DEF Message, text
  <2>2. m.kind = "Step" /\ WordOf(m.kind) = "step" /\ m.number = number
    BY <2>1 DEF Message, WordOf
  <2> DEFINE last == Last(Numbers)
             counts == << number, "/", last >>
             rest == IF text = << >> THEN counts ELSE counts \o << Blank >> \o text
  <2>3. number \in Alphabet /\ number # Blank /\ last \in Alphabet /\ last # Blank /\ last \in Range(Numbers)
    <3>1. number \in Alphabet /\ number \notin Separators /\ last \in Alphabet /\ last \notin Separators
      BY NumbersAre
    <3>2. last \in Range(Numbers) BY TextAssumption DEF Last, Range
    <3> QED BY <3>1, <3>2 DEF Separators
  <2>4. counts \in Characters /\ \A i \in 1 .. Len(counts) : counts[i] # Blank
    <3>1. "/" \in Alphabet /\ "/" # Blank BY DEF Alphabet, Blank
    <3> QED BY <2>3, <3>1 DEF Characters
  <2>5. head = << "step", Blank, number, "/", last >> BY <2>2 DEF head, HeadOf
  <2>6. head = word \o << Blank >> \o counts BY <2>2, <2>5 DEF word
  <2>7. Len(counts) = 3 /\ counts[1] = number /\ counts[2] = "/" /\ counts[3] = last OBVIOUS
  <2> HIDE DEF counts, last
  <2>8. trimmed = word \o << Blank >> \o rest /\ rest \in Characters
    <3>1. CASE text = << >> BY <1>3, <2>4, <2>6, <3>1
    <3>2. CASE text # << >>
      <4>1. trimmed = (word \o << Blank >> \o counts) \o << Blank >> \o text
        BY <1>3, <2>6, <3>2
      <4>2. /\ word \in Seq(Alphabet) /\ counts \in Seq(Alphabet) /\ text \in Seq(Alphabet)
            /\ << Blank >> \in Seq(Alphabet)
        BY <1>2, <1>6, <1>7, <2>4 DEF Characters
      <4>3. (word \o << Blank >> \o counts) \o << Blank >> \o text
              = word \o << Blank >> \o (counts \o << Blank >> \o text)
        <5> DEFINE a == word \o << Blank >>
                   b == << Blank >>
        <5>1. a \in Characters /\ b \in Characters BY <4>2 DEF Characters
        <5> HIDE DEF a, b
        <5>2. a \o counts \in Characters /\ counts \o b \in Characters
          BY <2>4, <5>1 DEF Characters
        <5>3. (a \o counts) \o b = a \o (counts \o b) BY <2>4, <5>1, Associative
        <5>4. (a \o (counts \o b)) \o text = a \o ((counts \o b) \o text)
          BY <1>2, <5>1, <5>2, Associative
        <5> QED BY <5>3, <5>4 DEF a, b
      <4>4. rest \in Characters BY <3>2, <4>2 DEF Characters
      <4> QED BY <3>2, <4>1, <4>3, <4>4
    <3> QED BY <3>1, <3>2
  <2>9. BeforeBlank(rest) = counts /\ AfterBlank(rest) = text
    <3>1. CASE text = << >> BY <1>2, <2>4, <3>1, BlankSplits
    <3>2. CASE text # << >> BY <1>2, <2>4, <3>2, BlankSplits
    <3> QED BY <3>1, <3>2
  <2> HIDE DEF rest
  <2>10. AfterBlank(trimmed) = rest BY <1>5, <1>6, <2>8, BlankSplits
  <2>11. parseProtocolLine(line) = ParseStep(rest)
    <3>1. word = << "step" >> BY <2>2 DEF word
    <3> QED BY <1>4, <2>10, <3>1 DEF parseProtocolLine, trimmed
  <2>12. ParseStep(rest) = Message("Step", number, text) BY <2>1, <2>3, <2>7, <2>9 DEF ParseStep
  <2> QED BY <1>4, <2>1, <2>11, <2>12 DEF trimmed, line
<1>10. CASE \E kind \in {"Detail"} \cup Verdicts, t \in Characters :
             Plain(t) /\ m = Message(kind, "", t)
  <2>1. PICK kind \in {"Detail"} \cup Verdicts : m = Message(kind, "", text)
    <3>1. PICK kind \in {"Detail"} \cup Verdicts, t \in Characters : m = Message(kind, "", t)
      BY <1>10
    <3>2. text = t BY <3>1 DEF Message, text
    <3> QED BY <3>1, <3>2
  <2>2. m.kind = kind /\ kind \in {"Detail", "Failure", "Result"} BY <2>1 DEF Message, Verdicts
  <2>3. head = word BY <2>2 DEF head, HeadOf, word, WordOf
  <2>4. AfterBlank(trimmed) = text
    <3>1. CASE text = << >> BY <1>3, <1>5, <1>6, <2>3, <3>1, BlankSplits
    <3>2. CASE text # << >> BY <1>2, <1>3, <1>5, <1>6, <2>3, <3>2, BlankSplits
    <3> QED BY <3>1, <3>2
  <2>5. CASE kind = "Detail"
    <3>1. word = << "detail" >> BY <2>2, <2>5 DEF word, WordOf
    <3>2. parseProtocolLine(line) = Message("Detail", "", text)
      BY <1>4, <2>4, <3>1 DEF parseProtocolLine, trimmed
    <3> QED BY <1>4, <2>1, <2>5, <3>2 DEF trimmed, line
  <2>6. CASE kind = "Failure"
    <3>1. word = << "failure" >> BY <2>2, <2>6 DEF word, WordOf
    <3>2. parseProtocolLine(line) = Message("Failure", "", text)
      BY <1>4, <2>4, <3>1 DEF parseProtocolLine, trimmed
    <3> QED BY <1>4, <2>1, <2>6, <3>2 DEF trimmed, line
  <2>7. CASE kind = "Result"
    <3>1. word = << "result" >> BY <2>2, <2>7 DEF word, WordOf
    <3>2. parseProtocolLine(line) = Message("Result", "", text)
      BY <1>4, <2>4, <3>1 DEF parseProtocolLine, trimmed
    <3> QED BY <1>4, <2>1, <2>7, <3>2 DEF trimmed, line
  <2> QED BY <2>2, <2>5, <2>6, <2>7
<1> QED BY <1>8, <1>9, <1>10 DEF Sayable

\* What has arrived of a line is read as a message of the line's kind, or as none.
THEOREM PartRead ==
  ASSUME NEW m, Sayable(m), NEW part \in Characters, part # << >>,
         Len(part) <= Len(LineOf(m)), \A i \in 1 .. Len(part) : part[i] = LineOf(m)[i]
  PROVE  /\ Trimmed(Coded(part)) # << >>
         /\ parseProtocolLine(Coded(part)).kind \in {"Unknown", m.kind}
<1> DEFINE c == Coded(part)
           word == << WordOf(m.kind) >>
           t == Trimmed(c)
<1>1. WordOf(m.kind) \in {"version", "step", "detail", "failure", "result"} BY DEF WordOf
<1>2. LineOf(m)[1] = WordOf(m.kind) /\ LineOf(m)[2] = Blank BY LineIs
<1>3. Len(part) \in Nat /\ Len(part) > 0 BY DEF Characters
<1>4. part[1] = WordOf(m.kind) /\ (Len(part) > 1 => part[2] = Blank) BY <1>2, <1>3
<1>5. /\ WordOf(m.kind) # HighHalf /\ WordOf(m.kind) # LowHalf /\ WordOf(m.kind) \notin Separators
      /\ Blank # HighHalf /\ Blank # LowHalf
  BY <1>1 DEF HighHalf, LowHalf, Separators, Blank, NewLine
<1>6. c \in Characters /\ Len(c) = Len(part) /\ c[1] = WordOf(m.kind) /\ (Len(part) > 1 => c[2] = Blank)
  BY <1>3, <1>4, <1>5, CodedTyped
<1>7. c # << >> BY <1>3, <1>6
<1> HIDE DEF c
<1>8. t # << >> /\ BeforeBlank(t) = word BY <1>5, <1>6, <1>7, KeywordRead
<1> HIDE DEF t
<1> DEFINE message == parseProtocolLine(c)
<1>9. message = CASE word = << "version" >> -> ParseVersion(AfterBlank(t))
                  [] word = << "step" >> -> ParseStep(AfterBlank(t))
                  [] word = << "detail" >> -> Message("Detail", "", AfterBlank(t))
                  [] word = << "failure" >> -> Message("Failure", "", AfterBlank(t))
                  [] word = << "result" >> -> Message("Result", "", AfterBlank(t))
                  [] OTHER -> Unknown(t)
  BY <1>8 DEF parseProtocolLine, t
<1>10. m.kind \in {"Version", "Step", "Detail", "Failure", "Result"} BY TextIs
<1>11. CASE m.kind = "Version"
  <2>1. word = << "version" >> BY <1>11 DEF WordOf
  <2>2. message = ParseVersion(AfterBlank(t)) BY <1>9, <2>1
  <2> HIDE DEF message
  <2>3. message.kind \in {"Unknown", "Version"} BY <2>2 DEF ParseVersion, Unknown, Message
  <2> QED BY <1>8, <1>11, <2>3 DEF message, t, c
<1>12. CASE m.kind = "Step"
  <2>1. word = << "step" >> BY <1>12 DEF WordOf
  <2>2. message = ParseStep(AfterBlank(t)) BY <1>9, <2>1
  <2> HIDE DEF message
  <2>3. message.kind \in {"Unknown", "Step"} BY <2>2 DEF ParseStep, Unknown, Message
  <2> QED BY <1>8, <1>12, <2>3 DEF message, t, c
<1>13. CASE m.kind = "Detail"
  <2>1. word = << "detail" >> BY <1>13 DEF WordOf
  <2>2. message = Message("Detail", "", AfterBlank(t)) BY <1>9, <2>1
  <2> HIDE DEF message
  <2>3. message.kind = "Detail" BY <2>2 DEF Message
  <2> QED BY <1>8, <1>13, <2>3 DEF message, t, c
<1>14. CASE m.kind = "Failure"
  <2>1. word = << "failure" >> BY <1>14 DEF WordOf
  <2>2. message = Message("Failure", "", AfterBlank(t)) BY <1>9, <2>1
  <2> HIDE DEF message
  <2>3. message.kind = "Failure" BY <2>2 DEF Message
  <2> QED BY <1>8, <1>14, <2>3 DEF message, t, c
<1>15. CASE m.kind = "Result"
  <2>1. word = << "result" >> BY <1>15 DEF WordOf
  <2>2. message = Message("Result", "", AfterBlank(t)) BY <1>9, <2>1
  <2> HIDE DEF message
  <2>3. message.kind = "Result" BY <2>2 DEF Message
  <2> QED BY <1>8, <1>15, <2>3 DEF message, t, c
<1> QED BY <1>10, <1>11, <1>12, <1>13, <1>14, <1>15

\* Two characters, written in pieces.
LEMMA SpelledTwo ==
  ASSUME NEW a \in Alphabet, NEW b \in Alphabet
  PROVE  << a >> \o << b >> = << a, b >>
<1> DEFINE s == << a >> \o << b >>
           t == << a, b >>
<1>1. s \in Seq(Alphabet) /\ Len(s) = 2 /\ s[1] = a /\ s[2] = b OBVIOUS
<1>2. t \in Seq(Alphabet) /\ Len(t) = 2 /\ t[1] = a /\ t[2] = b OBVIOUS
<1> HIDE DEF s, t
<1>3. \A i \in 1 .. 2 : s[i] = t[i] BY <1>1, <1>2
<1>4. s = t BY <1>1, <1>2, <1>3, SeqEqual
<1> QED BY <1>4 DEF s, t

\* Five, as the beginning of the line of a step.
LEMMA SpelledFive ==
  ASSUME NEW a \in Alphabet, NEW b \in Alphabet, NEW c \in Alphabet, NEW d \in Alphabet, NEW e \in Alphabet
  PROVE  << a, b, c >> \o << d >> \o << e >> = << a, b, c, d, e >>
<1> DEFINE s == << a, b, c >> \o << d >> \o << e >>
           t == << a, b, c, d, e >>
<1>1. s \in Seq(Alphabet) /\ Len(s) = 5 /\ s[1] = a /\ s[2] = b /\ s[3] = c /\ s[4] = d /\ s[5] = e
  OBVIOUS
<1>2. t \in Seq(Alphabet) /\ Len(t) = 5 /\ t[1] = a /\ t[2] = b /\ t[3] = c /\ t[4] = d /\ t[5] = e
  OBVIOUS
<1> HIDE DEF s, t
<1>3. \A i \in 1 .. 5 : s[i] = t[i] BY <1>1, <1>2
<1>4. s = t BY <1>1, <1>2, <1>3, SeqEqual
<1> QED BY <1>4 DEF s, t

\* And one more.
LEMMA SpelledSix ==
  ASSUME NEW a \in Alphabet, NEW b \in Alphabet, NEW c \in Alphabet,
         NEW d \in Alphabet, NEW e \in Alphabet, NEW f \in Alphabet
  PROVE  << a, b, c, d, e >> \o << f >> = << a, b, c, d, e, f >>
<1> DEFINE s == << a, b, c, d, e >> \o << f >>
           t == << a, b, c, d, e, f >>
<1>1. s \in Seq(Alphabet) /\ Len(s) = 6
      /\ s[1] = a /\ s[2] = b /\ s[3] = c /\ s[4] = d /\ s[5] = e /\ s[6] = f
  OBVIOUS
<1>2. t \in Seq(Alphabet) /\ Len(t) = 6
      /\ t[1] = a /\ t[2] = b /\ t[3] = c /\ t[4] = d /\ t[5] = e /\ t[6] = f
  OBVIOUS
<1> HIDE DEF s, t
<1>3. \A i \in 1 .. 6 : s[i] = t[i] BY <1>1, <1>2
<1>4. s = t BY <1>1, <1>2, <1>3, SeqEqual
<1> QED BY <1>4 DEF s, t

\* The helper's lines are those of its messages.
LEMMA EncodedAs ==
  /\ encodeVersionLine = LineOf(Announcement)
  /\ \A number \in Range(Numbers) : \A text :
       encodeStepLine(number, text) = LineOf(Message("Step", number, sanitizeProtocolText(text)))
  /\ \A text : encodeDetailLine(text) = LineOf(Message("Detail", "", sanitizeProtocolText(text)))
  /\ \A text : encodeFailureLine(text) = LineOf(Message("Failure", "", sanitizeProtocolText(text)))
  /\ \A text : encodeResultLine(text) = LineOf(Message("Result", "", sanitizeProtocolText(text)))
<1>1. encodeVersionLine = LineOf(Announcement)
  <2>1. Announcement.kind = "Version" /\ Announcement.text = << "plan" >>
    BY DEF Announcement, Message
  <2>2. HeadOf(Announcement) = << "version", Blank, "5" >> BY <2>1 DEF HeadOf
  <2>3. LineOf(Announcement) = << "version", Blank, "5" >> \o << Blank >> \o << "plan" >>
    BY <2>1, <2>2 DEF LineOf
  <2>4. << "version", Blank, "5" >> \o << Blank >> \o << "plan" >>
          = << "version", Blank, "5", Blank, "plan" >>
    <3>1. /\ "version" \in Alphabet /\ Blank \in Alphabet /\ "5" \in Alphabet
          /\ "plan" \in Alphabet
      BY DEF Alphabet
    <3> QED BY <3>1, SpelledFive
  <2> QED BY <2>3, <2>4 DEF encodeVersionLine
<1>2. ASSUME NEW number \in Range(Numbers), NEW text
      PROVE  encodeStepLine(number, text) = LineOf(Message("Step", number, sanitizeProtocolText(text)))
  <2> DEFINE m == Message("Step", number, sanitizeProtocolText(text))
  <2>1. m.kind = "Step" /\ m.number = number /\ m.text = sanitizeProtocolText(text) BY DEF Message
  <2> HIDE DEF m
  <2>2. HeadOf(m) = << "step", Blank, number, "/", Last(Numbers) >> BY <2>1 DEF HeadOf
  <2>3. << "step", Blank, number, "/", Last(Numbers) >> \o << Blank >>
          = << "step", Blank, number, "/", Last(Numbers), Blank >>
    <3> DEFINE last == Last(Numbers)
    <3>1. number \in Alphabet /\ last \in Alphabet BY NumbersAre
    <3>2. "step" \in Alphabet /\ "/" \in Alphabet /\ Blank \in Alphabet BY DEF Alphabet
    <3> HIDE DEF last
    <3>3. << "step", Blank, number, "/", last >> \o << Blank >>
            = << "step", Blank, number, "/", last, Blank >>
      BY <3>1, <3>2, SpelledSix
    <3> QED BY <3>3 DEF last
  <2> QED BY <2>1, <2>2, <2>3 DEF LineOf, encodeStepLine, m
<1>3. ASSUME NEW kind \in {"Detail", "Failure", "Result"}, NEW text
      PROVE  LineOf(Message(kind, "", text)) = << WordOf(kind), Blank >> \o text
  <2> DEFINE m == Message(kind, "", text)
  <2>1. m.kind = kind /\ m.text = text BY DEF Message
  <2> HIDE DEF m
  <2>2. HeadOf(m) = << WordOf(kind) >> BY <2>1 DEF HeadOf, WordOf
  <2>3. << WordOf(kind) >> \o << Blank >> = << WordOf(kind), Blank >>
    <3> DEFINE word == WordOf(kind)
    <3>1. word \in Alphabet /\ Blank \in Alphabet BY DEF WordOf, Alphabet
    <3> HIDE DEF word
    <3>2. << word >> \o << Blank >> = << word, Blank >> BY <3>1, SpelledTwo
    <3> QED BY <3>2 DEF word
  <2> QED BY <2>1, <2>2, <2>3 DEF LineOf, m
<1>4. WordOf("Detail") = "detail" /\ WordOf("Failure") = "failure" /\ WordOf("Result") = "result"
  BY DEF WordOf
<1> QED
  <2>1. \A text : encodeDetailLine(text) = LineOf(Message("Detail", "", sanitizeProtocolText(text)))
    BY <1>3, <1>4 DEF encodeDetailLine
  <2>2. \A text : encodeFailureLine(text) = LineOf(Message("Failure", "", sanitizeProtocolText(text)))
    BY <1>3, <1>4 DEF encodeFailureLine
  <2>3. \A text : encodeResultLine(text) = LineOf(Message("Result", "", sanitizeProtocolText(text)))
    BY <1>3, <1>4 DEF encodeResultLine
  <2> QED BY <1>1, <1>2, <2>1, <2>2, <2>3

\* The messages of a helper.
Sayings ==
  { m \in [kind : {"Version", "Step", "Detail", "Failure", "Result"},
           number : Alphabet \cup {""}, text : Characters] : Sayable(m) }

\* What its operations make of plain texts is one.
LEMMA SayingsAre ==
  /\ Announcement \in Sayings
  /\ \A number \in Range(Numbers) : \A text : Plain(text) => Message("Step", number, text) \in Sayings
  /\ \A kind \in {"Detail", "Failure", "Result"} : \A text :
       Plain(text) => Message(kind, "", text) \in Sayings
<1>1. Announcement \in Sayings
  <2>1. << "plan" >> \in Characters /\ "5" \in Alphabet
    <3>1. "plan" \in Alphabet /\ "5" \in Alphabet BY DEF Alphabet
    <3> QED BY <3>1 DEF Characters
  <2> QED BY <2>1 DEF Announcement, Message, Sayings, Sayable
<1>2. ASSUME NEW number \in Range(Numbers), NEW text, Plain(text)
      PROVE  Message("Step", number, text) \in Sayings
  <2>1. number \in Alphabet /\ text \in Characters BY <1>2, NumbersAre DEF Plain
  <2>2. Sayable(Message("Step", number, text)) BY <1>2, <2>1 DEF Sayable
  <2> QED BY <2>1, <2>2 DEF Message, Sayings
<1>3. ASSUME NEW kind \in {"Detail", "Failure", "Result"}, NEW text, Plain(text)
      PROVE  Message(kind, "", text) \in Sayings
  <2>1. text \in Characters /\ kind \in {"Detail"} \cup Verdicts BY <1>3 DEF Plain, Verdicts
  <2>2. Sayable(Message(kind, "", text)) BY <1>3, <2>1 DEF Sayable
  <2> QED BY <2>1, <2>2 DEF Message, Sayings
<1> QED BY <1>1, <1>2, <1>3

\* A line as writeLine writes it.
Ended(m) == LineOf(m) \o << NewLine >>

\* The messages as the pipe carries them.
Stream(messages) == FlattenSeq([k \in DOMAIN messages |-> Ended(messages[k])])

\* What is said later is written after what was said before.
LEMMA StreamIs ==
  /\ Stream(<< >>) = << >>
  /\ \A messages \in Seq(Sayings) : Stream(messages) \in Characters
  /\ \A m \in Sayings : Stream(<< m >>) = Ended(m)
  /\ \A first, second \in Seq(Sayings) : Stream(first \o second) = Stream(first) \o Stream(second)
<1> DEFINE lines(messages) == [k \in DOMAIN messages |-> Ended(messages[k])]
<1>1. \A m \in Sayings : Ended(m) \in Characters
  <2> TAKE m \in Sayings
  <2>1. LineOf(m) \in Characters BY LineIs DEF Sayings
  <2>2. NewLine \in Alphabet BY DEF Alphabet
  <2> QED BY <2>1, <2>2 DEF Ended, Characters
<1>2. \A messages \in Seq(Sayings) :
        lines(messages) \in Seq(Characters) /\ Len(lines(messages)) = Len(messages)
  <2> TAKE messages \in Seq(Sayings)
  <2>1. \A k \in DOMAIN messages : messages[k] \in Sayings OBVIOUS
  <2>2. DOMAIN messages = 1 .. Len(messages) /\ Len(messages) \in Nat OBVIOUS
  <2>3. \A k \in DOMAIN messages : Ended(messages[k]) \in Characters BY <1>1, <2>1
  <2> QED BY <2>2, <2>3
<1>3. Stream(<< >>) = << >>
  <2>1. lines(<< >>) = << >> OBVIOUS
  <2> QED BY <2>1, FlattenEmpty DEF Stream
<1>4. \A messages \in Seq(Sayings) : Stream(messages) \in Characters
  BY <1>2, FlattenTyped DEF Stream
<1>5. ASSUME NEW first \in Seq(Sayings), NEW second \in Seq(Sayings)
      PROVE  Stream(first \o second) = Stream(first) \o Stream(second)
  <2> DEFINE both == first \o second
             x == lines(first) \o lines(second)
  <2>1. both \in Seq(Sayings) OBVIOUS
  <2>2. lines(first) \in Seq(Characters) /\ lines(second) \in Seq(Characters)
        /\ lines(both) \in Seq(Characters)
    BY <1>2, <2>1
  <2>3. Len(lines(first)) = Len(first) /\ Len(lines(second)) = Len(second) /\ Len(lines(both)) = Len(both)
    BY <1>2, <2>1
  <2>4. /\ \A k \in 1 .. Len(first) : lines(first)[k] = Ended(first[k])
        /\ \A k \in 1 .. Len(second) : lines(second)[k] = Ended(second[k])
        /\ \A k \in 1 .. Len(both) : lines(both)[k] = Ended(both[k])
        /\ Len(first) \in Nat /\ Len(second) \in Nat
        /\ Len(both) = Len(first) + Len(second)
        /\ \A k \in 1 .. Len(both) :
             both[k] = IF k <= Len(first) THEN first[k] ELSE second[k - Len(first)]
    OBVIOUS
  <2> HIDE DEF lines, both
  <2>5. x \in Seq(Characters) /\ Len(x) = Len(both)
        /\ \A k \in 1 .. Len(both) :
             x[k] = IF k <= Len(first) THEN lines(first)[k] ELSE lines(second)[k - Len(first)]
    <3> DEFINE a == lines(first)
               b == lines(second)
    <3>1. a \in Seq(Characters) /\ b \in Seq(Characters) /\ Len(a) = Len(first) /\ Len(b) = Len(second)
      BY <2>2, <2>3
    <3> HIDE DEF a, b
    <3>2. /\ a \o b \in Seq(Characters) /\ Len(a \o b) = Len(a) + Len(b)
          /\ \A k \in 1 .. Len(a) + Len(b) :
               (a \o b)[k] = IF k <= Len(a) THEN a[k] ELSE b[k - Len(a)]
      BY <3>1, ConcatProperties
    <3> QED BY <2>4, <3>1, <3>2 DEF a, b
  <2> HIDE DEF x
  <2>6. \A k \in 1 .. Len(both) : x[k] = lines(both)[k]
    <3> TAKE k \in 1 .. Len(both)
    <3>1. CASE k <= Len(first) 
      <4>1. k \in 1 .. Len(first) BY <2>4, <3>1
      <4> QED BY <2>4, <2>5, <3>1, <4>1
    <3>2. CASE ~ (k <= Len(first))
      <4>1. k - Len(first) \in 1 .. Len(second) BY <2>4, <3>2
      <4> QED BY <2>4, <2>5, <3>2, <4>1
    <3> QED BY <3>1, <3>2
  <2>7. x = lines(both) BY <2>2, <2>3, <2>5, <2>6, SeqEqual
  <2>8. FlattenSeq(x) = FlattenSeq(lines(first)) \o FlattenSeq(lines(second))
    BY <2>2, FlattenConcat DEF x
  <2> QED BY <2>7, <2>8 DEF Stream, lines, both
<1>6. ASSUME NEW m \in Sayings PROVE Stream(<< m >>) = Ended(m)
  <2> DEFINE e == Ended(m)
  <2>1. lines(<< m >>) = << e >> OBVIOUS
  <2>2. e \in Characters BY <1>1
  <2> HIDE DEF e
  <2>3. << e >> = Append(<< >>, e) /\ << >> \in Seq(Characters) /\ << >> \o e = e
    BY <2>2 DEF Characters
  <2>4. FlattenSeq(<< e >>) = e BY <2>2, <2>3, FlattenAppend, FlattenEmpty
  <2> QED BY <2>1, <2>4 DEF Stream, e
<1> QED BY <1>3, <1>4, <1>5, <1>6

----------------------------------------------------------------------------
\* What is still to come, and what it does to the client.

\* What is still to come of the messages, after some.
Remaining(messages, k) == SubSeq(messages, k + 1, Len(messages))

\* What is to come begins with the next line, and ends with the last message.
LEMMA RemainingIs ==
  ASSUME NEW messages \in Seq(Sayings)
  PROVE  /\ Stream(Remaining(messages, Len(messages))) = << >>
         /\ \A k \in 0 .. Len(messages) : Stream(Remaining(messages, k)) \in Characters
         /\ \A k \in 0 .. Len(messages) - 1 :
              Stream(Remaining(messages, k)) =
                Ended(messages[k + 1]) \o Stream(Remaining(messages, k + 1))
<1>1. Len(messages) \in Nat OBVIOUS
<1>2. \A k \in 0 .. Len(messages) : Remaining(messages, k) \in Seq(Sayings)
  BY <1>1 DEF Remaining
<1>3. Remaining(messages, Len(messages)) = << >> BY <1>1 DEF Remaining
<1>4. ASSUME NEW k \in 0 .. Len(messages) - 1
      PROVE  Stream(Remaining(messages, k)) =
               Ended(messages[k + 1]) \o Stream(Remaining(messages, k + 1))
  <2> DEFINE m == messages[k + 1]
             r == Remaining(messages, k + 1)
  <2>1. k + 1 \in 1 .. Len(messages) /\ k + 1 \in 0 .. Len(messages) BY <1>1
  <2>2. m \in Sayings /\ << m >> \in Seq(Sayings) BY <2>1
  <2>3. r \in Seq(Sayings) BY <1>2, <2>1
  <2>4. Remaining(messages, k) = << m >> \o r
    <3> DEFINE n == Len(messages)
               a == Remaining(messages, k)
               b == << m >> \o r
    <3>1. a \in Seq(Sayings) /\ Len(a) = n - k /\ \A i \in 1 .. n - k : a[i] = messages[k + i]
      BY <1>1 DEF Remaining
    <3>2. Len(r) = n - k - 1 /\ \A i \in 1 .. n - k - 1 : r[i] = messages[k + 1 + i]
      BY <1>1, <2>1 DEF Remaining
    <3> HIDE DEF r, m
    <3>3. b \in Seq(Sayings) /\ Len(b) = 1 + Len(r) /\ b[1] = m
          /\ \A i \in 2 .. 1 + Len(r) : b[i] = r[i - 1]
      BY <2>2, <2>3
    <3> HIDE DEF a, b, n
    <3>4. \A i \in 1 .. n - k : a[i] = b[i]
      <4> TAKE i \in 1 .. n - k
      <4>0. n \in Nat /\ k \in Nat BY <1>1 DEF n
      <4>1. CASE i = 1 BY <3>1, <3>3, <4>1 DEF m
      <4>2. CASE i # 1
        <5>1. i - 1 \in 1 .. n - k - 1 /\ k + 1 + (i - 1) = k + i /\ i \in 2 .. 1 + Len(r)
          BY <3>2, <4>0, <4>2
        <5> QED BY <3>1, <3>2, <3>3, <5>1
      <4> QED BY <4>1, <4>2
    <3>5. Len(a) = Len(b) BY <1>1, <3>1, <3>2, <3>3 DEF n
    <3> QED BY <3>1, <3>3, <3>4, <3>5, SeqEqual DEF a, b
  <2> HIDE DEF m, r
  <2>5. Stream(<< m >> \o r) = Stream(<< m >>) \o Stream(r) BY <2>2, <2>3, StreamIs
  <2>6. Stream(<< m >>) = Ended(m) BY <2>2, StreamIs
  <2> QED BY <2>4, <2>5, <2>6 DEF m, r
<1> QED BY <1>1, <1>2, <1>3, <1>4, StreamIs

\* No line break in it.
Unbroken(text) == \A i \in 1 .. Len(text) : text[i] # NewLine

\* What has no line break is the beginning of the first line.
LEMMA FirstLine ==
  ASSUME NEW part \in Characters, NEW after \in Characters, NEW line \in Characters,
         NEW others \in Characters,
         Unbroken(part), Unbroken(line),
         part \o after = (line \o << NewLine >>) \o others
  PROVE  /\ Len(part) <= Len(line) /\ \A i \in 1 .. Len(part) : part[i] = line[i]
         /\ after # << >>
         /\ after[1] = NewLine => part = line /\ SubSeq(after, 2, Len(after)) = others
<1> DEFINE whole == part \o after
           p == Len(part)
           n == Len(line)
<1>1. NewLine \in Alphabet BY DEF Alphabet
<1>2. /\ p \in Nat /\ n \in Nat /\ Len(after) \in Nat /\ Len(others) \in Nat
      /\ Len(whole) = p + Len(after)
      /\ \A i \in 1 .. p : whole[i] = part[i]
      /\ \A i \in 1 .. Len(after) : whole[p + i] = after[i]
  <2>1. part \in Seq(Alphabet) /\ after \in Seq(Alphabet) /\ line \in Seq(Alphabet)
        /\ others \in Seq(Alphabet)
    BY DEF Characters
  <2> DEFINE w == part \o after
  <2>2. /\ Len(w) = p + Len(after)
        /\ \A i \in 1 .. p : w[i] = part[i]
        /\ \A i \in 1 .. Len(after) : w[p + i] = after[i]
    <3>1. Len(w) = p + Len(after) /\ \A i \in 1 .. p + Len(after) :
                                      w[i] = IF i <= p THEN part[i] ELSE after[i - p]
      BY <2>1, ConcatProperties
    <3>2. p \in Nat /\ Len(after) \in Nat BY <2>1
    <3> HIDE DEF w, p
    <3>3. \A i \in 1 .. p : i \in 1 .. p + Len(after) /\ i <= p BY <3>2
    <3>4. \A i \in 1 .. Len(after) :
            p + i \in 1 .. p + Len(after) /\ ~ (p + i <= p) /\ (p + i) - p = i
      BY <3>2
    <3> QED BY <3>1, <3>3, <3>4
  <2>3. p \in Nat /\ n \in Nat /\ Len(after) \in Nat /\ Len(others) \in Nat BY <2>1
  <2>4. whole = w OBVIOUS
  <2> HIDE DEF w, whole, p, n
  <2> QED BY <2>2, <2>3, <2>4
<1>3. /\ Len(whole) = n + 1 + Len(others)
      /\ \A i \in 1 .. n : whole[i] = line[i]
      /\ whole[n + 1] = NewLine
      /\ \A i \in 1 .. Len(others) : whole[n + 1 + i] = others[i]
  <2> DEFINE w == (line \o << NewLine >>) \o others
  <2>1. /\ Len(w) = n + 1 + Len(others)
        /\ \A i \in 1 .. n : w[i] = line[i]
        /\ w[n + 1] = NewLine
        /\ \A i \in 1 .. Len(others) : w[n + 1 + i] = others[i]
    BY <1>1 DEF Characters
  <2>2. whole = w OBVIOUS
  <2> HIDE DEF w, whole
  <2> QED BY <2>1, <2>2
<1> HIDE DEF whole, p, n
<1>4. p <= n
  <2> SUFFICES ASSUME n < p PROVE FALSE BY <1>2
  <2>1. n + 1 \in 1 .. p BY <1>2
  <2>2. part[n + 1] = NewLine BY <1>2, <1>3, <2>1
  <2> QED BY <2>1, <2>2 DEF p, Unbroken
<1>5. \A i \in 1 .. p : part[i] = line[i]
  <2> TAKE i \in 1 .. p
  <2>1. i \in 1 .. n BY <1>2, <1>4
  <2> QED BY <1>2, <1>3, <2>1
<1>6. Len(after) > 0 BY <1>2, <1>3, <1>4
<1>7. after # << >> BY <1>6
<1>8. ASSUME after[1] = NewLine PROVE part = line /\ SubSeq(after, 2, Len(after)) = others
  <2>1. whole[p + 1] = NewLine BY <1>2, <1>6, <1>8
  <2>2. p = n
    <3> SUFFICES ASSUME p # n PROVE FALSE OBVIOUS
    <3>1. p + 1 \in 1 .. n BY <1>2, <1>4
    <3>2. line[p + 1] = NewLine BY <1>3, <2>1, <3>1
    <3> QED BY <3>1, <3>2 DEF n, Unbroken
  <2>3. part = line BY <1>5, <2>2, SeqEqual DEF p, n, Characters
  <2> DEFINE rest == SubSeq(after, 2, Len(after))
  <2>4. Len(after) = 1 + Len(others) BY <1>2, <1>3, <2>2
  <2>5. rest \in Seq(Alphabet) /\ Len(rest) = Len(after) - 1
        /\ \A i \in 1 .. Len(after) - 1 : rest[i] = after[1 + i]
    BY <1>2, <1>6 DEF Characters
  <2> HIDE DEF rest
  <2>6. \A i \in 1 .. Len(others) : rest[i] = others[i]
    <3> TAKE i \in 1 .. Len(others)
    <3>1. i \in 1 .. Len(after) - 1 /\ 1 + i \in 1 .. Len(after) /\ p + (1 + i) = n + 1 + i
      BY <1>2, <2>2, <2>4
    <3>2. whole[p + (1 + i)] = after[1 + i] BY <1>2, <3>1
    <3> QED BY <1>3, <2>5, <3>1, <3>2
  <2>7. Len(rest) = Len(others) BY <1>2, <2>4, <2>5
  <2>8. rest = others BY <2>5, <2>6, <2>7, SeqEqual DEF Characters
  <2> QED BY <2>3, <2>8 DEF rest
<1> QED BY <1>4, <1>5, <1>7, <1>8 DEF p, n

\* consume takes one line after the other.
LEMMA ListenIs ==
  ASSUME NEW state, NEW lines, Len(lines) \in Nat
  PROVE  \E after : /\ after[0] = state
                    /\ \A k \in 1 .. Len(lines) : after[k] = Consume(after[k - 1], lines[k])
                    /\ Listen(state, lines) = after[Len(lines)]
<1> DEFINE n == Len(lines)
           F(m, g) == g = [k \in 0 .. m |-> IF k = 0 THEN state ELSE Consume(g[k - 1], lines[k])]
           E == { m \in 0 .. n : \E g : F(m, g) }
           w == CHOOSE g : F(n, g)
<1>1. n \in Nat OBVIOUS
<1>2. 0 \in E
  <2> DEFINE g == [k \in 0 .. 0 |-> state]
  <2>1. g = [k \in 0 .. 0 |-> IF k = 0 THEN state ELSE Consume(g[k - 1], lines[k])] OBVIOUS
  <2> HIDE DEF g
  <2> QED BY <1>1, <2>1
<1>3. ASSUME NEW m \in 0 .. n - 1, m \in E PROVE m + 1 \in E
  <2>1. PICK g : F(m, g) BY <1>3
  <2>2. \A k \in 0 .. m : g[k] = IF k = 0 THEN state ELSE Consume(g[k - 1], lines[k])
    BY <2>1
  <2> DEFINE h == [k \in 0 .. m + 1 |-> IF k <= m THEN g[k] ELSE Consume(g[m], lines[m + 1])]
             f == [k \in 0 .. m + 1 |-> IF k = 0 THEN state ELSE Consume(h[k - 1], lines[k])]
  <2>3. \A k \in 0 .. m + 1 : h[k] = IF k = 0 THEN state ELSE Consume(h[k - 1], lines[k])
    <3> TAKE k \in 0 .. m + 1
    <3>1. CASE k = 0 BY <1>1, <2>2, <3>1
    <3>2. CASE k \in 1 .. m
      <4>1. h[k] = g[k] /\ h[k - 1] = g[k - 1] /\ k # 0 BY <3>2
      <4> QED BY <2>2, <3>2, <4>1
    <3>3. CASE k = m + 1
      <4>1. h[k] = Consume(g[m], lines[m + 1]) /\ h[k - 1] = g[m] /\ k # 0 BY <3>3
      <4> QED BY <3>3, <4>1
    <3> QED BY <3>1, <3>2, <3>3
  <2>4. h = f BY <2>3
  <2>5. F(m + 1, h) BY <2>4
  <2> HIDE DEF h, f, F
  <2>6. m + 1 \in 0 .. n BY <1>1
  <2> QED BY <2>5, <2>6
<1> HIDE DEF E
<1>4. \A m \in 0 .. n : m \in E BY <1>1, <1>2, <1>3, UpTo
<1>5. F(n, w)
  <2> HIDE DEF F
  <2>1. n \in E BY <1>1, <1>4
  <2> QED BY <2>1 DEF E
<1>6. Listen(state, lines) = w[n] BY DEF Listen
<1> HIDE DEF w
<1>7. \A k \in 0 .. n : w[k] = IF k = 0 THEN state ELSE Consume(w[k - 1], lines[k]) BY <1>5
<1>8. w[0] = state /\ \A k \in 1 .. n : w[k] = Consume(w[k - 1], lines[k]) BY <1>1, <1>7
<1> QED BY <1>6, <1>8

\* consume without a line changes nothing.
LEMMA ListenEmpty ==
  ASSUME NEW state
  PROVE  Listen(state, << >>) = state
<1>1. Len(<< >>) = 0 /\ Len(<< >>) \in Nat OBVIOUS
<1> QED BY <1>1, ListenIs

\* consume takes one line more after the others.
LEMMA ListenOne ==
  ASSUME NEW state, NEW lines \in Seq(Characters), NEW line \in Characters
  PROVE  Listen(state, Append(lines, line)) = Consume(Listen(state, lines), line)
<1> DEFINE all == Append(lines, line)
           n == Len(lines)
<1>1. /\ all \in Seq(Characters) /\ n \in Nat /\ Len(all) = n + 1 /\ Len(all) \in Nat
      /\ \A i \in 1 .. n : all[i] = lines[i]
      /\ all[n + 1] = line
  OBVIOUS
<1> HIDE DEF all
<1>2. PICK g : /\ g[0] = state
               /\ \A k \in 1 .. n : g[k] = Consume(g[k - 1], lines[k])
               /\ Listen(state, lines) = g[n]
  <2>1. Len(lines) \in Nat BY <1>1
  <2> HIDE DEF n
  <2>2. \E g : /\ g[0] = state
               /\ \A k \in 1 .. Len(lines) : g[k] = Consume(g[k - 1], lines[k])
               /\ Listen(state, lines) = g[Len(lines)]
    BY <2>1, ListenIs
  <2> QED BY <2>2 DEF n
<1>3. PICK h : /\ h[0] = state
               /\ \A k \in 1 .. n + 1 : h[k] = Consume(h[k - 1], all[k])
               /\ Listen(state, all) = h[n + 1]
  BY <1>1, ListenIs
<1> DEFINE E == { k \in 0 .. n : g[k] = h[k] }
<1> HIDE DEF n
<1>4. 0 \in E BY <1>1, <1>2, <1>3
<1>5. ASSUME NEW k \in 0 .. n - 1, k \in E PROVE k + 1 \in E
  <2>1. k + 1 \in 1 .. n /\ k + 1 \in 1 .. n + 1 /\ k + 1 \in 0 .. n /\ (k + 1) - 1 = k BY <1>1
  <2>2. g[k] = h[k] BY <1>5
  <2>3. g[k + 1] = Consume(g[k], lines[k + 1]) BY <1>2, <2>1
  <2>4. h[k + 1] = Consume(h[k], all[k + 1]) BY <1>3, <2>1
  <2>5. all[k + 1] = lines[k + 1] BY <1>1, <2>1
  <2> QED BY <2>1, <2>2, <2>3, <2>4, <2>5
<1> HIDE DEF E
<1>6. \A k \in 0 .. n : k \in E BY <1>1, <1>4, <1>5, UpTo
<1>7. g[n] = h[n] BY <1>1, <1>6 DEF E
<1>8. n + 1 \in 1 .. n + 1 /\ (n + 1) - 1 = n BY <1>1
<1>9. h[n + 1] = Consume(h[n], line) BY <1>1, <1>3, <1>8
<1> QED BY <1>2, <1>3, <1>7, <1>9 DEF all

\* The announcement comes first and a verdict last.
Sensible(messages) ==
  /\ messages \in Seq(Sayings)
  /\ \A j \in 1 .. Len(messages) : messages[j].kind = "Version" <=> j = 1
  /\ \A j \in 1 .. Len(messages) - 1 : messages[j].kind \notin Verdicts

\* The text of the last of the messages, if it is of this kind.
TextOf(kind, messages, k) ==
  IF k > 0 /\ messages[k].kind = kind THEN messages[k].text ELSE << >>

\* What the client knows after the first messages.
Hearing(messages, k) ==
  Known(SubSeq(messages, 1, k), k > 0, TextOf("Failure", messages, k), TextOf("Result", messages, k))

\* The client makes of the next message's line what it should.
LEMMA HeardNext ==
  ASSUME NEW messages, Sensible(messages), NEW k \in 0 .. Len(messages) - 1
  PROVE  Consume(Hearing(messages, k), LineOf(messages[k + 1])) = Hearing(messages, k + 1)
<1> DEFINE m == messages[k + 1]
           line == LineOf(m)
           state == Hearing(messages, k)
           next == Hearing(messages, k + 1)
<1>1. messages \in Seq(Sayings) /\ Len(messages) \in Nat /\ k + 1 \in 1 .. Len(messages) /\ k \in Nat
  BY DEF Sensible
<1>2. m \in Sayings BY <1>1
<1>3. Sayable(m)
  <2> HIDE DEF m
  <2> QED BY <1>2 DEF Sayings
<1>4. Trimmed(line) # << >> /\ parseProtocolLine(line) = m BY <1>3, LineRead
<1>5. SubSeq(messages, 1, k + 1) = Append(SubSeq(messages, 1, k), m)
  BY <1>1
<1>6. k > 0 => messages[k].kind \notin Verdicts
  <2>1. k > 0 => k \in 1 .. Len(messages) - 1 BY <1>1
  <2> QED BY <2>1 DEF Sensible
<1>7. TextOf("Failure", messages, k) = << >> /\ TextOf("Result", messages, k) = << >>
  BY <1>6 DEF TextOf, Verdicts
<1>8. m.kind = "Version" <=> k = 0
  <2>1. messages[k + 1].kind = "Version" <=> k + 1 = 1 BY <1>1 DEF Sensible
  <2> QED BY <1>1, <2>1
<1>9. m.kind = "Version" => Accepts(m)
  <2>1. m.kind = "Version" => m = Announcement BY <1>3, TextIs
  <2> HIDE DEF m
  <2> QED BY <2>1 DEF Accepts, Announcement, Message
<1>10. next = Known(Append(SubSeq(messages, 1, k), m), TRUE,
                    IF m.kind = "Failure" THEN m.text ELSE << >>,
                    IF m.kind = "Result" THEN m.text ELSE << >>)
  <2>1. (k + 1 > 0) = TRUE BY <1>1
  <2>2. /\ TextOf("Failure", messages, k + 1) = IF m.kind = "Failure" THEN m.text ELSE << >>
        /\ TextOf("Result", messages, k + 1) = IF m.kind = "Result" THEN m.text ELSE << >>
    BY <2>1 DEF TextOf
  <2> HIDE DEF m
  <2> QED BY <1>5, <2>1, <2>2 DEF Hearing
<1>11. /\ state.messages = SubSeq(messages, 1, k) /\ (state.accepted <=> k > 0)
       /\ state.displayFailure = << >> /\ state.location = << >>
  BY <1>7 DEF Hearing, Known
<1> HIDE DEF state, next, line, m
<1> DEFINE accepted == IF m.kind = "Version" THEN Accepts(m) ELSE state.accepted
           failure == IF m.kind = "Failure" /\ state.accepted /\ state.displayFailure = << >>
                      THEN m.text ELSE state.displayFailure
           location == IF m.kind = "Result" THEN m.text ELSE state.location
<1>12. Consume(state, line) = Known(Append(state.messages, m), accepted, failure, location)
  BY <1>4 DEF Consume
<1>13. accepted = TRUE
  <2>1. m.kind = "Version" => Accepts(m) = TRUE BY <1>9 DEF Accepts
  <2>2. state.accepted = (k > 0) BY DEF state, Hearing, Known
  <2>3. k # 0 => (k > 0) = TRUE
    <3>1. k # 0 => k > 0 BY <1>1
    <3> QED BY <3>1
  <2>4. m.kind # "Version" => state.accepted = TRUE BY <1>8, <2>2, <2>3
  <2> QED BY <2>1, <2>4
<1>14. failure = IF m.kind = "Failure" THEN m.text ELSE << >>
  <2>1. m.kind = "Failure" => k > 0 BY <1>1, <1>8
  <2> QED BY <1>11, <2>1
<1>15. location = IF m.kind = "Result" THEN m.text ELSE << >> BY <1>11
<1> HIDE DEF accepted, failure, location
<1>16. Consume(state, line) =
         Known(Append(SubSeq(messages, 1, k), m), TRUE,
               IF m.kind = "Failure" THEN m.text ELSE << >>,
               IF m.kind = "Result" THEN m.text ELSE << >>)
  BY <1>11, <1>12, <1>13, <1>14, <1>15
<1>17. Consume(state, line) = next BY <1>10, <1>16
<1> QED BY <1>17 DEF state, next, line, m

\* Whatever it reads is one message more, with the others untouched.
LEMMA HeardPart ==
  ASSUME NEW messages, NEW k, NEW line, Trimmed(line) # << >>
  PROVE  Consume(Hearing(messages, k), line).messages =
           Append(SubSeq(messages, 1, k), parseProtocolLine(line))
<1>1. Hearing(messages, k).messages = SubSeq(messages, 1, k) BY DEF Hearing, Known
<1>2. Consume(Hearing(messages, k), line).messages =
        Append(Hearing(messages, k).messages, parseProtocolLine(line))
  BY DEF Consume, Known
<1> QED BY <1>1, <1>2

\* An empty line is none.
LEMMA HeardNothing ==
  ASSUME NEW state
  PROVE  Consume(state, Coded(<< >>)) = state
<1>1. Coded(<< >>) = << >>
  <2>1. << >> \in Characters /\ Paired(<< >>) BY DEF Characters, Paired
  <2> QED BY <2>1, CodedPaired
<1>2. Trimmed(<< >>) = << >>
  <2>1. { i \in DOMAIN << >> : << >>[i] \notin Separators } = {} OBVIOUS
  <2> QED BY <2>1 DEF Trimmed
<1> QED BY <1>1, <1>2 DEF Consume

\* The client has heard the first of the messages; what it keeps and what is to come
\* are the rest.
Reads(messages, state, part, after) ==
  \E k \in 0 .. Len(messages) :
    /\ state = Hearing(messages, k)
    /\ part \in Characters /\ Unbroken(part)
    /\ part \o after = Stream(Remaining(messages, k))

\* So what it keeps is nothing, or the beginning of the next line.
LEMMA PartOfNext ==
  ASSUME NEW messages, Sensible(messages), NEW part \in Characters, NEW after \in Characters,
         NEW k \in 0 .. Len(messages),
         Unbroken(part),
         part \o after = Stream(Remaining(messages, k)),
         part \o after # << >>
  PROVE  /\ k < Len(messages)
         /\ Len(part) <= Len(LineOf(messages[k + 1]))
         /\ \A i \in 1 .. Len(part) : part[i] = LineOf(messages[k + 1])[i]
         /\ after # << >>
         /\ after[1] = NewLine => /\ part = LineOf(messages[k + 1])
                                  /\ SubSeq(after, 2, Len(after)) = Stream(Remaining(messages, k + 1))
<1>1. messages \in Seq(Sayings) /\ Len(messages) \in Nat BY DEF Sensible
<1>2. k # Len(messages) BY <1>1, RemainingIs
<1>3. k \in 0 .. Len(messages) - 1 /\ k + 1 \in 1 .. Len(messages) /\ k + 1 \in 0 .. Len(messages)
  BY <1>1, <1>2
<1> DEFINE m == messages[k + 1]
           others == Stream(Remaining(messages, k + 1))
<1>4. Sayable(m)
  <2>1. m \in Sayings BY <1>1, <1>3
  <2> HIDE DEF m
  <2> QED BY <2>1 DEF Sayings
<1>5. LineOf(m) \in Characters /\ Unbroken(LineOf(m)) BY <1>4, LineIs DEF Unbroken
<1>6. others \in Characters BY <1>1, <1>3, RemainingIs
<1>7. Stream(Remaining(messages, k)) = (LineOf(m) \o << NewLine >>) \o others
  BY <1>1, <1>3, RemainingIs DEF Ended
<1> DEFINE line == LineOf(m)
<1> HIDE DEF m, others
<1>8. /\ Len(part) <= Len(LineOf(m)) /\ \A i \in 1 .. Len(part) : part[i] = LineOf(m)[i]
      /\ after # << >>
      /\ after[1] = NewLine => part = LineOf(m) /\ SubSeq(after, 2, Len(after)) = others
  <2>1. part \o after = (line \o << NewLine >>) \o others BY <1>7
  <2>2. line \in Characters /\ Unbroken(line) BY <1>5
  <2> HIDE DEF line
  <2>3. /\ Len(part) <= Len(line) /\ \A i \in 1 .. Len(part) : part[i] = line[i]
        /\ after # << >>
        /\ after[1] = NewLine => part = line /\ SubSeq(after, 2, Len(after)) = others
    BY <1>6, <2>1, <2>2, FirstLine, ZenonT(60)
  <2> QED BY <2>3 DEF line
<1> QED BY <1>1, <1>3, <1>8 DEF m, others

\* One more character belongs to the line, or completes it.
LEMMA OneCharacter ==
  ASSUME NEW messages, Sensible(messages), NEW state, NEW part, NEW character \in Alphabet,
         NEW after \in Characters, Reads(messages, state, part, << character >> \o after)
  PROVE  /\ part \in Characters
         /\ character # NewLine => Reads(messages, state, Append(part, character), after)
         /\ character = NewLine => Reads(messages, Consume(state, Coded(part)), << >>, after)
<1> DEFINE rest == << character >> \o after
<1>1. PICK k \in 0 .. Len(messages) :
        /\ state = Hearing(messages, k)
        /\ part \in Characters /\ Unbroken(part)
        /\ part \o rest = Stream(Remaining(messages, k))
  BY DEF Reads
<1>2. /\ rest \in Characters /\ rest[1] = character
      /\ SubSeq(rest, 2, Len(rest)) = after
  <2>1. rest \in Seq(Alphabet) /\ Len(rest) = 1 + Len(after) /\ rest[1] = character
        /\ Len(after) \in Nat /\ \A i \in 1 .. Len(after) : rest[1 + i] = after[i]
    BY DEF Characters
  <2> HIDE DEF rest
  <2> DEFINE tail == SubSeq(rest, 2, Len(rest))
  <2>2. tail \in Seq(Alphabet) /\ Len(tail) = Len(after) /\ \A i \in 1 .. Len(after) : tail[i] = rest[1 + i]
    BY <2>1
  <2> HIDE DEF tail
  <2>3. tail = after BY <2>1, <2>2, SeqEqual DEF Characters
  <2> QED BY <2>1, <2>3 DEF tail, Characters
<1>3. part \o rest # << >>
  <2>1. rest # << >> /\ rest \in Seq(Alphabet) /\ part \in Seq(Alphabet)
    BY <1>1, <1>2 DEF Characters
  <2> HIDE DEF rest
  <2> QED BY <2>1, ConcatEqualIffEmpty
<1>4. ASSUME character # NewLine PROVE Reads(messages, state, Append(part, character), after)
  <2>1. Append(part, character) \in Characters /\ Unbroken(Append(part, character))
    BY <1>1, <1>4 DEF Characters, Unbroken
  <2>2. Append(part, character) \o after = part \o rest
    <3>1. << character >> \in Characters BY DEF Characters
    <3>2. Append(part, character) = part \o << character >> BY <1>1 DEF Characters
    <3>3. (part \o << character >>) \o after = part \o (<< character >> \o after)
      BY <1>1, <3>1, Associative
    <3> QED BY <3>2, <3>3
  <2> QED BY <1>1, <2>1, <2>2 DEF Reads
<1>5. ASSUME character = NewLine PROVE Reads(messages, Consume(state, Coded(part)), << >>, after)
  <2> HIDE DEF rest
  <2>1. /\ k < Len(messages)
        /\ part = LineOf(messages[k + 1])
        /\ SubSeq(rest, 2, Len(rest)) = Stream(Remaining(messages, k + 1))
    <3>1. rest \in Characters /\ rest[1] = NewLine BY <1>2, <1>5
    <3>2. part \in Characters /\ Unbroken(part) /\ part \o rest = Stream(Remaining(messages, k))
          /\ part \o rest # << >>
      BY <1>1, <1>3
    <3>3. /\ k < Len(messages)
          /\ rest[1] = NewLine => /\ part = LineOf(messages[k + 1])
                                  /\ SubSeq(rest, 2, Len(rest)) = Stream(Remaining(messages, k + 1))
      BY <3>1, <3>2, PartOfNext
    <3> QED BY <3>1, <3>3
  <2>2. messages \in Seq(Sayings) /\ Len(messages) \in Nat BY DEF Sensible
  <2>3. k \in 0 .. Len(messages) - 1 /\ k + 1 \in 0 .. Len(messages) /\ k + 1 \in 1 .. Len(messages)
    BY <2>1, <2>2
  <2>4. Coded(part) = part
    <3> DEFINE m == messages[k + 1]
    <3>1. m \in Sayings BY <2>2, <2>3
    <3> HIDE DEF m
    <3>2. Paired(LineOf(m)) BY <3>1, LineIs DEF Sayings
    <3> QED BY <1>1, <2>1, <3>2, CodedPaired DEF m
  <2>5. Consume(state, Coded(part)) = Hearing(messages, k + 1)
    BY <1>1, <2>1, <2>3, <2>4, HeardNext
  <2>6. << >> \in Characters /\ Unbroken(<< >>) BY DEF Characters, Unbroken
  <2>7. << >> \o after = after BY DEF Characters
  <2> QED BY <1>2, <2>1, <2>3, <2>5, <2>6, <2>7 DEF Reads
<1> QED BY <1>1, <1>4, <1>5

\* What is kept of a line is never too long.
LEMMA NeverFlooded ==
  ASSUME NEW messages, Sensible(messages), NEW state, NEW part, NEW after \in Characters,
         Reads(messages, state, part, after)
  PROVE  part \in Characters /\ ~ (Len(part) > MaxBufferedBytes)
<1>1. PICK k \in 0 .. Len(messages) :
        /\ part \in Characters /\ Unbroken(part)
        /\ part \o after = Stream(Remaining(messages, k))
  BY DEF Reads
<1>2. Len(part) \in Nat /\ MaxBufferedBytes \in Nat BY <1>1, ProtocolAssumption DEF Characters
<1>3. CASE part \o after = << >>
  <2>1. part = << >> BY <1>1, <1>3, ConcatEqualIffEmpty DEF Characters
  <2>2. Len(part) = 0 BY <2>1
  <2> QED BY <1>1, <1>2, <2>2
<1>4. CASE part \o after # << >>
  <2>1. k < Len(messages) /\ Len(part) <= Len(LineOf(messages[k + 1]))
    BY <1>1, <1>4, PartOfNext
  <2> DEFINE m == messages[k + 1]
  <2>2. m \in Sayings
    <3>1. messages \in Seq(Sayings) BY DEF Sensible
    <3> QED BY <2>1, <3>1
  <2> HIDE DEF m
  <2>3. Len(LineOf(m)) <= MaxBufferedBytes /\ Len(LineOf(m)) \in Nat
    <3>1. Sayable(m) BY <2>2 DEF Sayings
    <3>2. LineOf(m) \in Characters BY <3>1, LineIs
    <3> QED BY <3>1, <3>2, LineIs DEF Characters
  <2>4. Len(part) <= Len(LineOf(m)) BY <2>1 DEF m
  <2> QED BY <1>1, <1>2, <2>3, <2>4
<1> QED BY <1>3, <1>4

\* UTF-8, line by line.
CodedLines(lines) == [k \in DOMAIN lines |-> Coded(lines[k])]

\* It keeps the lines and their order.
LEMMA CodedLinesAre ==
  ASSUME NEW lines \in Seq(Characters)
  PROVE  /\ CodedLines(lines) \in Seq(Characters)
         /\ \A line \in Characters :
              CodedLines(Append(lines, line)) = Append(CodedLines(lines), Coded(line))
<1>1. ASSUME NEW texts \in Seq(Characters)
      PROVE  /\ CodedLines(texts) \in Seq(Characters) /\ Len(CodedLines(texts)) = Len(texts)
             /\ \A k \in 1 .. Len(texts) : CodedLines(texts)[k] = Coded(texts[k])
  <2>1. DOMAIN texts = 1 .. Len(texts) /\ Len(texts) \in Nat OBVIOUS
  <2>2. \A k \in 1 .. Len(texts) : texts[k] \in Characters OBVIOUS
  <2>3. \A k \in 1 .. Len(texts) : Coded(texts[k]) \in Characters BY <2>2, CodedTyped
  <2>4. CodedLines(texts) = [k \in 1 .. Len(texts) |-> Coded(texts[k])] BY <2>1 DEF CodedLines
  <2> QED BY <2>1, <2>3, <2>4
<1>2. ASSUME NEW line \in Characters
      PROVE  CodedLines(Append(lines, line)) = Append(CodedLines(lines), Coded(line))
  <2> DEFINE all == Append(lines, line)
             a == CodedLines(all)
             c == CodedLines(lines)
             l == Coded(line)
             b == Append(c, l)
             n == Len(lines)
  <2>1. /\ all \in Seq(Characters) /\ Len(all) = n + 1 /\ n \in Nat
        /\ all[n + 1] = line /\ \A k \in 1 .. n : all[k] = lines[k]
    OBVIOUS
  <2> HIDE DEF all
  <2>2. a \in Seq(Characters) /\ Len(a) = n + 1 /\ \A k \in 1 .. n + 1 : a[k] = Coded(all[k])
    BY <1>1, <2>1
  <2>3. c \in Seq(Characters) /\ Len(c) = n /\ \A k \in 1 .. n : c[k] = Coded(lines[k])
    BY <1>1
  <2>4. l \in Characters BY CodedTyped
  <2> HIDE DEF a, c, l, n
  <2>5. b \in Seq(Characters) /\ Len(b) = n + 1 /\ b[n + 1] = l /\ \A k \in 1 .. n : b[k] = c[k]
    BY <2>1, <2>3, <2>4
  <2> HIDE DEF b
  <2>6. \A k \in 1 .. n + 1 : a[k] = b[k]
    <3> TAKE k \in 1 .. n + 1
    <3>1. CASE k = n + 1
      <4>1. a[k] = l BY <2>1, <2>2, <3>1 DEF l
      <4> QED BY <2>5, <3>1, <4>1
    <3>2. CASE k \in 1 .. n BY <2>1, <2>2, <2>3, <2>5, <3>2
    <3> QED BY <2>1, <3>1, <3>2
  <2> QED BY <2>2, <2>5, <2>6, SeqEqual DEF a, b, c, l, all
<1> QED BY <1>1, <1>2

\* However much arrives at a time.
THEOREM Reading ==
  ASSUME NEW messages, Sensible(messages), NEW state, NEW part, NEW chunk \in Characters,
         NEW after \in Characters, Reads(messages, state, part, chunk \o after)
  PROVE  /\ KeepUnfinished(part \o chunk) \in Characters
         /\ takeCompleteLines(part \o chunk) \in Seq(Characters)
         /\ Reads(messages, Listen(state, takeCompleteLines(part \o chunk)),
                  KeepUnfinished(part \o chunk), after)
<1> DEFINE text == part \o chunk
           n == Len(text)
           w == Cut(text)
           left(i) == SubSeq(text, i + 1, n) \o after
           E == { i \in 0 .. n : Reads(messages, Listen(state, CodedLines(w[i].lines)), w[i].rest, left(i)) }
<1>1. part \in Characters BY DEF Reads
<1>2. text \in Characters BY <1>1 DEF Characters
<1>3. Reads(messages, state, << >>, text \o after)
  <2>1. (part \o chunk) \o after = part \o (chunk \o after) BY <1>1, Associative
  <2>2. text \o after \in Characters BY <1>2 DEF Characters
  <2>3. << >> \o (text \o after) = text \o after BY <2>2 DEF Characters
  <2>4. << >> \in Characters /\ Unbroken(<< >>) BY DEF Characters, Unbroken
  <2> QED BY <2>1, <2>3, <2>4 DEF Reads
<1> HIDE DEF text
<1>4. /\ w \in [0 .. n -> CutStates]
      /\ w[0] = Uncut
      /\ \A i \in 1 .. n : w[i] = CutAt(text[i], w[i - 1])
  BY <1>2, CutIs
<1>5. n \in Nat /\ \A i \in 1 .. n : text[i] \in Alphabet BY <1>2 DEF Characters
<1>6. \A i \in 0 .. n : w[i].lines \in Seq(Characters) /\ w[i].rest \in Characters
  <2> TAKE i \in 0 .. n
  <2>1. w[i] \in CutStates BY <1>4
  <2> HIDE DEF w
  <2> QED BY <2>1 DEF CutStates
<1>7. LinesOf(text) = w[n].lines /\ Unfinished(text) = w[n].rest BY DEF LinesOf, Unfinished
<1> HIDE DEF w
<1>8. 0 \in E
  <2>1. w[0].lines = << >> /\ w[0].rest = << >> BY <1>4 DEF Uncut
  <2>2. CodedLines(<< >>) = << >> BY DEF CodedLines
  <2>3. Listen(state, << >>) = state BY ListenEmpty
  <2>4. SubSeq(text, 1, n) = text BY <1>2 DEF Characters
  <2>5. left(0) = text \o after
    <3>1. 0 + 1 = 1 OBVIOUS
    <3> QED BY <2>4, <3>1
  <2> HIDE DEF left, n
  <2>6. Listen(state, CodedLines(w[0].lines)) = state BY <2>1, <2>2, <2>3
  <2>7. Reads(messages, Listen(state, CodedLines(w[0].lines)), w[0].rest, left(0))
    BY <1>3, <2>1, <2>5, <2>6
  <2> QED BY <1>5, <2>7
<1>9. ASSUME NEW i \in 0 .. n - 1, i \in E PROVE i + 1 \in E
  <2> DEFINE c == text[i + 1]
             s == Listen(state, CodedLines(w[i].lines))
             r == w[i].rest
  <2>1. i + 1 \in 1 .. n /\ i + 1 \in 0 .. n /\ i \in 0 .. n /\ (i + 1) - 1 = i BY <1>5
  <2>2. c \in Alphabet /\ r \in Characters /\ w[i].lines \in Seq(Characters) BY <1>5, <1>6, <2>1
  <2>3. left(i + 1) \in Characters BY <1>2, <1>5, <2>1 DEF Characters
  <2>4. left(i) = << c >> \o left(i + 1)
    <3> DEFINE t == SubSeq(text, i + 2, n)
               a == SubSeq(text, i + 1, n)
               b == << c >> \o t
    <3>1. a \in Seq(Alphabet) /\ Len(a) = n - i /\ \A j \in 1 .. n - i : a[j] = text[i + j]
      BY <1>2, <1>5 DEF Characters
    <3>2. t \in Seq(Alphabet) /\ Len(t) = n - i - 1 /\ \A j \in 1 .. n - i - 1 : t[j] = text[i + 1 + j]
      BY <1>2, <1>5, <2>1 DEF Characters
    <3> HIDE DEF c, t
    <3>3. b \in Seq(Alphabet) /\ Len(b) = n - i /\ b[1] = c /\ \A j \in 2 .. n - i : b[j] = t[j - 1]
      BY <1>5, <2>2, <3>2
    <3> HIDE DEF a, b, n
    <3>4. \A j \in 1 .. n - i : a[j] = b[j]
      <4> TAKE j \in 1 .. n - i
      <4>1. CASE j = 1 BY <3>1, <3>3, <4>1 DEF c
      <4>2. CASE j # 1
        <5>1. j - 1 \in 1 .. n - i - 1 /\ i + 1 + (j - 1) = i + j /\ j \in 2 .. n - i
          BY <1>5, <4>2
        <5> QED BY <3>1, <3>2, <3>3, <5>1
      <4> QED BY <4>1, <4>2
    <3>5. a = b BY <3>1, <3>3, <3>4, SeqEqual
    <3>6. (<< c >> \o t) \o after = << c >> \o (t \o after)
      <4>1. << c >> \in Characters /\ t \in Characters BY <2>2, <3>2 DEF Characters
      <4> QED BY <4>1, Associative
    <3>7. (i + 1) + 1 = i + 2 OBVIOUS
    <3> QED BY <3>5, <3>6, <3>7 DEF a, b, t, n
  <2>5. Reads(messages, s, r, << c >> \o left(i + 1)) BY <1>9, <2>4
  <2>6. w[i + 1] = CutAt(c, w[i]) BY <1>4, <2>1
  <2> HIDE DEF c, left, n
  <2>7. CASE c = NewLine
    <3>1. w[i + 1].lines = Append(w[i].lines, r) /\ w[i + 1].rest = << >>
      BY <2>6, <2>7 DEF CutAt
    <3>2. CodedLines(w[i + 1].lines) = Append(CodedLines(w[i].lines), Coded(r))
      BY <2>2, <3>1, CodedLinesAre
    <3>3. CodedLines(w[i].lines) \in Seq(Characters) /\ Coded(r) \in Characters
      BY <2>2, CodedLinesAre, CodedTyped
    <3>4. Listen(state, CodedLines(w[i + 1].lines)) = Consume(s, Coded(r))
      BY <3>2, <3>3, ListenOne
    <3> HIDE DEF s, r
    <3>5. Reads(messages, Consume(s, Coded(r)), << >>, left(i + 1))
      BY <2>2, <2>3, <2>5, <2>7, OneCharacter
    <3> QED BY <2>1, <3>1, <3>4, <3>5
  <2>8. CASE c # NewLine
    <3>1. w[i + 1].lines = w[i].lines /\ w[i + 1].rest = Append(r, c)
      BY <2>6, <2>8 DEF CutAt
    <3>2. Listen(state, CodedLines(w[i + 1].lines)) = s BY <3>1
    <3> HIDE DEF s, r
    <3>3. Reads(messages, s, Append(r, c), left(i + 1))
      BY <2>2, <2>3, <2>5, <2>8, OneCharacter
    <3> QED BY <2>1, <3>1, <3>2, <3>3
  <2> QED BY <2>7, <2>8
<1> HIDE DEF E
<1>10. \A i \in 0 .. n : i \in E BY <1>5, <1>8, <1>9, UpTo
<1>11. Reads(messages, Listen(state, CodedLines(w[n].lines)), w[n].rest, left(n))
  BY <1>5, <1>10 DEF E
<1>12. left(n) = after
  <2>1. SubSeq(text, n + 1, n) = << >> BY <1>2, <1>5 DEF Characters
  <2>2. << >> \o after = after BY DEF Characters
  <2> QED BY <2>1, <2>2
<1>13. ~ Flooded(text)
  <2>1. ~ (Len(w[n].rest) > MaxBufferedBytes) BY <1>11, <1>12, NeverFlooded
  <2> QED BY <1>7, <2>1 DEF Flooded
<1>14. KeepUnfinished(text) = w[n].rest /\ KeepUnfinished(text) \in Characters
  BY <1>5, <1>6, <1>7, <1>13 DEF KeepUnfinished
<1>15. takeCompleteLines(text) = CodedLines(w[n].lines)
  <2> DEFINE lines == w[n].lines
  <2>1. lines \in Seq(Characters) BY <1>5, <1>6
  <2> HIDE DEF lines
  <2>2. lines \o << >> = lines BY <2>1
  <2>3. LinesOf(text) \o (IF Flooded(text) THEN << Unfinished(text) >> ELSE << >>) = lines
    BY <1>7, <1>13, <2>2 DEF lines
  <2>4. takeCompleteLines(text) = CodedLines(lines)
    BY <2>3 DEF takeCompleteLines, CodedLines
  <2> QED BY <2>4 DEF lines
<1>16. CodedLines(w[n].lines) \in Seq(Characters) BY <1>5, <1>6, CodedLinesAre
<1> QED BY <1>11, <1>12, <1>14, <1>15, <1>16 DEF text

----------------------------------------------------------------------------
\* The word that goes the other way.

\* A pipe changes the place of characters, and neither their number nor their order.
LEMMA Moved ==
  ASSUME NEW a \in Characters, NEW b \in Characters, NEW n \in 1 .. Len(b)
  PROVE  /\ SubSeq(b, 1, n) \in Characters /\ SubSeq(b, n + 1, Len(b)) \in Characters
         /\ a \o SubSeq(b, 1, n) \in Characters /\ Len(a \o SubSeq(b, 1, n)) = Len(a) + n
         /\ SubSeq(b, 1, n) \o SubSeq(b, n + 1, Len(b)) = b
         /\ (a \o SubSeq(b, 1, n)) \o SubSeq(b, n + 1, Len(b)) = a \o b
<1> DEFINE p == SubSeq(b, 1, n)
           q == SubSeq(b, n + 1, Len(b))
           m == Len(b)
<1>1. m \in Nat BY DEF Characters
<1>2. p \in Seq(Alphabet) /\ Len(p) = n /\ \A i \in 1 .. n : p[i] = b[i]
  BY <1>1 DEF Characters
<1>3. q \in Seq(Alphabet) /\ Len(q) = m - n /\ \A i \in 1 .. m - n : q[i] = b[n + i]
  BY <1>1 DEF Characters
<1> HIDE DEF p, q
<1> DEFINE w == p \o q
<1>4. /\ w \in Seq(Alphabet) /\ Len(w) = Len(p) + Len(q)
      /\ \A i \in 1 .. Len(p) + Len(q) : w[i] = IF i <= Len(p) THEN p[i] ELSE q[i - Len(p)]
  BY <1>2, <1>3, ConcatProperties
<1>5. w = b
  <2> HIDE DEF w
  <2>1. Len(w) = m BY <1>1, <1>2, <1>3, <1>4
  <2>2. \A i \in 1 .. m : w[i] = b[i]
    <3> TAKE i \in 1 .. m
    <3>1. CASE i <= n
      <4>1. i \in 1 .. n BY <3>1
      <4> QED BY <1>1, <1>2, <1>3, <1>4, <4>1
    <3>2. CASE ~ (i <= n)
      <4>1. i - n \in 1 .. m - n /\ n + (i - n) = i BY <1>1, <3>2
      <4> QED BY <1>1, <1>2, <1>3, <1>4, <3>2, <4>1
    <3> QED BY <3>1, <3>2
  <2> QED BY <1>4, <2>1, <2>2, SeqEqual DEF Characters
<1>6. p \in Characters /\ q \in Characters BY <1>2, <1>3 DEF Characters
<1>7. (a \o p) \o q = a \o (p \o q) BY <1>6, Associative
<1>8. a \o p \in Characters /\ Len(a \o p) = Len(a) + n BY <1>2, <1>6 DEF Characters
<1> QED BY <1>5, <1>6, <1>7, <1>8 DEF p, q

----------------------------------------------------------------------------

\* What askHelperToStop writes.
Word == Token \o << NewLine >>

\* The request that has been read and the input that has not are the word that was
\* written; the helper has been told when it has read as much as the token.
TokenInv ==
  /\ request \in Characters /\ input \in Characters
  /\ asked \in BOOLEAN /\ cancelled \in BOOLEAN
  /\ IF asked THEN request \o input = Word ELSE request = << >> /\ input = << >>
  /\ cancelled <=> Len(request) >= Len(Token)

\* The word is the token and a line break.
LEMMA WordIs ==
  /\ Token \in Characters /\ Word \in Characters /\ Len(Word) = 3 /\ Len(Token) = 2
  /\ Word[1] = Token[1] /\ Word[2] = Token[2] /\ Word[3] = NewLine
<1>1. "can" \in Alphabet /\ "cel" \in Alphabet /\ NewLine \in Alphabet BY DEF Alphabet
<1>2. << "can", "cel" >> \in Seq(Alphabet) /\ << NewLine >> \in Seq(Alphabet) BY <1>1
<1>3. Token \in Characters /\ Len(Token) = 2 BY <1>2 DEF Token, Characters
<1>4. /\ Word \in Seq(Alphabet) /\ Len(Word) = 3
      /\ Word[1] = Token[1] /\ Word[2] = Token[2] /\ Word[3] = NewLine
  BY <1>2 DEF Token, Word
<1> QED BY <1>3, <1>4 DEF Characters

\* cancelRequested finds the token in a beginning of the word if it is all there.
LEMMA TokenFound ==
  ASSUME NEW text \in Characters, NEW after \in Characters, text \o after = Word
  PROVE  ContainsToken(text) <=> Len(text) >= Len(Token)
<1> DEFINE whole == text \o after
<1>1. Len(text) \in Nat /\ Len(whole) = Len(text) + Len(after) /\ Len(after) \in Nat
      /\ \A i \in 1 .. Len(text) : whole[i] = text[i]
  OBVIOUS
<1>2. Len(whole) = 3 /\ Len(Token) = 2 /\ whole[1] = Token[1] /\ whole[2] = Token[2] BY WordIs
<1> HIDE DEF whole
<1>3. ASSUME ContainsToken(text) PROVE Len(text) >= Len(Token)
  BY <1>1, <1>2, <1>3 DEF ContainsToken
<1>4. ASSUME Len(text) >= Len(Token) PROVE ContainsToken(text)
  <2> DEFINE part == SubSeq(text, 1, 2)
  <2>1. part \in Characters /\ Len(part) = 2 /\ part[1] = text[1] /\ part[2] = text[2]
    BY <1>1, <1>2, <1>4 DEF Characters
  <2>2. Token \in Characters BY WordIs
  <2> HIDE DEF part
  <2>3. \A i \in 1 .. 2 : part[i] = Token[i]
    <3>1. text[1] = Token[1] /\ text[2] = Token[2] BY <1>1, <1>2, <1>4
    <3> QED BY <2>1, <3>1
  <2>4. part = Token BY <1>2, <2>1, <2>2, <2>3, SeqEqual DEF Characters
  <2>5. 2 \in Len(Token) .. Len(text) /\ 2 - Len(Token) + 1 = 1 BY <1>1, <1>2, <1>4
  <2> QED BY <2>4, <2>5 DEF ContainsToken, part
<1> QED BY <1>3, <1>4

\* Nothing is asked at first.
LEMMA TokenInit == Init => TokenInv
<1> SUFFICES ASSUME Init PROVE TokenInv OBVIOUS
<1>1. request = << >> /\ input = << >> /\ asked = FALSE /\ cancelled = FALSE BY DEF Init
<1>2. Len(<< >>) = 0 /\ ~ (0 >= 2) /\ << >> \in Characters BY DEF Characters
<1>3. Len(Token) = 2 BY WordIs
<1> QED BY <1>1, <1>2, <1>3 DEF TokenInv

\* Every read of cancelRequested, and every other step, keeps the word together.
LEMMA TokenStep == TokenInv /\ [Next]_vars => TokenInv'
<1> SUFFICES ASSUME TokenInv, [Next]_vars PROVE TokenInv' OBVIOUS
<1>1. ASSUME UNCHANGED << request, cancelled, input, asked >> PROVE TokenInv'
  BY <1>1 DEF TokenInv
<1>2. CASE PollRequest
  <2>1. ~ cancelled /\ asked' = asked BY <1>2 DEF PollRequest, clientVars
  <2>2. PICK n \in 1 .. Len(input) :
          /\ request' = request \o SubSeq(input, 1, n)
          /\ input' = SubSeq(input, n + 1, Len(input))
    BY <1>2 DEF PollRequest, Remember
  <2>3. cancelled' = ContainsToken(request') BY <1>2 DEF PollRequest
  <2>4. asked
    <3> SUFFICES ASSUME ~ asked PROVE FALSE OBVIOUS
    <3>1. input = << >> BY DEF TokenInv
    <3>2. 1 .. Len(input) = {} BY <3>1
    <3> QED BY <2>2, <3>2
  <2>5. request' \in Characters /\ input' \in Characters /\ request' \o input' = request \o input
    <3>1. request \in Characters /\ input \in Characters BY DEF TokenInv
    <3> DEFINE head == request \o SubSeq(input, 1, n)
               tail == SubSeq(input, n + 1, Len(input))
    <3>2. head \in Characters /\ tail \in Characters /\ head \o tail = request \o input
      BY <3>1, Moved
    <3> QED BY <2>2, <3>2
  <2>6. request' \o input' = Word BY <2>4, <2>5 DEF TokenInv
  <2>7. ContainsToken(request') <=> Len(request') >= Len(Token) BY <2>5, <2>6, TokenFound
  <2>8. ContainsToken(request') \in BOOLEAN BY DEF ContainsToken
  <2> QED BY <2>1, <2>3, <2>4, <2>5, <2>6, <2>7, <2>8 DEF TokenInv
<1>3. CASE AskHelperToStop
  <2>1. ~ asked /\ asked' = TRUE /\ input' = input \o Token \o << NewLine >>
        /\ request' = request /\ cancelled' = cancelled
    BY <1>3 DEF AskHelperToStop, NotAskedYet, requestVars
  <2>2. request = << >> /\ input = << >> BY <2>1 DEF TokenInv
  <2>3. Token \in Seq(Alphabet) BY WordIs DEF Characters
  <2>4. input' = Word BY <2>1, <2>2, <2>3 DEF Word
  <2>5. << >> \o Word = Word BY WordIs
  <2> QED BY <2>1, <2>2, <2>4, <2>5, WordIs DEF TokenInv
<1>4. CASE Helper
  <2>1. UNCHANGED << request, cancelled, input, asked >>
    BY <1>4 DEF Helper, AnnounceVersion, Step, Detail, EndFailed, EndUnexplained,
                EndSucceeded, EndCancelled, End,
                WriteLines, Flush, Exit, requestVars, clientVars
  <2> QED BY <1>1, <2>1
<1>5. CASE Crash \/ Read \/ Finish
  <2>1. UNCHANGED << request, cancelled, input, asked >>
    BY <1>5 DEF Crash, Read, Finish, requestVars, clientVars
  <2> QED BY <1>1, <2>1
<1>6. CASE UNCHANGED vars
  <2>1. UNCHANGED << request, cancelled, input, asked >> BY <1>6 DEF vars, requestVars, clientVars
  <2> QED BY <1>1, <2>1
<1> QED BY <1>2, <1>3, <1>4, <1>5, <1>6 DEF Next

\* So the token is heard when all of it has been read.
LEMMA TokenMeans == TokenInv => TokenIsHeard
<1> SUFFICES ASSUME TokenInv PROVE TokenIsHeard OBVIOUS
<1>1. request \in Characters /\ input \in Characters BY DEF TokenInv
<1>2. CASE ~ asked
  <2>1. request = << >> /\ Len(<< >>) = 0 BY <1>2 DEF TokenInv
  <2>2. ~ cancelled BY <2>1, WordIs DEF TokenInv
  <2> QED BY <1>2, <2>2 DEF TokenIsHeard
<1>3. CASE asked
  <2> DEFINE whole == request \o input
             n == Len(request)
  <2>1. whole = Word BY <1>3 DEF TokenInv
  <2>2. /\ n \in Nat /\ Len(input) \in Nat /\ Len(whole) = n + Len(input)
        /\ \A i \in 1 .. Len(input) : whole[n + i] = input[i]
    BY <1>1
  <2> HIDE DEF whole, n
  <2>3. n + Len(input) = 3 BY <2>1, <2>2, WordIs
  <2>4. cancelled <=> n >= 2 BY WordIs DEF TokenInv, n
  <2>5. ASSUME n >= 2 PROVE input \in { << >>, << NewLine >> }
    <3>1. CASE Len(input) = 0 BY <1>1, <3>1
    <3>2. CASE Len(input) = 1
      <4>1. n + 1 = 3 BY <2>3, <3>2
      <4>2. input[1] = NewLine BY <2>1, <2>2, <3>2, <4>1, WordIs
      <4> DEFINE s == << NewLine >>
      <4>3. s \in Characters /\ Len(s) = 1 /\ s[1] = NewLine
        <5>1. NewLine \in Alphabet BY DEF Alphabet
        <5> QED BY <5>1 DEF Characters
      <4> HIDE DEF s
      <4>4. \A i \in 1 .. 1 : input[i] = s[i] BY <4>2, <4>3
      <4>5. input = s BY <1>1, <3>2, <4>3, <4>4, SeqEqual DEF Characters
      <4> QED BY <4>5 DEF s
    <3>3. Len(input) = 0 \/ Len(input) = 1
      <4> DEFINE l == Len(input)
      <4>1. n \in Nat /\ l \in Nat /\ n + l = 3 /\ n >= 2 BY <2>2, <2>3, <2>5
      <4> HIDE DEF l
      <4>2. l = 0 \/ l = 1 BY <4>1
      <4> QED BY <4>2 DEF l
    <3> QED BY <3>1, <3>2, <3>3
  <2>6. ASSUME input \in { << >>, << NewLine >> } PROVE n >= 2
    <3>1. Len(<< >>) = 0 /\ Len(<< NewLine >>) = 1 OBVIOUS
    <3>2. Len(input) = 0 \/ Len(input) = 1 BY <2>6, <3>1
    <3> QED BY <2>2, <2>3, <3>2
  <2> QED BY <1>3, <2>4, <2>5, <2>6 DEF TokenIsHeard
<1> QED BY <1>2, <1>3 DEF TokenInv

\* However its reads cut the word into parts, cancelRequested hears it when it has read
\* all of it, and never before: m_request keeps the parts.
THEOREM WordHeard == Spec => []TokenIsHeard
<1>1. Init => TokenInv BY TokenInit
<1>2. TokenInv /\ [Next]_vars => TokenInv' BY TokenStep
<1>3. TokenInv => TokenIsHeard BY TokenMeans
<1> QED BY <1>1, <1>2, <1>3, PTL DEF Spec

----------------------------------------------------------------------------
\* What the helper says.

\* The last message of a restore that has come to its end.
Concluded(m) ==
  \/ exitCode = 0 /\ m.kind = "Result" /\ m.text # << >>
  \/ exitCode = 1 /\ m.kind = "Failure"
  \/ exitCode \in {1, 2, 3} /\ m.kind \notin Verdicts

\* What the helper has said at each stage of its main: first the announcement, no verdict
\* before the end, and at the end the one its exit code stands for.
SaidInv ==
  /\ Sensible(said)
  /\ stage \in {"Announce", "Restore", "Ending", "Exited", "Crashed"}
  /\ step \in Nat
  /\ stage = "Announce" => said = << >>
  /\ stage = "Restore" => said # << >> /\ said[Len(said)].kind \notin Verdicts
  /\ stage \in {"Ending", "Exited"} => said # << >> /\ Concluded(said[Len(said)])
  /\ stage \in {"Exited", "Crashed"} => outgoing = << >>

\* More of what may be said at its time.
LEMMA StaysSensible ==
  ASSUME NEW first, Sensible(first), NEW second \in Seq(Sayings),
         first # << >> => first[Len(first)].kind \notin Verdicts,
         \A j \in 1 .. Len(second) : second[j].kind = "Version" <=> first = << >> /\ j = 1,
         \A j \in 1 .. Len(second) - 1 : second[j].kind \notin Verdicts
  PROVE  /\ Sensible(first \o second)
         /\ second = << >> => first \o second = first
         /\ second # << >> => /\ first \o second # << >>
                              /\ (first \o second)[Len(first \o second)] = second[Len(second)]
<1> DEFINE both == first \o second
           n == Len(first)
           m == Len(second)
<1>1. first \in Seq(Sayings) BY DEF Sensible
<1>2. /\ both \in Seq(Sayings) /\ Len(both) = n + m /\ n \in Nat /\ m \in Nat
      /\ \A i \in 1 .. n : both[i] = first[i]
      /\ \A i \in 1 .. m : both[n + i] = second[i]
  BY <1>1
<1>3. (first = << >> <=> n = 0) /\ (second = << >> <=> m = 0) /\ (both = << >> <=> Len(both) = 0)
  <2> HIDE DEF n, m, both
  <2>1. \A s \in Seq(Sayings) : s = << >> <=> Len(s) = 0 OBVIOUS
  <2> QED BY <1>1, <1>2, <2>1 DEF n, m
<1>4. second = << >> => both = first BY <1>1
<1>5. \A j \in 1 .. n : first[j].kind = "Version" <=> j = 1 BY DEF Sensible
<1>6. \A j \in 1 .. n - 1 : first[j].kind \notin Verdicts BY DEF Sensible
<1> HIDE DEF both, n, m
<1>7. \A i \in 1 .. n + m : i \in 1 .. n \/ (i - n \in 1 .. m /\ n + (i - n) = i /\ ~ (i \in 1 .. n))
  BY <1>2
<1>8. ASSUME NEW j \in 1 .. Len(both) PROVE both[j].kind = "Version" <=> j = 1
  <2>1. CASE j \in 1 .. n BY <1>2, <1>5, <2>1
  <2>2. CASE ~ (j \in 1 .. n)
    <3>1. j - n \in 1 .. m /\ n + (j - n) = j BY <1>2, <1>7, <2>2
    <3>2. both[j] = second[j - n] BY <1>2, <3>1
    <3>3. second[j - n].kind = "Version" <=> first = << >> /\ j - n = 1 BY <3>1 DEF m
    <3>4. first = << >> /\ j - n = 1 <=> j = 1 BY <1>2, <1>3, <2>2, <3>1
    <3> QED BY <3>2, <3>3, <3>4
  <2> QED BY <2>1, <2>2
<1>9. ASSUME NEW j \in 1 .. Len(both) - 1 PROVE both[j].kind \notin Verdicts
  <2>1. CASE j \in 1 .. n - 1 BY <1>2, <1>6, <2>1
  <2>2. CASE j = n
    <3>1. first # << >> /\ j \in 1 .. n BY <1>2, <1>3, <2>2
    <3> QED BY <1>2, <2>2, <3>1 DEF n
  <2>3. CASE ~ (j \in 1 .. n)
    <3>1. j \in 1 .. n + m BY <1>2
    <3>2. j - n \in 1 .. m /\ n + (j - n) = j BY <1>7, <2>3, <3>1
    <3>3. j - n \in 1 .. m - 1 BY <1>2, <3>2
    <3>4. both[j] = second[j - n] BY <1>2, <3>2
    <3> QED BY <3>3, <3>4 DEF m
  <2> QED BY <1>2, <2>1, <2>2, <2>3
<1>10. ASSUME second # << >> PROVE both # << >> /\ both[Len(both)] = second[m]
  <2>1. m # 0 /\ m \in 1 .. m /\ n + m # 0 BY <1>2, <1>3, <1>10
  <2> QED BY <1>2, <1>3, <2>1
<1> QED BY <1>2, <1>4, <1>8, <1>9, <1>10 DEF Sensible, both, n, m

\* A step in which the helper writes these messages.
Says(messages) ==
  /\ messages \in Seq(Sayings)
  /\ outgoing = << >> /\ outgoing' = Stream(messages)
  /\ said' = said \o messages
  /\ UNCHANGED << pipe, client, buffer, heard, verdict >>

\* writeLine writes the messages' lines.
LEMMA WrittenAs ==
  ASSUME NEW messages \in Seq(Sayings), NEW lines, DOMAIN lines = DOMAIN messages,
         \A k \in DOMAIN messages : lines[k] = LineOf(messages[k]),
         WriteLines(lines, messages)
  PROVE  Says(messages)
<1>1. ASSUME NEW k \in DOMAIN messages PROVE Coded(lines[k]) \o << NewLine >> = Ended(messages[k])
  <2> DEFINE m == messages[k]
  <2>1. m \in Sayings BY <1>1
  <2>2. lines[k] = LineOf(m) OBVIOUS
  <2> HIDE DEF m
  <2>3. LineOf(m) \in Characters /\ Paired(LineOf(m)) BY <2>1, LineIs DEF Sayings
  <2>4. Coded(LineOf(m)) = LineOf(m) BY <2>3, CodedPaired
  <2> QED BY <2>2, <2>4 DEF Ended, m
<1>2. [k \in DOMAIN lines |-> Coded(lines[k]) \o << NewLine >>]
        = [k \in DOMAIN messages |-> Ended(messages[k])]
  BY <1>1
<1> QED BY <1>2 DEF WriteLines, Says, Stream, clientVars

\* A single one.
LEMMA OneWritten ==
  ASSUME NEW m \in Sayings, WriteLines(<< LineOf(m) >>, << m >>)
  PROVE  Says(<< m >>)
<1> DEFINE lines == << LineOf(m) >>
           messages == << m >>
<1>1. /\ messages \in Seq(Sayings) /\ DOMAIN lines = DOMAIN messages
      /\ \A k \in DOMAIN messages : lines[k] = LineOf(messages[k])
  OBVIOUS
<1>2. WriteLines(lines, messages) OBVIOUS
<1> HIDE DEF lines, messages
<1>3. Says(messages) BY <1>1, <1>2, WrittenAs
<1> QED BY <1>3 DEF messages

\* The texts of a restore are made of characters, and of no halves.
LEMMA TextsAre ==
  ASSUME NEW text \in Texts \cup Locations
  PROVE  text \in Characters /\ Paired(text)
<1>1. text \in Seq(STRING) /\ Paired(text) BY TextAssumption
<1>2. STRING \subseteq Alphabet BY DEF Alphabet
<1> DEFINE S == STRING
<1>3. text \in Seq(S) /\ S \subseteq Alphabet BY <1>1, <1>2
<1> HIDE DEF S
<1>4. Len(text) \in Nat /\ \A i \in 1 .. Len(text) : text[i] \in Alphabet BY <1>3
<1>5. text = [i \in 1 .. Len(text) |-> text[i]] BY <1>3
<1>6. text \in Seq(Alphabet) BY <1>4, <1>5
<1> QED BY <1>1, <1>6 DEF Characters

\* What every operation of the helper writes.
LEMMA Spoken ==
  ASSUME SaidInv
  PROVE  /\ AnnounceVersion => Says(<< Announcement >>)
         /\ \A text \in Texts : Step(text) => \E m \in Sayings : m.kind = "Step" /\ Says(<< m >>)
         /\ \A text \in Texts : Detail(text) =>
              \E messages \in Seq(Sayings) :
                Says(messages) /\ \A j \in 1 .. Len(messages) : messages[j].kind = "Detail"
         /\ \A text \in Texts : EndFailed(text) => \E m \in Sayings : m.kind = "Failure" /\ Says(<< m >>)
         /\ \A location \in Locations : EndSucceeded(location) =>
              \E m \in Sayings : m.kind = "Result" /\ m.text # << >> /\ Says(<< m >>)
         /\ EndUnexplained \/ EndCancelled => Says(<< >>)
<1>1. ASSUME AnnounceVersion PROVE Says(<< Announcement >>)
  <2>1. WriteLines(<< LineOf(Announcement) >>, << Announcement >>)
    BY <1>1, EncodedAs DEF AnnounceVersion, Announcement
  <2> QED BY <2>1, SayingsAre, OneWritten
<1>2. ASSUME NEW text \in Texts, Step(text)
      PROVE  \E m \in Sayings : m.kind = "Step" /\ Says(<< m >>)
  <2> DEFINE number == Numbers[step']
             meant == TextMeant(text)
             m == Message("Step", number, meant)
  <2>1. number \in Range(Numbers)
    <3>1. step' = step + 1 /\ step < Len(Numbers) /\ step \in Nat BY <1>2 DEF Step, SaidInv
    <3>2. Len(Numbers) \in Nat /\ DOMAIN Numbers = 1 .. Len(Numbers) BY TextAssumption
    <3>3. step' \in DOMAIN Numbers BY <3>1, <3>2
    <3> QED BY <3>3 DEF Range
  <2>2. sanitizeProtocolText(text) = meant /\ Plain(meant) BY TextsAre, SanitizedAsMeant
  <2>3. m \in Sayings BY <2>1, <2>2, SayingsAre
  <2>4. encodeStepLine(number, text) = LineOf(m) BY <2>1, <2>2, EncodedAs
  <2>5. WriteLines(<< LineOf(m) >>, << m >>) BY <1>2, <2>4 DEF Step
  <2>6. m.kind = "Step" BY DEF Message
  <2> HIDE DEF m
  <2>7. Says(<< m >>) BY <2>3, <2>5, OneWritten
  <2> QED BY <2>3, <2>6, <2>7
<1>3. ASSUME NEW text \in Texts, Detail(text)
      PROVE  \E messages \in Seq(Sayings) :
               Says(messages) /\ \A j \in 1 .. Len(messages) : messages[j].kind = "Detail"
  <2> DEFINE texts == Sanitized(text)
             messages == [k \in DOMAIN texts |-> Message("Detail", "", texts[k])]
             lines == [k \in DOMAIN texts |-> encodeDetailLine(texts[k])]
  <2>1. texts \in Seq({ line \in Characters : Plain(line) /\ line # << >> })
    BY TextsAre, DetailsAreMeant
  <2>2. DetailsMeant(text) = messages BY TextsAre, DetailsAreMeant
  <2>3. WriteLines(lines, messages) BY <1>3, <2>2 DEF Detail, Sanitized
  <2> HIDE DEF texts
  <2>4. /\ DOMAIN texts = 1 .. Len(texts) /\ Len(texts) \in Nat
        /\ \A k \in DOMAIN texts : Plain(texts[k])
    BY <2>1
  <2>5. \A k \in DOMAIN texts : messages[k] = Message("Detail", "", texts[k]) /\ messages[k] \in Sayings
    BY <2>4, SayingsAre
  <2>6. messages \in Seq(Sayings) /\ Len(messages) = Len(texts) /\ DOMAIN messages = DOMAIN texts
    <3> DEFINE item(k) == Message("Detail", "", texts[k])
    <3>1. \A k \in DOMAIN texts : item(k) \in Sayings BY <2>5
    <3>2. messages = [k \in 1 .. Len(texts) |-> item(k)] BY <2>4
    <3> HIDE DEF item, messages
    <3> QED BY <2>4, <3>1, <3>2
  <2>7. ASSUME NEW k \in DOMAIN texts PROVE lines[k] = LineOf(messages[k])
    <3>1. sanitizeProtocolText(texts[k]) = texts[k] BY <2>4, MeantOnce
    <3>2. encodeDetailLine(texts[k]) = LineOf(Message("Detail", "", texts[k])) BY <3>1, EncodedAs
    <3> QED BY <3>2
  <2>8. \A k \in DOMAIN texts : messages[k].kind = "Detail" BY DEF Message
  <2>9. DOMAIN lines = DOMAIN texts OBVIOUS
  <2> HIDE DEF messages, lines
  <2>10. Says(messages) BY <2>3, <2>6, <2>7, <2>9, WrittenAs
  <2> QED BY <2>4, <2>6, <2>8, <2>10
<1>4. ASSUME NEW text \in Texts, EndFailed(text)
      PROVE  \E m \in Sayings : m.kind = "Failure" /\ Says(<< m >>)
  <2> DEFINE m == Message("Failure", "", TextMeant(text))
  <2>1. sanitizeProtocolText(text) = TextMeant(text) /\ Plain(TextMeant(text))
    BY TextsAre, SanitizedAsMeant
  <2>2. m \in Sayings BY <2>1, SayingsAre
  <2>3. encodeFailureLine(text) = LineOf(m) BY <2>1, EncodedAs
  <2>4. WriteLines(<< LineOf(m) >>, << m >>) BY <1>4, <2>3 DEF EndFailed
  <2>5. m.kind = "Failure" BY DEF Message
  <2> HIDE DEF m
  <2>6. Says(<< m >>) BY <2>2, <2>4, OneWritten
  <2> QED BY <2>2, <2>5, <2>6
<1>5. ASSUME NEW location \in Locations, EndSucceeded(location)
      PROVE  \E m \in Sayings : m.kind = "Result" /\ m.text # << >> /\ Says(<< m >>)
  <2> DEFINE m == Message("Result", "", TextMeant(location))
  <2>1. sanitizeProtocolText(location) = TextMeant(location) /\ Plain(TextMeant(location))
    BY TextsAre, SanitizedAsMeant
  <2>2. m \in Sayings BY <2>1, SayingsAre
  <2>3. encodeResultLine(location) = LineOf(m) BY <2>1, EncodedAs
  <2>4. WriteLines(<< LineOf(m) >>, << m >>) BY <1>5, <2>3 DEF EndSucceeded
  <2>5. m.kind = "Result" /\ m.text = TextMeant(location) BY DEF Message
  <2>6. TextMeant(location) # << >> BY TextAssumption
  <2> HIDE DEF m
  <2>7. Says(<< m >>) BY <2>2, <2>4, OneWritten
  <2> QED BY <2>2, <2>5, <2>6, <2>7
<1>6. ASSUME EndUnexplained \/ EndCancelled PROVE Says(<< >>)
  <2>1. WriteLines(<< >>, << >>) BY <1>6 DEF EndUnexplained, EndCancelled
  <2>2. << >> \in Seq(Sayings) /\ DOMAIN << >> = {} OBVIOUS
  <2> QED BY <2>1, <2>2, WrittenAs
<1> QED BY <1>1, <1>2, <1>3, <1>4, <1>5, <1>6

\* Nothing is said at first.
LEMMA SaidInit == Init => SaidInv
<1> SUFFICES ASSUME Init PROVE SaidInv OBVIOUS
<1>1. stage = "Announce" /\ said = << >> /\ step = 0 /\ outgoing = << >> BY DEF Init
<1>2. Sensible(<< >>)
  <2>1. << >> \in Seq(Sayings) /\ Len(<< >>) = 0 OBVIOUS
  <2> QED BY <2>1 DEF Sensible
<1> QED BY <1>1, <1>2 DEF SaidInv

\* One message more.
LEMMA OneMore ==
  ASSUME NEW m \in Sayings, Sensible(said),
         said # << >> => said[Len(said)].kind \notin Verdicts,
         m.kind = "Version" <=> said = << >>, Says(<< m >>)
  PROVE  Sensible(said') /\ said' # << >> /\ said'[Len(said')] = m
<1> DEFINE second == << m >>
<1>1. second \in Seq(Sayings) /\ Len(second) = 1 /\ second[1] = m /\ second # << >> OBVIOUS
<1>2. said' = said \o second BY DEF Says
<1> HIDE DEF second
<1>3. \A j \in 1 .. Len(second) : second[j].kind = "Version" <=> said = << >> /\ j = 1 BY <1>1
<1>4. \A j \in 1 .. Len(second) - 1 : second[j].kind \notin Verdicts BY <1>1
<1>5. /\ Sensible(said \o second) /\ said \o second # << >>
      /\ (said \o second)[Len(said \o second)] = second[Len(second)]
  BY <1>1, <1>3, <1>4, StaysSensible
<1> QED BY <1>1, <1>2, <1>5

\* Whatever the helper does, it has said what it should at this stage.
LEMMA SaidStep == SaidInv /\ [Next]_vars => SaidInv'
<1> SUFFICES ASSUME SaidInv, [Next]_vars PROVE SaidInv' OBVIOUS
<1> USE DEF Verdicts
<1>1. ASSUME UNCHANGED << stage, said, step, exitCode, outgoing >> PROVE SaidInv'
  BY <1>1 DEF SaidInv, Concluded
<1>2. CASE AnnounceVersion
  <2>1. stage = "Announce" /\ stage' = "Restore" /\ step' = step
    BY <1>2 DEF AnnounceVersion, GoOn
  <2>2. Says(<< Announcement >>) BY <1>2, Spoken
  <2>3. said = << >> /\ Announcement \in Sayings /\ Announcement.kind = "Version"
    BY <2>1, SayingsAre DEF SaidInv, Announcement, Message
  <2>4. Sensible(said') /\ said' # << >> /\ said'[Len(said')] = Announcement
    BY <2>2, <2>3, OneMore DEF SaidInv
  <2> QED BY <2>1, <2>3, <2>4 DEF SaidInv
<1>3. ASSUME NEW text \in Texts, Step(text) PROVE SaidInv'
  <2>1. stage = "Restore" /\ stage' = "Restore" /\ step' = step + 1 BY <1>3 DEF Step
  <2>2. PICK m \in Sayings : m.kind = "Step" /\ Says(<< m >>) BY <1>3, Spoken
  <2>3. Sensible(said') /\ said' # << >> /\ said'[Len(said')] = m
    BY <2>1, <2>2, OneMore DEF SaidInv
  <2>4. step' \in Nat BY <2>1 DEF SaidInv
  <2> QED BY <2>1, <2>2, <2>3, <2>4 DEF SaidInv
<1>4. ASSUME NEW text \in Texts, Detail(text) PROVE SaidInv'
  <2>1. stage = "Restore" /\ stage' = "Restore" /\ step' = step BY <1>4 DEF Detail
  <2>2. PICK messages \in Seq(Sayings) :
          Says(messages) /\ \A j \in 1 .. Len(messages) : messages[j].kind = "Detail"
    BY <1>4, Spoken
  <2>3. said # << >> /\ said[Len(said)].kind \notin {"Result", "Failure"} /\ Sensible(said)
    BY <2>1 DEF SaidInv
  <2>4. Len(messages) \in Nat
        /\ \A j \in 1 .. Len(messages) : messages[j].kind = "Version" <=> said = << >> /\ j = 1
    BY <2>2, <2>3
  <2>5. \A j \in 1 .. Len(messages) - 1 : messages[j].kind \notin {"Result", "Failure"}
    BY <2>2, <2>4
  <2>6. /\ Sensible(said \o messages)
        /\ messages = << >> => said \o messages = said
        /\ messages # << >> => /\ said \o messages # << >>
                               /\ (said \o messages)[Len(said \o messages)] = messages[Len(messages)]
    BY <2>3, <2>4, <2>5, StaysSensible
  <2>7. said' = said \o messages BY <2>2 DEF Says
  <2>8. said' # << >> /\ said'[Len(said')].kind \notin {"Result", "Failure"}
    <3>1. CASE messages = << >> BY <2>3, <2>6, <2>7, <3>1
    <3>2. CASE messages # << >>
      <4>1. Len(messages) \in 1 .. Len(messages) BY <2>4, <3>2
      <4>2. messages[Len(messages)].kind = "Detail" BY <2>2, <4>1
      <4> QED BY <2>6, <2>7, <3>2, <4>2
    <3> QED BY <3>1, <3>2
  <2> QED BY <2>1, <2>6, <2>7, <2>8 DEF SaidInv
<1>5. ASSUME NEW text \in Texts, EndFailed(text) PROVE SaidInv'
  <2>1. stage = "Restore" /\ stage' = "Ending" /\ step' = step /\ exitCode' = 1
    BY <1>5 DEF EndFailed, End, GoOn
  <2>2. PICK m \in Sayings : m.kind = "Failure" /\ Says(<< m >>) BY <1>5, Spoken
  <2>3. Sensible(said') /\ said' # << >> /\ said'[Len(said')] = m
    BY <2>1, <2>2, OneMore DEF SaidInv
  <2> QED BY <2>1, <2>2, <2>3 DEF SaidInv, Concluded
<1>6. ASSUME NEW location \in Locations, EndSucceeded(location) PROVE SaidInv'
  <2>1. stage = "Restore" /\ stage' = "Ending" /\ step' = step /\ exitCode' = 0
    BY <1>6 DEF EndSucceeded, End, GoOn
  <2>2. PICK m \in Sayings : m.kind = "Result" /\ m.text # << >> /\ Says(<< m >>)
    BY <1>6, Spoken
  <2>3. Sensible(said') /\ said' # << >> /\ said'[Len(said')] = m
    BY <2>1, <2>2, OneMore DEF SaidInv
  <2> QED BY <2>1, <2>2, <2>3 DEF SaidInv, Concluded
<1>7. CASE EndUnexplained \/ EndCancelled
  <2>1. stage = "Restore" /\ stage' = "Ending" /\ step' = step /\ exitCode' \in {1, 2, 3}
    BY <1>7 DEF EndUnexplained, EndCancelled, End, GoOn
  <2>2. said' = said \o << >> BY <1>7, Spoken DEF Says
  <2>3. said' = said
    <3>1. said \in Seq(Sayings) BY DEF SaidInv, Sensible
    <3> QED BY <2>2, <3>1
  <2>4. Sensible(said') /\ said' # << >> /\ said'[Len(said')].kind \notin {"Result", "Failure"}
    BY <2>1, <2>3 DEF SaidInv
  <2> QED BY <2>1, <2>4 DEF SaidInv, Concluded
<1>8. CASE Flush
  <2>1. stage' = stage /\ said' = said /\ step' = step /\ exitCode' = exitCode /\ stage # "Crashed"
    BY <1>8 DEF Flush
  <2>2. PICK n \in 1 .. Len(outgoing) : outgoing' = SubSeq(outgoing, n + 1, Len(outgoing))
    BY <1>8 DEF Flush
  <2>3. stage # "Exited"
    <3> SUFFICES ASSUME stage = "Exited" PROVE FALSE OBVIOUS
    <3>1. outgoing = << >> BY DEF SaidInv
    <3>2. 1 .. Len(outgoing) = {} BY <3>1
    <3> QED BY <2>2, <3>2
  <2> QED BY <2>1, <2>3 DEF SaidInv, Concluded
<1>9. CASE Exit
  <2>1. stage = "Ending" /\ stage' = "Exited" /\ outgoing = << >>
        /\ UNCHANGED << said, step, exitCode, outgoing >>
    BY <1>9 DEF Exit, GoOn
  <2> QED BY <2>1 DEF SaidInv, Concluded
<1>10. CASE Crash
  <2>1. stage' = "Crashed" /\ outgoing' = << >> /\ UNCHANGED << said, step, exitCode >>
    BY <1>10 DEF Crash
  <2> QED BY <2>1 DEF SaidInv, Concluded
<1>11. CASE PollRequest \/ Read \/ AskHelperToStop \/ Finish
  <2>1. UNCHANGED << stage, said, step, exitCode, outgoing >>
    BY <1>11 DEF PollRequest, Read, AskHelperToStop, Finish, helperVars
  <2> QED BY <1>1, <2>1
<1>12. CASE UNCHANGED vars
  <2>1. UNCHANGED << stage, said, step, exitCode, outgoing >> BY <1>12 DEF vars, helperVars
  <2> QED BY <1>1, <2>1
<1> QED BY <1>2, <1>3, <1>4, <1>5, <1>6, <1>7, <1>8, <1>9, <1>10, <1>11, <1>12 DEF Next, Helper

----------------------------------------------------------------------------
\* The stream from the helper to the client.

\* The characters that have been read of an unfinished line, those in the pipe and those
\* not yet written are what the client has not heard yet of what was said, all but the ones
\* that a crash has lost.
FlowInv ==
  /\ buffer \in Characters /\ pipe \in Characters /\ outgoing \in Characters
  /\ client \in {"Loop", "Over"}
  /\ client = "Loop" =>
       \E lost \in Characters :
         /\ stage # "Crashed" => lost = << >>
         /\ Reads(said, heard, buffer, (pipe \o outgoing) \o lost)
  /\ client = "Over" =>
       stage \in {"Exited", "Crashed"} /\ ReceivedAreSent /\ VerdictAsSaid

\* No characters change nothing.
LEMMA NothingAdded ==
  ASSUME NEW text \in Characters
  PROVE  text \o << >> = text /\ << >> \o text = text /\ << >> \in Characters
  BY DEF Characters

\* What the client has heard is not changed by what is said later.
LEMMA MoreToRead ==
  ASSUME NEW first, Sensible(first), NEW second \in Seq(Sayings), NEW state, NEW part,
         NEW after \in Characters, Reads(first, state, part, after)
  PROVE  Reads(first \o second, state, part, after \o Stream(second))
<1> DEFINE both == first \o second
           n == Len(first)
           m == Len(second)
<1>1. PICK k \in 0 .. n :
        /\ state = Hearing(first, k)
        /\ part \in Characters /\ Unbroken(part)
        /\ part \o after = Stream(Remaining(first, k))
  BY DEF Reads
<1>2. first \in Seq(Sayings) BY DEF Sensible
<1>3. /\ both \in Seq(Sayings) /\ Len(both) = n + m /\ n \in Nat /\ m \in Nat
      /\ \A i \in 1 .. n : both[i] = first[i]
      /\ \A i \in 1 .. m : both[n + i] = second[i]
  BY <1>2
<1> HIDE DEF both
<1>4. k \in 0 .. Len(both) BY <1>3
<1>5. Hearing(first, k) = Hearing(both, k)
  <2> DEFINE a == SubSeq(first, 1, k)
             b == SubSeq(both, 1, k)
  <2>1. a \in Seq(Sayings) /\ Len(a) = k /\ \A i \in 1 .. k : a[i] = first[i] BY <1>2
  <2>2. b \in Seq(Sayings) /\ Len(b) = k /\ \A i \in 1 .. k : b[i] = both[i] BY <1>3
  <2> HIDE DEF a, b
  <2>3. \A i \in 1 .. k : a[i] = b[i]
    <3> TAKE i \in 1 .. k
    <3>1. i \in 1 .. n BY <1>3
    <3> QED BY <1>3, <2>1, <2>2, <3>1
  <2>4. a = b BY <2>1, <2>2, <2>3, SeqEqual
  <2>5. SubSeq(first, 1, k) = SubSeq(both, 1, k) BY <2>4 DEF a, b
  <2>6. k > 0 => first[k] = both[k]
    <3>1. k > 0 => k \in 1 .. n BY <1>3
    <3> QED BY <1>3, <3>1
  <2>7. TextOf("Failure", first, k) = TextOf("Failure", both, k) BY <2>6 DEF TextOf
  <2>8. TextOf("Result", first, k) = TextOf("Result", both, k) BY <2>6 DEF TextOf
  <2> QED BY <2>5, <2>7, <2>8 DEF Hearing
<1>6. Remaining(both, k) = Remaining(first, k) \o second
  <2> DEFINE r == Remaining(first, k)
             a == Remaining(both, k)
             b == r \o second
  <2>1. r \in Seq(Sayings) /\ Len(r) = n - k /\ \A i \in 1 .. n - k : r[i] = first[k + i]
    BY <1>2 DEF Remaining
  <2>2. a \in Seq(Sayings) /\ Len(a) = n + m - k /\ \A i \in 1 .. n + m - k : a[i] = both[k + i]
    BY <1>3, <1>4 DEF Remaining
  <2> HIDE DEF r, a
  <2>3. /\ b \in Seq(Sayings) /\ Len(b) = Len(r) + Len(second)
        /\ \A i \in 1 .. Len(r) + Len(second) :
             b[i] = IF i <= Len(r) THEN r[i] ELSE second[i - Len(r)]
    BY <2>1, ConcatProperties
  <2> HIDE DEF b
  <2>4. \A i \in 1 .. n + m - k : a[i] = b[i]
    <3> TAKE i \in 1 .. n + m - k
    <3>0. k \in Nat /\ k <= n /\ Len(r) + Len(second) = n + m - k BY <1>3, <2>1
    <3>1. CASE i <= n - k
      <4>1. i \in 1 .. n - k /\ k + i \in 1 .. n BY <1>3, <3>0, <3>1
      <4> QED BY <1>3, <2>1, <2>2, <2>3, <3>0, <3>1, <4>1
    <3>2. CASE ~ (i <= n - k)
      <4>1. i - (n - k) \in 1 .. m /\ n + (i - (n - k)) = k + i BY <1>3, <3>0, <3>2
      <4> QED BY <1>3, <2>1, <2>2, <2>3, <3>0, <3>2, <4>1
    <3> QED BY <3>1, <3>2
  <2>5. Len(b) = n + m - k BY <1>3, <2>1, <2>3
  <2> QED BY <2>2, <2>3, <2>4, <2>5, SeqEqual DEF a, b, r
<1>7. part \o (after \o Stream(second)) = Stream(Remaining(both, k))
  <2>1. Remaining(first, k) \in Seq(Sayings) BY <1>2, <1>3 DEF Remaining
  <2>2. Stream(Remaining(both, k)) = Stream(Remaining(first, k)) \o Stream(second)
    BY <1>6, <2>1, StreamIs
  <2>3. (part \o after) \o Stream(second) = part \o (after \o Stream(second))
    BY <1>1, StreamIs, Associative
  <2> QED BY <1>1, <2>2, <2>3
<1> QED BY <1>1, <1>4, <1>5, <1>7 DEF Reads, both

\* After the last message nothing is left, and only then.
LEMMA NothingLeft ==
  ASSUME NEW messages, Sensible(messages), NEW k \in 0 .. Len(messages),
         Stream(Remaining(messages, k)) = << >>
  PROVE  k = Len(messages)
<1> SUFFICES ASSUME k # Len(messages) PROVE FALSE OBVIOUS
<1>1. messages \in Seq(Sayings) /\ Len(messages) \in Nat BY DEF Sensible
<1> DEFINE others == Stream(Remaining(messages, k + 1))
           m == messages[k + 1]
<1>2. k \in 0 .. Len(messages) - 1 /\ k + 1 \in 0 .. Len(messages) /\ k + 1 \in 1 .. Len(messages)
  BY <1>1
<1>3. others \in Characters BY <1>1, <1>2, RemainingIs
<1>4. m \in Sayings BY <1>1, <1>2
<1>5. Ended(m) \o others = << >> BY <1>1, <1>2, RemainingIs
<1> HIDE DEF m, others
<1>6. LineOf(m) \in Characters BY <1>4, LineIs DEF Sayings
<1>7. NewLine \in Alphabet BY DEF Alphabet
<1>8. Ended(m) \in Seq(Alphabet) /\ Len(Ended(m)) = Len(LineOf(m)) + 1 /\ Len(LineOf(m)) \in Nat
  BY <1>6, <1>7 DEF Ended, Characters
<1>9. Len(Ended(m) \o others) # 0 BY <1>3, <1>8 DEF Characters
<1> QED BY <1>5, <1>9

\* At first nothing is said and nothing is heard.
LEMMA FlowInit == Init => FlowInv
<1> SUFFICES ASSUME Init PROVE FlowInv OBVIOUS
<1>1. /\ stage = "Announce" /\ said = << >> /\ outgoing = << >> /\ pipe = << >> /\ buffer = << >>
      /\ client = "Loop" /\ heard = Known(<< >>, FALSE, << >>, << >>)
  BY DEF Init
<1>2. << >> \in Characters /\ << >> \o << >> = << >> BY DEF Characters
<1>3. Hearing(<< >>, 0) = Known(<< >>, FALSE, << >>, << >>)
  <2>1. SubSeq(<< >>, 1, 0) = << >> /\ (0 > 0) = FALSE OBVIOUS
  <2> QED BY <2>1 DEF Hearing, TextOf
<1>4. Stream(Remaining(<< >>, 0)) = << >>
  <2>1. << >> \in Seq(Sayings) /\ Len(<< >>) = 0 OBVIOUS
  <2> QED BY <2>1, RemainingIs
<1>5. Reads(<< >>, heard, << >>, << >>)
  <2>1. Unbroken(<< >>) /\ 0 \in 0 .. Len(<< >>) BY DEF Unbroken
  <2> QED BY <1>1, <1>2, <1>3, <1>4, <2>1 DEF Reads
<1> QED BY <1>1, <1>2, <1>5 DEF FlowInv

\* The helper writes.
LEMMA FlowWritten ==
  ASSUME SaidInv, FlowInv, NEW messages, Says(messages),
         stage \notin {"Exited", "Crashed"}, stage' # "Crashed"
  PROVE  FlowInv'
<1>1. client = "Loop" BY DEF FlowInv
<1>2. PICK lost \in Characters :
        /\ stage # "Crashed" => lost = << >>
        /\ Reads(said, heard, buffer, (pipe \o outgoing) \o lost)
  BY <1>1 DEF FlowInv
<1>3. lost = << >> /\ outgoing = << >> /\ pipe \in Characters BY <1>2 DEF FlowInv, Says
<1>4. Reads(said, heard, buffer, pipe) BY <1>2, <1>3, NothingAdded
<1>5. messages \in Seq(Sayings) /\ Sensible(said) BY DEF Says, SaidInv
<1>6. Reads(said \o messages, heard, buffer, pipe \o Stream(messages))
  BY <1>3, <1>4, <1>5, MoreToRead
<1>7. Stream(messages) \in Characters /\ pipe \o Stream(messages) \in Characters
  <2>1. Stream(messages) \in Characters BY <1>5, StreamIs
  <2> QED BY <1>3, <2>1 DEF Characters
<1>8. /\ said' = said \o messages /\ outgoing' = Stream(messages)
      /\ UNCHANGED << pipe, client, buffer, heard >>
  BY DEF Says
<1>9. Reads(said', heard', buffer', (pipe' \o outgoing') \o << >>)
  BY <1>6, <1>7, <1>8, NothingAdded
<1>10. /\ buffer' \in Characters /\ pipe' \in Characters /\ outgoing' \in Characters
       /\ client' = "Loop" /\ << >> \in Characters
  BY <1>1, <1>7, <1>8, NothingAdded DEF FlowInv
<1> QED BY <1>9, <1>10 DEF FlowInv

\* The kernel takes something, or what it has not taken is lost.
LEMMA FlowMoved ==
  ASSUME FlowInv, SaidInv, Flush \/ Exit \/ Crash
  PROVE  FlowInv'
<1>1. UNCHANGED << said, client, buffer, heard, verdict, exitCode >>
  BY DEF Flush, Exit, Crash, clientVars
<1>2. buffer \in Characters /\ pipe \in Characters /\ outgoing \in Characters /\ << >> \in Characters
  BY NothingAdded DEF FlowInv
<1>3. CASE Flush
  <2>1. stage' = stage /\ stage # "Crashed" BY <1>3 DEF Flush
  <2>2. PICK n \in 1 .. Len(outgoing) :
          /\ pipe' = pipe \o SubSeq(outgoing, 1, n)
          /\ outgoing' = SubSeq(outgoing, n + 1, Len(outgoing))
    BY <1>3 DEF Flush
  <2>3. stage # "Exited"
    <3> SUFFICES ASSUME stage = "Exited" PROVE FALSE OBVIOUS
    <3>1. outgoing = << >> BY DEF SaidInv
    <3>2. 1 .. Len(outgoing) = {} BY <3>1
    <3> QED BY <2>2, <3>2
  <2>4. client = "Loop" BY <2>1, <2>3 DEF FlowInv
  <2>5. pipe' \in Characters /\ outgoing' \in Characters /\ pipe' \o outgoing' = pipe \o outgoing
    <3> DEFINE head == pipe \o SubSeq(outgoing, 1, n)
               tail == SubSeq(outgoing, n + 1, Len(outgoing))
    <3>1. head \in Characters /\ tail \in Characters /\ head \o tail = pipe \o outgoing
      BY <1>2, Moved
    <3> QED BY <2>2, <3>1
  <2>6. Reads(said, heard, buffer, (pipe \o outgoing) \o << >>) BY <2>1, <2>4 DEF FlowInv
  <2>7. Reads(said', heard', buffer', (pipe' \o outgoing') \o << >>) BY <1>1, <2>5, <2>6
  <2> QED BY <1>1, <1>2, <2>4, <2>5, <2>7 DEF FlowInv
<1>4. CASE Exit
  <2>1. stage = "Ending" /\ stage' = "Exited" /\ pipe' = pipe /\ outgoing' = outgoing
    BY <1>4 DEF Exit, GoOn
  <2>2. client = "Loop" BY <2>1 DEF FlowInv
  <2>3. Reads(said, heard, buffer, (pipe \o outgoing) \o << >>) BY <2>1, <2>2 DEF FlowInv
  <2>4. Reads(said', heard', buffer', (pipe' \o outgoing') \o << >>) BY <1>1, <2>1, <2>3
  <2> QED BY <1>1, <1>2, <2>1, <2>2, <2>4 DEF FlowInv
<1>5. CASE Crash
  <2>1. stage \notin {"Exited", "Crashed"} /\ stage' = "Crashed" /\ pipe' = pipe /\ outgoing' = << >>
    BY <1>5 DEF Crash
  <2>2. client = "Loop" BY <2>1 DEF FlowInv
  <2>3. Reads(said, heard, buffer, (pipe \o outgoing) \o << >>) BY <2>1, <2>2 DEF FlowInv
  <2>4. pipe \o outgoing \in Characters BY <1>2 DEF Characters
  <2>5. (pipe' \o outgoing') \o outgoing = (pipe \o outgoing) \o << >>
    BY <1>2, <2>1, <2>4, NothingAdded
  <2>6. Reads(said', heard', buffer', (pipe' \o outgoing') \o outgoing) BY <1>1, <2>3, <2>5
  <2> QED BY <1>1, <1>2, <2>1, <2>2, <2>6 DEF FlowInv
<1> QED BY <1>3, <1>4, <1>5

\* A part of the pipe, the rest of it, what is not yet in it and what is lost.
LEMMA FourParts ==
  ASSUME NEW a \in Characters, NEW b \in Characters, NEW c \in Characters, NEW n \in 1 .. Len(a)
  PROVE  /\ SubSeq(a, 1, n) \in Characters /\ SubSeq(a, n + 1, Len(a)) \in Characters
         /\ (SubSeq(a, n + 1, Len(a)) \o b) \o c \in Characters
         /\ SubSeq(a, 1, n) \o ((SubSeq(a, n + 1, Len(a)) \o b) \o c) = (a \o b) \o c
<1>1. ASSUME NEW p \in Characters, NEW q \in Characters
      PROVE  /\ (q \o b) \o c \in Characters
             /\ p \o ((q \o b) \o c) = ((p \o q) \o b) \o c
  <2>1. p \o q \in Characters /\ q \o b \in Characters BY DEF Characters
  <2>2. (p \o q) \o b = p \o (q \o b) BY Associative
  <2>3. ASSUME NEW e \in Characters PROVE (p \o e) \o c = p \o (e \o c) /\ e \o c \in Characters
    <3>1. e \o c \in Characters BY DEF Characters
    <3>2. (p \o e) \o c = p \o (e \o c) BY Associative, ZenonT(60)
    <3> QED BY <3>1, <3>2
  <2> DEFINE e == q \o b
  <2>4. e \in Characters /\ (p \o q) \o b = p \o e BY <2>1, <2>2
  <2> HIDE DEF e
  <2>5. p \o (e \o c) = ((p \o q) \o b) \o c /\ e \o c \in Characters BY <2>3, <2>4
  <2> QED BY <2>5 DEF e
<1> DEFINE p == SubSeq(a, 1, n)
           q == SubSeq(a, n + 1, Len(a))
<1>2. p \in Characters /\ q \in Characters /\ p \o q = a BY Moved
<1> HIDE DEF p, q
<1>3. /\ (q \o b) \o c \in Characters
      /\ p \o ((q \o b) \o c) = (a \o b) \o c
  BY <1>1, <1>2
<1> QED BY <1>2, <1>3 DEF p, q

\* A read takes as much of the pipe as has arrived.
LEMMA ReadingSome ==
  ASSUME NEW messages, Sensible(messages), NEW state, NEW part, NEW a \in Characters,
         NEW b \in Characters, NEW c \in Characters, NEW n \in 1 .. Len(a),
         Reads(messages, state, part, (a \o b) \o c)
  PROVE  /\ KeepUnfinished(part \o SubSeq(a, 1, n)) \in Characters
         /\ SubSeq(a, n + 1, Len(a)) \in Characters
         /\ Reads(messages, Listen(state, takeCompleteLines(part \o SubSeq(a, 1, n))),
                  KeepUnfinished(part \o SubSeq(a, 1, n)), (SubSeq(a, n + 1, Len(a)) \o b) \o c)
<1> DEFINE chunk == SubSeq(a, 1, n)
           rest == SubSeq(a, n + 1, Len(a))
           after == (rest \o b) \o c
<1>1. chunk \in Characters /\ rest \in Characters /\ after \in Characters BY FourParts
<1>2. chunk \o after = (a \o b) \o c
  <2>1. SubSeq(a, 1, n) \o ((SubSeq(a, n + 1, Len(a)) \o b) \o c) = (a \o b) \o c
    BY FourParts, ZenonT(60)
  <2> QED BY <2>1, Zenon
<1>3. Reads(messages, state, part, chunk \o after) BY <1>2
<1> HIDE DEF chunk, after, rest
<1>4. /\ KeepUnfinished(part \o chunk) \in Characters
      /\ Reads(messages, Listen(state, takeCompleteLines(part \o chunk)),
               KeepUnfinished(part \o chunk), after)
  BY <1>1, <1>3, Reading
<1> QED BY <1>1, <1>4 DEF chunk, after, rest

\* The client reads.
LEMMA FlowRead ==
  ASSUME FlowInv, SaidInv, Read
  PROVE  FlowInv'
<1>1. client = "Loop" /\ client' = client /\ UNCHANGED << stage, said, outgoing >>
  BY DEF Read, TakeFromPipe, helperVars
<1>2. PICK n \in 1 .. PipeCapacity :
        /\ n <= Len(pipe)
        /\ pipe' = SubSeq(pipe, n + 1, Len(pipe))
        /\ heard' = Listen(heard, takeCompleteLines(buffer \o SubSeq(pipe, 1, n)))
        /\ buffer' = KeepUnfinished(buffer \o SubSeq(pipe, 1, n))
  BY DEF Read, TakeFromPipe, Arrived
<1>3. PICK lost \in Characters :
        /\ stage # "Crashed" => lost = << >>
        /\ Reads(said, heard, buffer, (pipe \o outgoing) \o lost)
  BY <1>1 DEF FlowInv
<1>4. buffer \in Characters /\ pipe \in Characters /\ outgoing \in Characters BY DEF FlowInv
<1>5. n \in 1 .. Len(pipe)
  <2>1. Len(pipe) \in Nat BY <1>4 DEF Characters
  <2> QED BY <1>2, <2>1, ProtocolAssumption
<1>6. Sensible(said) BY DEF SaidInv
<1>7. /\ KeepUnfinished(buffer \o SubSeq(pipe, 1, n)) \in Characters
      /\ SubSeq(pipe, n + 1, Len(pipe)) \in Characters
      /\ Reads(said, Listen(heard, takeCompleteLines(buffer \o SubSeq(pipe, 1, n))),
               KeepUnfinished(buffer \o SubSeq(pipe, 1, n)),
               (SubSeq(pipe, n + 1, Len(pipe)) \o outgoing) \o lost)
  BY <1>3, <1>4, <1>5, <1>6, ReadingSome
<1>8. Reads(said', heard', buffer', (pipe' \o outgoing') \o lost) BY <1>1, <1>2, <1>7
<1> QED BY <1>1, <1>2, <1>3, <1>4, <1>7, <1>8 DEF FlowInv

\* All that arrived has been heard, and the line that was not finished with it: it is
\* none, or the beginning of the next one.
Ends(messages, state, after) ==
  \E k \in 0 .. Len(messages) :
    /\ after = << >> => k = Len(messages)
    /\ \/ state = Hearing(messages, k)
       \/ \E m : /\ after # << >> /\ k < Len(messages)
                 /\ m.kind \in {"Unknown", messages[k + 1].kind}
                 /\ state.messages = Append(SubSeq(messages, 1, k), m)

\* The rest of the pipe and a line that was not finished.
LEMMA ReadingLast ==
  ASSUME NEW messages, Sensible(messages), NEW state, NEW part, NEW chunk \in Characters,
         NEW after \in Characters, Reads(messages, state, part, chunk \o after)
  PROVE  Ends(messages, Listen(state, takeCompleteLines(part \o chunk)
                                      \o << Coded(KeepUnfinished(part \o chunk)) >>), after)
<1> DEFINE text == part \o chunk
           full == takeCompleteLines(text)
           rest == KeepUnfinished(text)
           lines == full \o << Coded(rest) >>
           s == Listen(state, full)
<1>1. rest \in Characters /\ full \in Seq(Characters) /\ Reads(messages, s, rest, after)
  BY Reading
<1> HIDE DEF rest, full
<1>2. Coded(rest) \in Characters BY <1>1, CodedTyped
<1>3. lines = Append(full, Coded(rest)) BY <1>1
<1> HIDE DEF lines
<1>4. Listen(state, lines) = Consume(s, Coded(rest)) BY <1>1, <1>2, <1>3, ListenOne
<1> HIDE DEF s
<1>5. PICK k \in 0 .. Len(messages) :
        /\ s = Hearing(messages, k)
        /\ rest \in Characters /\ Unbroken(rest)
        /\ rest \o after = Stream(Remaining(messages, k))
  BY <1>1 DEF Reads
<1>6. after = << >> => rest = << >>
  <2> SUFFICES ASSUME after = << >>, rest # << >> PROVE FALSE OBVIOUS
  <2>1. rest \o after # << >>
    <3>1. rest \o after = rest BY <1>1 DEF Characters
    <3> QED BY <3>1
  <2> QED BY <1>5, <2>1, PartOfNext
<1>7. CASE rest = << >>
  <2>1. Listen(state, lines) = Hearing(messages, k) BY <1>4, <1>5, <1>7, HeardNothing
  <2>2. after = << >> => k = Len(messages)
    <3> SUFFICES ASSUME after = << >> PROVE k = Len(messages) OBVIOUS
    <3>1. Stream(Remaining(messages, k)) = << >>
      <4>1. << >> \o << >> = << >> OBVIOUS
      <4> QED BY <1>5, <1>7, <4>1
    <3> QED BY <3>1, NothingLeft
  <2>3. Ends(messages, Listen(state, lines), after) BY <2>1, <2>2 DEF Ends
  <2> QED BY <2>3 DEF lines, full, rest
<1>8. CASE rest # << >>
  <2>1. rest \o after # << >> BY <1>1, <1>8, ConcatEqualIffEmpty DEF Characters
  <2>2. /\ k < Len(messages)
        /\ Len(rest) <= Len(LineOf(messages[k + 1]))
        /\ \A i \in 1 .. Len(rest) : rest[i] = LineOf(messages[k + 1])[i]
        /\ after # << >>
    BY <1>5, <2>1, PartOfNext, ZenonT(60)
  <2> DEFINE m == messages[k + 1]
             read == parseProtocolLine(Coded(rest))
  <2>3. Sayable(m)
    <3>1. messages \in Seq(Sayings) /\ Len(messages) \in Nat BY DEF Sensible
    <3>2. k + 1 \in 1 .. Len(messages) BY <2>2, <3>1
    <3>3. m \in Sayings BY <3>1, <3>2
    <3> HIDE DEF m
    <3> QED BY <3>3 DEF Sayings
  <2>4. Len(rest) <= Len(LineOf(m)) /\ \A i \in 1 .. Len(rest) : rest[i] = LineOf(m)[i]
    BY <2>2
  <2> HIDE DEF m
  <2>5. Trimmed(Coded(rest)) # << >> /\ read.kind \in {"Unknown", m.kind}
    BY <1>5, <1>8, <2>3, <2>4, PartRead
  <2>6. Listen(state, lines).messages = Append(SubSeq(messages, 1, k), read)
    BY <1>4, <1>5, <2>5, HeardPart
  <2> HIDE DEF read
  <2>7. Ends(messages, Listen(state, lines), after) BY <2>2, <2>5, <2>6 DEF Ends, m
  <2> QED BY <2>7 DEF lines, full, rest
<1> QED BY <1>7, <1>8

\* Hearing the first messages is hearing them in their order.
LEMMA HeardFirst ==
  ASSUME NEW messages, Sensible(messages), NEW k \in 0 .. Len(messages)
  PROVE  /\ IsPrefix(Hearing(messages, k).messages, messages)
         /\ k = Len(messages) => Hearing(messages, k).messages = messages
<1>1. messages \in Seq(Sayings) /\ Len(messages) \in Nat BY DEF Sensible
<1> DEFINE p == SubSeq(messages, 1, k)
<1>2. Hearing(messages, k).messages = p BY DEF Hearing, Known
<1>3. p \in Seq(Sayings) /\ Len(p) = k /\ (k = Len(messages) => p = messages) BY <1>1
<1>4. IsPrefix(p, messages) BY <1>1, <1>3 DEF IsPrefix
<1> QED BY <1>2, <1>3, <1>4

\* A verdict is a word and a text.
LEMMA VerdictMessage ==
  ASSUME NEW m, Sayable(m), m.kind \in Verdicts
  PROVE  m = Message(m.kind, "", m.text)
<1>1. m.kind # "Version" /\ m.kind # "Step" BY DEF Verdicts
<1>2. m # Announcement BY <1>1 DEF Announcement, Message
<1>3. ASSUME NEW number, NEW text, m = Message("Step", number, text) PROVE FALSE
  BY <1>1, <1>3 DEF Message
<1>4. PICK kind, text : m = Message(kind, "", text) BY <1>2, <1>3 DEF Sayable
<1> QED BY <1>4 DEF Message

\* All but the last of what was heard is what was said, and the last is at worst less
\* than a message.
Torn(messages, received) ==
  /\ Len(received) <= Len(messages)
  /\ IsPrefix(Front(received), messages)
  /\ Last(received).kind \in {"Unknown", messages[Len(received)].kind}

\* A line that is not a whole one comes after those that are.
LEMMA HeardTorn ==
  ASSUME NEW messages, Sensible(messages), NEW k \in 0 .. Len(messages), k < Len(messages),
         NEW m, m.kind \in {"Unknown", messages[k + 1].kind}
  PROVE  Torn(messages, Append(SubSeq(messages, 1, k), m))
<1> DEFINE received == Append(SubSeq(messages, 1, k), m)
<1>1. messages \in Seq(Sayings) /\ Len(messages) \in Nat BY DEF Sensible
<1> DEFINE p == SubSeq(messages, 1, k)
           S == Sayings \cup {m}
<1>2. p \in Seq(Sayings) /\ Len(p) = k /\ IsPrefix(p, messages) BY <1>1 DEF IsPrefix
<1>3. \A i \in 1 .. k : p[i] \in S BY <1>2
<1> HIDE DEF S
<1>4. p \in Seq(S)
  <2>1. p = [i \in 1 .. k |-> p[i]] BY <1>2
  <2>2. k \in Nat BY <1>1
  <2> HIDE DEF p
  <2>3. p \in [1 .. k -> S] BY <1>3, <2>1
  <2> QED BY <2>2, <2>3, SeqDef
<1>5. m \in S BY DEF S
<1> HIDE DEF p
<1>6. /\ received \in Seq(S) /\ Len(received) = k + 1 /\ received[k + 1] = m
      /\ \A i \in 1 .. k : received[i] = p[i]
  BY <1>2, <1>4, <1>5 DEF p
<1> HIDE DEF received
<1>7. Front(received) = p
  <2> DEFINE f == SubSeq(received, 1, k)
  <2>1. f \in Seq(S) /\ Len(f) = k /\ \A i \in 1 .. k : f[i] = received[i] BY <1>6
  <2>2. Front(received) = f BY <1>6 DEF Front
  <2> HIDE DEF f
  <2>3. \A i \in 1 .. k : f[i] = p[i] BY <1>6, <2>1
  <2> QED BY <1>2, <1>4, <2>1, <2>2, <2>3, SeqEqual
<1>8. Last(received) = m BY <1>6 DEF Last
<1>9. Torn(messages, received) BY <1>1, <1>2, <1>6, <1>7, <1>8 DEF Torn
<1> QED BY <1>9 DEF received

\* The process has ended and its last words are read.
LEMMA FlowFinish ==
  ASSUME FlowInv, SaidInv, Finish
  PROVE  FlowInv'
<1>1. /\ client = "Loop" /\ client' = "Over" /\ stage \in {"Exited", "Crashed"}
      /\ buffer' = << >> /\ pipe' = << >>
      /\ UNCHANGED << stage, said, outgoing, exitCode >>
  BY DEF Finish, EndLoop, helperVars
<1>2. heard' = Listen(heard, takeCompleteLines(buffer \o pipe)
                             \o << Coded(KeepUnfinished(buffer \o pipe)) >>)
  BY DEF Finish
<1>3. verdict' = judgeHelperRun(heard') BY DEF Finish
<1>4. PICK lost \in Characters :
        /\ stage # "Crashed" => lost = << >>
        /\ Reads(said, heard, buffer, (pipe \o outgoing) \o lost)
  BY <1>1 DEF FlowInv
<1>5. buffer \in Characters /\ pipe \in Characters /\ outgoing = << >> /\ Sensible(said)
  BY <1>1 DEF FlowInv, SaidInv
<1>6. Reads(said, heard, buffer, pipe \o lost)
  <2>1. pipe \o outgoing = pipe BY <1>5, NothingAdded
  <2> QED BY <1>4, <2>1
<1>7. PICK k \in 0 .. Len(said) :
        /\ lost = << >> => k = Len(said)
        /\ \/ heard' = Hearing(said, k)
           \/ \E m : /\ lost # << >> /\ k < Len(said)
                     /\ m.kind \in {"Unknown", said[k + 1].kind}
                     /\ heard'.messages = Append(SubSeq(said, 1, k), m)
  <2>1. Ends(said, heard', lost) BY <1>2, <1>5, <1>6, ReadingLast
  <2> QED BY <2>1 DEF Ends
<1>8. Len(said) \in Nat /\ said \in Seq(Sayings) BY <1>5 DEF Sensible
<1>9. ReceivedAreSent'
  <2>1. CASE heard' = Hearing(said, k)
    <3>1. /\ IsPrefix(heard'.messages, said)
          /\ k = Len(said) => heard'.messages = said
      BY <1>5, <2>1, HeardFirst
    <3>2. stage = "Exited" => k = Len(said) BY <1>4, <1>7
    <3> QED BY <1>1, <3>1, <3>2 DEF ReceivedAreSent
  <2>2. ASSUME NEW m, lost # << >>, k < Len(said), m.kind \in {"Unknown", said[k + 1].kind},
               heard'.messages = Append(SubSeq(said, 1, k), m)
        PROVE  ReceivedAreSent'
    <3>1. stage = "Crashed" BY <1>1, <1>4, <2>2
    <3>2. Torn(said, heard'.messages) BY <1>5, <2>2, HeardTorn
    <3> QED BY <1>1, <3>1, <3>2 DEF ReceivedAreSent, Torn
  <2> QED BY <1>7, <2>1, <2>2
<1>10. VerdictAsSaid'
  <2>1. CASE stage = "Crashed"
    <3>1. verdict' = "Failed" BY <1>1, <1>3, <2>1 DEF judgeHelperRun
    <3> QED BY <1>1, <2>1, <3>1 DEF VerdictAsSaid
  <2>2. CASE stage = "Exited"
    <3> DEFINE n == Len(said)
               m == said[n]
    <3>1. lost = << >> /\ k = n BY <1>4, <1>7, <2>2
    <3>2. heard' = Hearing(said, n) BY <1>7, <3>1
    <3>3. said # << >> /\ Concluded(m) BY <2>2 DEF SaidInv
    <3>4. n > 0 /\ (n > 0) = TRUE /\ n \in 1 .. n BY <1>8, <3>3
    <3>5. Sayable(m) /\ m \in Sayings
      <4>1. m \in Sayings BY <1>8, <3>4
      <4> HIDE DEF m
      <4> QED BY <4>1 DEF Sayings
    <3>6. Last(said) = m BY DEF Last
    <3>7. /\ heard'.accepted = TRUE
          /\ heard'.displayFailure = (IF m.kind = "Failure" THEN m.text ELSE << >>)
          /\ heard'.location = (IF m.kind = "Result" THEN m.text ELSE << >>)
      <4>1. heard' = Known(SubSeq(said, 1, n), n > 0, TextOf("Failure", said, n), TextOf("Result", said, n))
        BY <3>2 DEF Hearing
      <4>2. /\ TextOf("Failure", said, n) = (IF m.kind = "Failure" THEN m.text ELSE << >>)
            /\ TextOf("Result", said, n) = (IF m.kind = "Result" THEN m.text ELSE << >>)
        BY <3>4 DEF TextOf
      <4> HIDE DEF m, n
      <4> QED BY <3>4, <4>1, <4>2 DEF Known
    <3>8. m.kind \in {"Failure", "Result"} => m = Message(m.kind, "", m.text)
      <4> HIDE DEF m
      <4> QED BY <3>5, VerdictMessage DEF Verdicts
    <3> HIDE DEF m, n
    <3>9. stage' = "Exited" /\ exitCode' = exitCode /\ Last(said)' = m
      BY <1>1, <2>2, <3>6
    <3>13. (heard.displayFailure = IF Last(said).kind = "Failure" THEN Last(said).text ELSE << >>)'
      BY <3>7, <3>9
    <3>10. CASE exitCode = 0 /\ m.kind = "Result" /\ m.text # << >>
      <4>1. verdict' = "Succeeded" BY <1>1, <1>3, <2>2, <3>7, <3>10 DEF judgeHelperRun
      <4>2. Last(said') = Message("Result", "", heard'.location) BY <3>7, <3>8, <3>9, <3>10
      <4>3. stage' = "Exited" /\ exitCode' = 0 BY <3>9, <3>10
      <4>4. (verdict = "Succeeded" <=> stage = "Exited" /\ exitCode = 0)' BY <4>1, <4>3
      <4>5. (verdict = "Cancelled" <=> stage = "Exited" /\ exitCode = 3)' BY <4>1, <4>3
      <4>6. (verdict = "Succeeded" => Last(said) = Message("Result", "", heard.location))' BY <4>1, <4>2
      <4> QED BY <3>13, <4>4, <4>5, <4>6 DEF VerdictAsSaid
    <3>11. CASE exitCode \in {1, 2} /\ m.kind # "Result"
      <4>1. verdict' = "Failed" BY <1>1, <1>3, <2>2, <3>7, <3>11 DEF judgeHelperRun
      <4>2. stage' = "Exited" /\ exitCode' \in {1, 2} BY <3>9, <3>11
      <4>3. (verdict = "Succeeded" <=> stage = "Exited" /\ exitCode = 0)' BY <4>1, <4>2
      <4>4. (verdict = "Cancelled" <=> stage = "Exited" /\ exitCode = 3)' BY <4>1, <4>2
      <4>5. (verdict = "Succeeded" => Last(said) = Message("Result", "", heard.location))' BY <4>1
      <4> QED BY <3>13, <4>3, <4>4, <4>5 DEF VerdictAsSaid
    <3>12. CASE exitCode = 3 /\ m.kind \notin Verdicts
      <4>1. verdict' = "Cancelled" BY <1>1, <1>3, <2>2, <3>7, <3>12 DEF judgeHelperRun
      <4> QED BY <3>9, <3>12, <4>1 DEF VerdictAsSaid
    <3>14. m.kind \notin Verdicts => m.kind # "Result" BY DEF Verdicts
    <3> QED BY <3>3, <3>10, <3>11, <3>12, <3>14 DEF Concluded
  <2> QED BY <1>1, <2>1, <2>2
<1>11. << >> \in Characters /\ outgoing' \in Characters BY <1>1, <1>5 DEF Characters
<1> QED BY <1>1, <1>9, <1>10, <1>11 DEF FlowInv

\* Every step of the helper, the kernel and the client keeps the stream together.
LEMMA FlowStep == SaidInv /\ FlowInv /\ [Next]_vars => FlowInv'
<1> SUFFICES ASSUME SaidInv, FlowInv, [Next]_vars PROVE FlowInv' OBVIOUS
<1>1. ASSUME UNCHANGED << buffer, pipe, outgoing, client, stage, said, heard, verdict, exitCode >>
      PROVE  FlowInv'
  BY <1>1 DEF FlowInv, ReceivedAreSent, VerdictAsSaid
<1>2. ASSUME NEW messages, Says(messages), stage \in {"Announce", "Restore"},
             stage' \in {"Announce", "Restore", "Ending"}
      PROVE  FlowInv'
  BY <1>2, FlowWritten
<1>3. CASE AnnounceVersion
  <2>1. stage = "Announce" /\ stage' = "Restore" BY <1>3 DEF AnnounceVersion, GoOn
  <2> QED BY <1>2, <1>3, <2>1, Spoken
<1>4. ASSUME NEW text \in Texts, Step(text) PROVE FlowInv'
  <2>1. stage = "Restore" /\ stage' = "Restore" BY <1>4 DEF Step
  <2> QED BY <1>2, <1>4, <2>1, Spoken
<1>5. ASSUME NEW text \in Texts, Detail(text) PROVE FlowInv'
  <2>1. stage = "Restore" /\ stage' = "Restore" BY <1>5 DEF Detail
  <2> QED BY <1>2, <1>5, <2>1, Spoken
<1>6. ASSUME NEW text \in Texts, EndFailed(text) PROVE FlowInv'
  <2>1. stage = "Restore" /\ stage' = "Ending" BY <1>6 DEF EndFailed, End, GoOn
  <2> QED BY <1>2, <1>6, <2>1, Spoken
<1>7. ASSUME NEW location \in Locations, EndSucceeded(location) PROVE FlowInv'
  <2>1. stage = "Restore" /\ stage' = "Ending" BY <1>7 DEF EndSucceeded, End, GoOn
  <2> QED BY <1>2, <1>7, <2>1, Spoken
<1>8. CASE EndUnexplained \/ EndCancelled
  <2>1. stage = "Restore" /\ stage' = "Ending" BY <1>8 DEF EndUnexplained, EndCancelled, End, GoOn
  <2> QED BY <1>2, <1>8, <2>1, Spoken
<1>9. CASE Flush \/ Exit \/ Crash BY <1>9, FlowMoved
<1>10. CASE Read BY <1>10, FlowRead
<1>11. CASE Finish BY <1>11, FlowFinish
<1>12. CASE PollRequest \/ AskHelperToStop \/ UNCHANGED vars
  <2>1. UNCHANGED << buffer, pipe, outgoing, client, stage, said, heard, verdict, exitCode >>
    BY <1>12 DEF PollRequest, AskHelperToStop, vars, helperVars, clientVars
  <2> QED BY <1>1, <2>1
<1> QED BY <1>3, <1>4, <1>5, <1>6, <1>7, <1>8, <1>9, <1>10, <1>11, <1>12 DEF Next, Helper

\* So what the client has heard was said.
LEMMA FlowMeans == SaidInv /\ FlowInv => ReceivedAreSent /\ VerdictAsSaid
<1> SUFFICES ASSUME SaidInv, FlowInv PROVE ReceivedAreSent /\ VerdictAsSaid OBVIOUS
<1>1. CASE client = "Over" BY <1>1 DEF FlowInv
<1>2. CASE client = "Loop"
  <2>1. PICK lost \in Characters : Reads(said, heard, buffer, (pipe \o outgoing) \o lost)
    BY <1>2 DEF FlowInv
  <2>2. PICK k \in 0 .. Len(said) : heard = Hearing(said, k) BY <2>1 DEF Reads
  <2>3. Sensible(said) BY DEF SaidInv
  <2>4. IsPrefix(heard.messages, said) BY <2>2, <2>3, HeardFirst
  <2> QED BY <1>2, <2>4 DEF ReceivedAreSent, VerdictAsSaid
<1> QED BY <1>1, <1>2 DEF FlowInv

\* The window reads the messages that the helper sent, in their order and with their
\* words, whatever formatters and paths put into them and wherever reads cut them; only the
\* last line of a helper that died may be less than a message, and none of another kind.
THEOREM MessagesArrive == Spec => []ReceivedAreSent
<1>1. Init => SaidInv /\ FlowInv BY SaidInit, FlowInit
<1>2. (SaidInv /\ FlowInv) /\ [Next]_vars => (SaidInv /\ FlowInv)' BY SaidStep, FlowStep
<1>3. SaidInv /\ FlowInv => ReceivedAreSent BY FlowMeans
<1> QED BY <1>1, <1>2, <1>3, PTL DEF Spec

\* judgeHelperRun tells of a success, a failure or a cancellation only what the helper
\* ended with: the location or the explanation that it sent last.
THEOREM VerdictIsTheHelpers == Spec => []VerdictAsSaid
<1>1. Init => SaidInv /\ FlowInv BY SaidInit, FlowInit
<1>2. (SaidInv /\ FlowInv) /\ [Next]_vars => (SaidInv /\ FlowInv)' BY SaidStep, FlowStep
<1>3. SaidInv /\ FlowInv => VerdictAsSaid BY FlowMeans
<1> QED BY <1>1, <1>2, <1>3, PTL DEF Spec
=============================================================================
