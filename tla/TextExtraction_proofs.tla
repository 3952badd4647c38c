------------------------ MODULE TextExtraction_proofs ------------------------
(***************************************************************************)
(* What the operators of TextExtraction return, for every page and every   *)
(* sequence of paragraphs: nothing they are given is lost, nothing is      *)
(* added, and tables stand between the lines above and below them.         *)
(***************************************************************************)
EXTENDS TextExtraction, FiniteSetTheorems, TLAPS

W == INSTANCE WellFoundedInduction

(* The numbers below a number, as a relation.                              *)
Below == {p \in Nat \X Nat : p[1] < p[2]}

LEMMA Smallest ==
    ASSUME NEW T, T \subseteq Nat, T # {}
    PROVE  \E x \in T : \A y \in T : x <= y
<1>1. W!IsWellFoundedOn(Below, Nat)
  <2>1. Below = W!OpToRel(<, Nat)
        BY DEF Below, W!OpToRel
  <2> QED BY <2>1, W!NatLessThanWellFounded
<1>2. PICK x \in T : \A y \in T : ~(<<y, x>> \in Below)
      BY <1>1, W!WFMin
<1>3. \A y \in T : y < x => <<y, x>> \in Below
      BY DEF Below
<1>4. \A y \in T : y \in Nat
      OBVIOUS
<1>5. \A y \in T : ~(y < x)
      BY <1>2, <1>3
<1>6. \A y \in T : x <= y
      BY <1>4, <1>5
<1> QED BY <1>6

(* Induction, over the elements of a set.                                  *)
LEMMA Induction ==
    ASSUME NEW G, 0 \in G, \A k \in Nat : k \in G => k + 1 \in G
    PROVE  Nat \subseteq G
<1> DEFINE T == Nat \ G
<1> SUFFICES ASSUME T # {} PROVE FALSE
    OBVIOUS
<1>1. PICK x \in T : \A y \in T : x <= y
      BY Smallest
<1>2. x - 1 \in Nat /\ x - 1 \notin T
      BY <1>1
<1> QED BY <1>1, <1>2

LEMMA MaxIsLast ==
    ASSUME NEW m \in Nat, NEW t \in SUBSET (1 .. m + 1), m + 1 \in t
    PROVE  Max(t) = m + 1
<1>1. \E x \in t : \A y \in t : x >= y
      OBVIOUS
<1>2. Max(t) \in t /\ \A y \in t : Max(t) >= y
      BY <1>1 DEF Max
<1>3. Max(t) \in 1 .. m + 1
      BY <1>2
<1> QED BY <1>2, <1>3

(* What a fold computes with, when its steps stay in a set.                *)
Folds(f, F, base, s, m) ==
    /\ DOMAIN f = SUBSET (1 .. m)
    /\ \A t \in SUBSET (1 .. m) :
          f[t] = IF t = {} THEN base ELSE F[<<f[t \ {Max(t)}], s[Max(t)]>>]

LEMMA FoldExists ==
    ASSUME NEW A, NEW B, NEW F \in [A \X B -> A], NEW base \in A, NEW s \in Seq(B)
    PROVE  /\ \A t \in SUBSET (1 .. Len(s)) : t # {} => Max(t) \in 1 .. Len(s)
           /\ \E f : Folds(f, F, base, s, Len(s)) /\ f \in [SUBSET (1 .. Len(s)) -> A]
<1> DEFINE Good(m) ==
             /\ \A t \in SUBSET (1 .. m) : t # {} => Max(t) \in 1 .. m
             /\ \E f : Folds(f, F, base, s, m) /\ f \in [SUBSET (1 .. m) -> A]
           G == {m \in Nat : m <= Len(s) => Good(m)}
<1>1. 0 \in G
  <2>1. Good(0)
    <3> DEFINE f == [t \in SUBSET (1 .. 0) |-> base]
    <3>1. 1 .. 0 = {} /\ SUBSET (1 .. 0) = {{}}
          OBVIOUS
    <3>2. Folds(f, F, base, s, 0) /\ f \in [SUBSET (1 .. 0) -> A]
          BY <3>1 DEF Folds
    <3> QED BY <3>1, <3>2
  <2> QED BY <2>1
<1>2. ASSUME NEW m \in Nat, m \in G, m + 1 <= Len(s)
      PROVE  Good(m + 1)
  <2>1. Good(m)
    <3> HIDE DEF Good
    <3> QED BY <1>2
  <2>2. PICK f : Folds(f, F, base, s, m) /\ f \in [SUBSET (1 .. m) -> A]
        BY <2>1
  <2> HIDE DEF Good
  <2> DEFINE last == m + 1
             h == [t \in SUBSET (1 .. last) |->
                     IF last \in t THEN F[<<f[t \ {last}], s[last]>>] ELSE f[t]]
  <2>3. \A t \in SUBSET (1 .. last) : /\ last \in t => t \ {last} \in SUBSET (1 .. m) /\ Max(t) = last
                                      /\ last \notin t => t \in SUBSET (1 .. m)
        BY MaxIsLast
  <2>4. s[last] \in B
        BY <1>2
  <2>5. \A t \in SUBSET (1 .. last) : h[t] \in A
        BY <2>2, <2>3, <2>4
  <2>6. Folds(h, F, base, s, last)
    <3> SUFFICES ASSUME NEW t \in SUBSET (1 .. last)
                 PROVE  h[t] = IF t = {} THEN base ELSE F[<<h[t \ {Max(t)}], s[Max(t)]>>]
        BY DEF Folds
    <3>1. CASE last \in t
      <4>1. h[t \ {last}] = f[t \ {last}]
            BY <2>3, <3>1
      <4> QED BY <2>3, <3>1, <4>1
    <3>2. CASE last \notin t
      <4>1. t \in SUBSET (1 .. m) /\ h[t] = f[t] /\ last \notin t \ {Max(t)} /\ t \ {Max(t)} \in SUBSET (1 .. last)
            BY <2>3, <3>2
      <4>2. h[t \ {Max(t)}] = f[t \ {Max(t)}]
            BY <4>1
      <4> QED BY <2>2, <4>1, <4>2 DEF Folds
    <3> QED BY <3>1, <3>2
  <2>7. \A t \in SUBSET (1 .. last) : t # {} => Max(t) \in 1 .. last
        BY <2>1, <2>3 DEF Good
  <2>8. h \in [SUBSET (1 .. last) -> A]
        BY <2>5
  <2> HIDE DEF h
  <2> QED BY <2>6, <2>7, <2>8 DEF Good
<1>3. Nat \subseteq G
  <2>1. \A m \in Nat : m \in G => m + 1 \in G
    <3> HIDE DEF Good
    <3> QED BY <1>2
  <2> HIDE DEF G
  <2> QED BY <1>1, <2>1, Induction
<1>4. Good(Len(s))
  <2> HIDE DEF Good
  <2> QED BY <1>3
<1> QED BY <1>4

(* A step is what F says as long as it begins in the set.                  *)
StepsBy(f, F, A, base, s) ==
    /\ f[{}] = base
    /\ \A t \in SUBSET (1 .. Len(s)) :
          t # {} /\ f[t \ {Max(t)}] \in A => f[t] = F[<<f[t \ {Max(t)}], s[Max(t)]>>]

(* The values a fold goes through.                                         *)
Runs(h, F, A, base, s, result) ==
    /\ h \in [0 .. Len(s) -> A]
    /\ h[0] = base /\ h[Len(s)] = result
    /\ \A k \in 1 .. Len(s) : h[k] = F[<<h[k - 1], s[k]>>]

LEMMA FoldRuns ==
    ASSUME NEW A, NEW B, NEW F \in [A \X B -> A], NEW base \in A, NEW s \in Seq(B), NEW f,
           StepsBy(f, F, A, base, s)
    PROVE  \E h : Runs(h, F, A, base, s, f[1 .. Len(s)])
<1> DEFINE h == [k \in 0 .. Len(s) |-> f[1 .. k]]
           G == {k \in Nat : k <= Len(s) => f[1 .. k] \in A}
<1>1. ASSUME NEW k \in 1 .. Len(s), f[1 .. k - 1] \in A
      PROVE  f[1 .. k] = F[<<f[1 .. k - 1], s[k]>>] /\ f[1 .. k] \in A
  <2>1. 1 .. k \in SUBSET (1 .. Len(s)) /\ k \in 1 .. k /\ 1 .. k # {}
    <3>1. k \in 1 .. k /\ \A j \in 1 .. k : j \in 1 .. Len(s)
          OBVIOUS
    <3> QED BY <3>1
  <2>2. Max(1 .. k) = k
    <3>1. k - 1 \in Nat /\ (k - 1) + 1 = k
          OBVIOUS
    <3> QED BY <2>1, <3>1, MaxIsLast
  <2>3. (1 .. k) \ {k} = 1 .. k - 1
        OBVIOUS
  <2>4. f[1 .. k] = F[<<f[1 .. k - 1], s[k]>>]
        BY <1>1, <2>1, <2>2, <2>3 DEF StepsBy
  <2>5. s[k] \in B
        OBVIOUS
  <2> QED BY <1>1, <2>4, <2>5
<1>2. Nat \subseteq G
  <2>1. 1 .. 0 = {} /\ 0 \in G
        BY DEF StepsBy
  <2>2. \A k \in Nat : k \in G => k + 1 \in G
    <3> SUFFICES ASSUME NEW k \in Nat, k \in G, k + 1 <= Len(s) PROVE f[1 .. k + 1] \in A
        OBVIOUS
    <3>1. k + 1 \in 1 .. Len(s) /\ (k + 1) - 1 = k /\ f[1 .. k] \in A
          OBVIOUS
    <3> QED BY <1>1, <3>1
  <2> HIDE DEF G
  <2> QED BY <2>1, <2>2, Induction
<1>3. \A k \in 0 .. Len(s) : f[1 .. k] \in A
      BY <1>2
<1>4. h \in [0 .. Len(s) -> A] /\ h[0] = base /\ h[Len(s)] = f[1 .. Len(s)]
  <2>1. 1 .. 0 = {}
        OBVIOUS
  <2> QED BY <1>3, <2>1 DEF StepsBy
<1>5. \A k \in 1 .. Len(s) : h[k] = F[<<h[k - 1], s[k]>>]
      BY <1>1, <1>3
<1> HIDE DEF h
<1> QED BY <1>4, <1>5 DEF Runs

----------------------------------------------------------------------------
(* Lines to paragraphs.                                                    *)

Paragraph(T) == Seq(T) \ {<<>>}

Joining(T) == [done : Seq(Paragraph(T)), open : Seq(T)]

Has(ps, t)     == \E a \in DOMAIN ps : \E b \in DOMAIN ps[a] : ps[a][b] = t
Joined(acc, t) == Has(acc.done, t) \/ \E b \in DOMAIN acc.open : acc.open[b] = t

LEMMA CloseJoins ==
    ASSUME NEW T, NEW acc \in Joining(T)
    PROVE  /\ Close(acc) \in Joining(T)
           /\ \A t : Joined(acc, t) => Has(Close(acc).done, t)
<1>1. acc.done \in Seq(Paragraph(T)) /\ acc.open \in Seq(T)
      BY DEF Joining
<1>2. CASE acc.open = <<>>
      BY <1>1, <1>2 DEF Close, Joining, Joined
<1>3. CASE acc.open # <<>>
  <2>1. acc.open \in Paragraph(T)
        BY <1>1, <1>3 DEF Paragraph
  <2> DEFINE new == Append(acc.done, acc.open)
  <2>2. Close(acc) = [done |-> new, open |-> <<>>]
        BY <1>3 DEF Close
  <2>3. /\ new \in Seq(Paragraph(T)) /\ Len(acc.done) + 1 \in DOMAIN new
        /\ new[Len(acc.done) + 1] = acc.open
        /\ \A a \in DOMAIN acc.done : a \in DOMAIN new /\ new[a] = acc.done[a]
        BY <1>1, <2>1
  <2> HIDE DEF new
  <2>4. \A t : Joined(acc, t) => Has(new, t)
        BY <2>3 DEF Joined, Has
  <2> QED BY <2>2, <2>3, <2>4 DEF Joining
<1> QED BY <1>2, <1>3

LEMMA AddJoins ==
    ASSUME NEW T, NEW acc \in Joining(T), NEW line \in T
    PROVE  /\ Add(acc, line) \in Joining(T)
           /\ Joined(Add(acc, line), line) /\ \A t : Joined(acc, t) => Joined(Add(acc, line), t)
<1>1. acc.done \in Seq(Paragraph(T)) /\ acc.open \in Seq(T)
      BY DEF Joining
<1> DEFINE new == Append(acc.open, line)
<1>2. /\ new \in Seq(T) /\ Len(acc.open) + 1 \in DOMAIN new /\ new[Len(acc.open) + 1] = line
      /\ \A b \in DOMAIN acc.open : b \in DOMAIN new /\ new[b] = acc.open[b]
      BY <1>1
<1>3. Add(acc, line) = [done |-> acc.done, open |-> new]
  <2>1. acc = [done |-> acc.done, open |-> acc.open]
        BY DEF Joining
  <2> QED BY <2>1 DEF Add
<1> HIDE DEF new
<1>4. Add(acc, line).done = acc.done /\ Add(acc, line).open = new
      BY <1>3
<1>5. Add(acc, line) \in Joining(T)
      BY <1>1, <1>2, <1>3 DEF Joining
<1> QED BY <1>2, <1>4, <1>5 DEF Joined

LEMMA ParagraphStepJoins ==
    ASSUME NEW T, NEW acc \in Joining(T), NEW line \in T
    PROVE  /\ ParagraphStep(acc, line) \in Joining(T)
           /\ \A t : Joined(acc, t) => Joined(ParagraphStep(acc, line), t)
           /\ line.kind # "blank" => Joined(ParagraphStep(acc, line), line)
<1>1. \A t : Joined(acc, t) => Joined(Close(acc), t)
      BY CloseJoins DEF Joined
<1>2. \A t : Joined(Add(acc, line), t) => Joined(Close(Add(acc, line)), t)
      BY CloseJoins, AddJoins DEF Joined
<1>3. /\ Close(acc) \in Joining(T) /\ Add(acc, line) \in Joining(T) /\ Close(Add(acc, line)) \in Joining(T)
      /\ Joined(Add(acc, line), line) /\ \A t : Joined(acc, t) => Joined(Add(acc, line), t)
      BY CloseJoins, AddJoins
<1>4. \/ line.kind = "blank" /\ ParagraphStep(acc, line) = Close(acc)
      \/ line.kind # "blank" /\ ParagraphStep(acc, line) = Close(Add(acc, line))
      \/ line.kind # "blank" /\ ParagraphStep(acc, line) = Add(acc, line)
  <2>1. CASE line.kind = "blank"
        BY <2>1 DEF ParagraphStep
  <2>2. CASE line.kind # "blank" /\ line.ends
        BY <2>2 DEF ParagraphStep
  <2>3. CASE line.kind # "blank" /\ ~line.ends
        BY <2>3 DEF ParagraphStep
  <2> QED BY <2>1, <2>2, <2>3
<1> QED BY <1>1, <1>2, <1>3, <1>4

(* The fold written out, as FoldRuns takes it.                             *)
LEMMA ParagraphsFolded ==
    ASSUME NEW lines
    PROVE  LET base == [done |-> <<>>, open |-> <<>>]
               c == CHOOSE f : f = [t \in SUBSET DOMAIN lines |->
                                      IF t = {} THEN base ELSE ParagraphStep(f[t \ {Max(t)}], lines[Max(t)])]
           IN  ReconstructParagraphs(lines) = Close(c[DOMAIN lines]).done
BY DEF ReconstructParagraphs, FoldLeft, MapThenFoldSet

LEMMA ParagraphFold ==
    ASSUME NEW T, NEW lines \in Seq(T)
    PROVE  \E h \in [0 .. Len(lines) -> Joining(T)] :
              /\ h[0] = [done |-> <<>>, open |-> <<>>]
              /\ ReconstructParagraphs(lines) = Close(h[Len(lines)]).done
              /\ \A k \in 1 .. Len(lines) : h[k] = ParagraphStep(h[k - 1], lines[k])
<1> DEFINE A == Joining(T)
           base == [done |-> <<>>, open |-> <<>>]
           F == [q \in A \X T |-> ParagraphStep(q[1], q[2])]
           E(f) == f = [t \in SUBSET DOMAIN lines |->
                          IF t = {} THEN base ELSE ParagraphStep(f[t \ {Max(t)}], lines[Max(t)])]
           c == CHOOSE f : E(f)
<1>1. F \in [A \X T -> A]
      BY ParagraphStepJoins
<1>2. base \in A /\ DOMAIN lines = 1 .. Len(lines)
  <2>1. <<>> \in Seq(Paragraph(T)) /\ <<>> \in Seq(T) /\ DOMAIN lines = 1 .. Len(lines)
        OBVIOUS
  <2> QED BY <2>1 DEF Joining
<1>3. ReconstructParagraphs(lines) = Close(c[DOMAIN lines]).done
      BY ParagraphsFolded
<1>4. \A a \in A, p \in T : F[<<a, p>>] = ParagraphStep(a, p)
      OBVIOUS
<1> HIDE DEF A, F, base
<1>5. \A t \in SUBSET (1 .. Len(lines)) : t # {} => lines[Max(t)] \in T
  <2>1. \A t \in SUBSET (1 .. Len(lines)) : t # {} => Max(t) \in 1 .. Len(lines)
        BY <1>1, <1>2, FoldExists
  <2> QED BY <2>1
<1>6. E(c)
  <2>1. PICK f : Folds(f, F, base, lines, Len(lines)) /\ f \in [SUBSET (1 .. Len(lines)) -> A]
        BY <1>1, <1>2, FoldExists
  <2>2. E(f)
        BY <1>2, <1>4, <1>5, <2>1 DEF Folds
  <2> QED BY <2>2
<1>7. StepsBy(c, F, A, base, lines)
  <2>1. c[{}] = base
        BY <1>2, <1>6
  <2>2. \A t \in SUBSET (1 .. Len(lines)) : t # {} => c[t] = ParagraphStep(c[t \ {Max(t)}], lines[Max(t)])
        BY <1>2, <1>6
  <2> HIDE DEF c
  <2> QED BY <1>4, <1>5, <2>1, <2>2 DEF StepsBy
<1> HIDE DEF c
<1>8. PICK h : Runs(h, F, A, base, lines, c[1 .. Len(lines)])
      BY <1>1, <1>2, <1>7, FoldRuns
<1>9. \A k \in 1 .. Len(lines) : h[k] = ParagraphStep(h[k - 1], lines[k])
  <2>1. \A k \in 1 .. Len(lines) : k - 1 \in 0 .. Len(lines) /\ lines[k] \in T
        BY <1>2
  <2>2. \A k \in 1 .. Len(lines) : h[k - 1] \in A
        BY <1>8, <2>1 DEF Runs
  <2> QED BY <1>4, <1>8, <2>1, <2>2 DEF Runs
<1>10. h \in [0 .. Len(lines) -> A] /\ h[0] = base /\ ReconstructParagraphs(lines) = Close(h[Len(lines)]).done
       BY <1>2, <1>3, <1>8 DEF Runs
<1> QED BY <1>9, <1>10 DEF A, base

(* Every line that is not blank is in a paragraph, and no other.           *)
LEMMA ParagraphsHoldLines ==
    ASSUME NEW T, NEW lines \in Seq(T)
    PROVE  /\ ReconstructParagraphs(lines) \in Seq(Paragraph(T))
           /\ \A k \in 1 .. Len(lines) : lines[k].kind # "blank" => Has(ReconstructParagraphs(lines), lines[k])
<1>1. PICK h \in [0 .. Len(lines) -> Joining(T)] :
              /\ h[0] = [done |-> <<>>, open |-> <<>>]
              /\ ReconstructParagraphs(lines) = Close(h[Len(lines)]).done
              /\ \A k \in 1 .. Len(lines) : h[k] = ParagraphStep(h[k - 1], lines[k])
      BY ParagraphFold
<1> DEFINE Kept(m) == \A k \in 1 .. m : lines[k].kind # "blank" => Joined(h[m], lines[k])
           G == {m \in Nat : m <= Len(lines) => Kept(m)}
<1>2. 0 \in G
      OBVIOUS
<1>3. ASSUME NEW m \in Nat, m + 1 <= Len(lines), Kept(m) PROVE Kept(m + 1)
  <2>1. h[m] \in Joining(T) /\ h[m + 1] = ParagraphStep(h[m], lines[m + 1]) /\ lines[m + 1] \in T
    <3>1. m + 1 \in 1 .. Len(lines) /\ (m + 1) - 1 = m /\ m \in 0 .. Len(lines)
          BY <1>3
    <3> QED BY <1>1, <3>1
  <2>2. \A t : Joined(h[m], t) => Joined(h[m + 1], t)
        BY <2>1, ParagraphStepJoins
  <2>3. lines[m + 1].kind # "blank" => Joined(h[m + 1], lines[m + 1])
        BY <2>1, ParagraphStepJoins
  <2> SUFFICES ASSUME NEW k \in 1 .. m + 1, lines[k].kind # "blank" PROVE Joined(h[m + 1], lines[k])
      OBVIOUS
  <2>4. k \in 1 .. m \/ k = m + 1
        OBVIOUS
  <2> QED BY <1>3, <2>2, <2>3, <2>4
<1>4. Nat \subseteq G
  <2> HIDE DEF Kept
  <2>1. \A m \in Nat : m \in G => m + 1 \in G
        BY <1>3
  <2> HIDE DEF G
  <2> QED BY <1>2, <2>1, Induction
<1>5. Kept(Len(lines))
  <2> HIDE DEF Kept
  <2> QED BY <1>4
<1>6. h[Len(lines)] \in Joining(T)
      OBVIOUS
<1>7. Close(h[Len(lines)]).done \in Seq(Paragraph(T)) /\ \A t : Joined(h[Len(lines)], t) => Has(Close(h[Len(lines)]).done, t)
      BY <1>6, CloseJoins DEF Joining
<1> QED BY <1>1, <1>5, <1>7

----------------------------------------------------------------------------
(* Figures are told from text.                                             *)

Block(P) == [kind : {"text", "figure"}, content : Paragraph(P)]

FigureKind(p) == IF IsFigureData(p) \/ IsFigureCaption(p) THEN "figure" ELSE "text"

FigureStep(acc, p) ==
    IF acc # <<>> /\ acc[Len(acc)].kind = FigureKind(p)
    THEN [acc EXCEPT ![Len(acc)].content = Append(@, p)]
    ELSE Append(acc, [kind |-> FigureKind(p), content |-> <<p>>])

(* A block has paragraphs of its kind only, and is as long as it can be.   *)
Told(b)         == \A j \in DOMAIN b.content : FigureKind(b.content[j]) = b.kind
Alternating(bs) == \A e \in 2 .. Len(bs) : bs[e - 1].kind # bs[e].kind
Told2(bs)       == (\A e \in DOMAIN bs : Told(bs[e])) /\ Alternating(bs)

Holds(bs, p) == \E e \in DOMAIN bs : \E j \in DOMAIN bs[e].content : bs[e].content[j] = p

LEMMA ContentReplaced ==
    ASSUME NEW P, NEW b \in Block(P), NEW ps \in Paragraph(P)
    PROVE  [b EXCEPT !.content = ps] = [kind |-> b.kind, content |-> ps]
BY DEF Block

LEMMA FigureStepTells ==
    ASSUME NEW P, NEW acc \in Seq(Block(P)), NEW p \in P
    PROVE  /\ FigureStep(acc, p) \in Seq(Block(P))
           /\ Told2(acc) => Told2(FigureStep(acc, p))
           /\ \A x : Holds(acc, x) => Holds(FigureStep(acc, p), x)
           /\ Holds(FigureStep(acc, p), p)
<1>1. FigureKind(p) \in {"text", "figure"}
      BY DEF FigureKind
<1> DEFINE k == FigureKind(p)
<1>2. CASE acc # <<>> /\ acc[Len(acc)].kind = k
  <2> DEFINE last == acc[Len(acc)]
             more == [kind |-> last.kind, content |-> Append(last.content, p)]
             new  == [acc EXCEPT ![Len(acc)] = more]
  <2>0. Len(acc) \in DOMAIN acc /\ last \in Block(P)
        BY <1>2
  <2>1. Len(acc) \in DOMAIN acc /\ last \in Block(P) /\ last.content \in Seq(P) /\ last.kind \in {"text", "figure"}
        BY <2>0 DEF Block, Paragraph
  <2>2. /\ Append(last.content, p) \in Paragraph(P) /\ DOMAIN Append(last.content, p) = 1 .. Len(last.content) + 1
        /\ Append(last.content, p)[Len(last.content) + 1] = p
        /\ \A j \in 1 .. Len(last.content) : Append(last.content, p)[j] = last.content[j]
        /\ DOMAIN last.content = 1 .. Len(last.content) /\ Len(last.content) \in Nat
        BY <2>1 DEF Paragraph
  <2>3. more \in Block(P) /\ more.kind = k /\ more.content = Append(last.content, p) /\ last.kind = k
        BY <1>2, <2>1, <2>2 DEF Block
  <2>4. FigureStep(acc, p) = new
    <3> DEFINE longer == [last EXCEPT !.content = Append(last.content, p)]
    <3>1. FigureStep(acc, p) = [acc EXCEPT ![Len(acc)] = longer]
          BY <1>2 DEF FigureStep
    <3>2. longer = more
      <4> HIDE DEF last
      <4> QED BY <2>1, <2>2, ContentReplaced
    <3> HIDE DEF longer
    <3> QED BY <3>1, <3>2
  <2> HIDE DEF more, last
  <2>5. new \in Seq(Block(P)) /\ Len(new) = Len(acc) /\ DOMAIN new = DOMAIN acc
        BY <2>1, <2>3
  <2>6. new[Len(acc)] = more /\ \A e \in DOMAIN acc : e # Len(acc) => new[e] = acc[e]
        BY <2>1, <2>3
  <2>7. \A e \in DOMAIN acc : new[e].kind = acc[e].kind
        BY <2>3, <2>6 DEF last
  <2> HIDE DEF new
  <2>8. ASSUME Told2(acc) PROVE Told2(new)
    <3>1. Told(last)
          BY <2>1, <2>8 DEF Told2, last
    <3>2. Told(more)
      <4> SUFFICES ASSUME NEW j \in DOMAIN more.content PROVE FigureKind(more.content[j]) = more.kind
          BY DEF Told
      <4>1. j \in DOMAIN last.content \/ j = Len(last.content) + 1
            BY <2>2, <2>3
      <4> QED BY <2>2, <2>3, <3>1, <4>1 DEF Told
    <3>3. \A e \in DOMAIN new : Told(new[e])
          BY <2>5, <2>6, <2>8, <3>2 DEF Told2
    <3>4. \A e \in 2 .. Len(acc) : e \in DOMAIN acc /\ e - 1 \in DOMAIN acc
          OBVIOUS
    <3>5. Alternating(new)
          BY <2>5, <2>7, <2>8, <3>4 DEF Told2, Alternating
    <3> QED BY <3>3, <3>5 DEF Told2
  <2>9. \A x : Holds(acc, x) => Holds(new, x)
    <3> SUFFICES ASSUME NEW x, NEW e \in DOMAIN acc, NEW j \in DOMAIN acc[e].content, acc[e].content[j] = x
                 PROVE  Holds(new, x)
        BY DEF Holds
    <3>1. CASE e = Len(acc)
      <4>1. j \in 1 .. Len(last.content) /\ last.content[j] = x
            BY <2>2, <3>1 DEF last
      <4>2. j \in DOMAIN more.content /\ more.content[j] = x
            BY <2>2, <2>3, <4>1
      <4> QED BY <2>5, <2>6, <3>1, <4>2 DEF Holds
    <3>2. CASE e # Len(acc)
          BY <2>5, <2>6, <3>2 DEF Holds
    <3> QED BY <3>1, <3>2
  <2>10. Holds(new, p)
    <3>1. Len(last.content) + 1 \in DOMAIN more.content /\ more.content[Len(last.content) + 1] = p
          BY <2>2, <2>3
    <3> QED BY <2>1, <2>5, <2>6, <3>1 DEF Holds
  <2> QED BY <2>4, <2>5, <2>8, <2>9, <2>10
<1>3. CASE ~(acc # <<>> /\ acc[Len(acc)].kind = k)
  <2> DEFINE b == [kind |-> k, content |-> <<p>>]
             new == Append(acc, b)
  <2>1. b \in Block(P) /\ b.kind = k /\ b.content = <<p>> /\ DOMAIN b.content = {1} /\ b.content[1] = p
    <3> HIDE DEF k
    <3>1. <<p>> \in Paragraph(P) /\ DOMAIN <<p>> = {1} /\ <<p>>[1] = p
          BY DEF Paragraph
    <3>2. k \in {"text", "figure"}
          BY <1>1 DEF k
    <3> QED BY <3>1, <3>2 DEF Block
  <2>2. FigureStep(acc, p) = new
        BY <1>3 DEF FigureStep
  <2> HIDE DEF b
  <2>3. new \in Seq(Block(P)) /\ Len(new) = Len(acc) + 1 /\ DOMAIN new = 1 .. Len(acc) + 1 /\ DOMAIN acc = 1 .. Len(acc)
        BY <2>1
  <2>4. new[Len(acc) + 1] = b /\ \A e \in DOMAIN acc : e \in DOMAIN new /\ new[e] = acc[e]
        BY <2>1
  <2>5. Len(acc) \in Nat
        OBVIOUS
  <2> HIDE DEF new
  <2>6. ASSUME Told2(acc) PROVE Told2(new)
    <3>1. Told(b)
          BY <2>1 DEF Told
    <3>2. \A e \in DOMAIN new : Told(new[e])
      <4> SUFFICES ASSUME NEW e \in DOMAIN new PROVE Told(new[e])
          OBVIOUS
      <4>1. e \in DOMAIN acc \/ e = Len(acc) + 1
            BY <2>3, <2>5
      <4> QED BY <2>4, <2>6, <3>1, <4>1 DEF Told2
    <3>3. Alternating(new)
      <4> SUFFICES ASSUME NEW e \in 2 .. Len(acc) + 1 PROVE new[e - 1].kind # new[e].kind
          BY <2>3 DEF Alternating
      <4>1. CASE e = Len(acc) + 1
        <5>1. e - 1 = Len(acc) /\ Len(acc) \in DOMAIN acc /\ acc # <<>>
              BY <2>3, <2>5, <4>1
        <5> QED BY <1>3, <2>1, <2>4, <4>1, <5>1
      <4>2. CASE e # Len(acc) + 1
        <5>1. e \in 2 .. Len(acc) /\ e \in DOMAIN acc /\ e - 1 \in DOMAIN acc
              BY <2>3, <2>5, <4>2
        <5> QED BY <2>4, <2>6, <5>1 DEF Told2, Alternating
      <4> QED BY <4>1, <4>2
    <3> QED BY <3>2, <3>3 DEF Told2
  <2>7. \A x : Holds(acc, x) => Holds(new, x)
        BY <2>4 DEF Holds
  <2>8. Holds(new, p)
        BY <2>1, <2>3, <2>4, <2>5 DEF Holds
  <2> QED BY <2>2, <2>3, <2>6, <2>7, <2>8
<1> QED BY <1>2, <1>3

LEMMA FigureFold ==
    ASSUME NEW P, NEW ps \in Seq(P)
    PROVE  \E h \in [0 .. Len(ps) -> Seq(Block(P))] :
              /\ h[0] = <<>> /\ SplitFigureBlocks(ps) = h[Len(ps)]
              /\ \A k \in 1 .. Len(ps) : h[k] = FigureStep(h[k - 1], ps[k])
<1> DEFINE A == Seq(Block(P))
           B == P
           base == <<>>
           F == [q \in A \X B |-> FigureStep(q[1], q[2])]
           E(f) == f = [t \in SUBSET DOMAIN ps |->
                          IF t = {} THEN base ELSE FigureStep(f[t \ {Max(t)}], ps[Max(t)])]
           c == CHOOSE f : E(f)
<1>1. F \in [A \X B -> A]
      BY FigureStepTells
<1>2. base \in A /\ DOMAIN ps = 1 .. Len(ps) /\ ps \in Seq(B)
      BY DEF A, B
<1>3. SplitFigureBlocks(ps) = c[DOMAIN ps]
      BY DEF FoldLeft, MapThenFoldSet, SplitFigureBlocks, FigureStep, FigureKind
<1>4. \A a \in A, x \in B : F[<<a, x>>] = FigureStep(a, x)
      OBVIOUS
<1> HIDE DEF A, B, F, base
<1>5. \A t \in SUBSET (1 .. Len(ps)) : t # {} => ps[Max(t)] \in B
  <2>1. \A t \in SUBSET (1 .. Len(ps)) : t # {} => Max(t) \in 1 .. Len(ps)
        BY <1>1, <1>2, FoldExists
  <2> QED BY <1>2, <2>1
<1>6. E(c)
  <2>1. PICK f : Folds(f, F, base, ps, Len(ps)) /\ f \in [SUBSET (1 .. Len(ps)) -> A]
        BY <1>1, <1>2, FoldExists
  <2>2. E(f)
        BY <1>2, <1>4, <1>5, <2>1 DEF Folds
  <2> QED BY <2>2
<1>7. StepsBy(c, F, A, base, ps)
  <2>1. c[{}] = base
        BY <1>2, <1>6
  <2>2. \A t \in SUBSET (1 .. Len(ps)) : t # {} => c[t] = FigureStep(c[t \ {Max(t)}], ps[Max(t)])
        BY <1>2, <1>6
  <2> HIDE DEF c
  <2> QED BY <1>4, <1>5, <2>1, <2>2 DEF StepsBy
<1> HIDE DEF c
<1>8. PICK h : Runs(h, F, A, base, ps, c[1 .. Len(ps)])
      BY <1>1, <1>2, <1>7, FoldRuns
<1>9. \A k \in 1 .. Len(ps) : h[k] = FigureStep(h[k - 1], ps[k])
  <2>1. \A k \in 1 .. Len(ps) : k - 1 \in 0 .. Len(ps) /\ ps[k] \in B
        BY <1>2
  <2>2. \A k \in 1 .. Len(ps) : h[k - 1] \in A
        BY <1>8, <2>1 DEF Runs
  <2> QED BY <1>4, <1>8, <2>1, <2>2 DEF Runs
<1>10. h \in [0 .. Len(ps) -> A] /\ h[0] = base /\ SplitFigureBlocks(ps) = h[Len(ps)]
       BY <1>2, <1>3, <1>8 DEF Runs
<1> QED BY <1>9, <1>10 DEF A, base

(* Every paragraph is in a block of its kind, and no other; two blocks of  *)
(* a kind never follow one another.                                        *)
LEMMA FiguresTold ==
    ASSUME NEW P, NEW ps \in Seq(P)
    PROVE  /\ SplitFigureBlocks(ps) \in Seq(Block(P)) /\ Told2(SplitFigureBlocks(ps))
           /\ \A k \in 1 .. Len(ps) : Holds(SplitFigureBlocks(ps), ps[k])
<1>1. PICK h \in [0 .. Len(ps) -> Seq(Block(P))] :
              /\ h[0] = <<>> /\ SplitFigureBlocks(ps) = h[Len(ps)]
              /\ \A k \in 1 .. Len(ps) : h[k] = FigureStep(h[k - 1], ps[k])
      BY FigureFold
<1> DEFINE Kept(m) == Told2(h[m]) /\ \A k \in 1 .. m : Holds(h[m], ps[k])
           G == {m \in Nat : m <= Len(ps) => Kept(m)}
<1>2. 0 \in G
      BY <1>1 DEF Told2, Alternating
<1>3. ASSUME NEW m \in Nat, m + 1 <= Len(ps), Kept(m) PROVE Kept(m + 1)
  <2>1. h[m] \in Seq(Block(P)) /\ h[m + 1] = FigureStep(h[m], ps[m + 1]) /\ ps[m + 1] \in P
    <3>1. m + 1 \in 1 .. Len(ps) /\ (m + 1) - 1 = m /\ m \in 0 .. Len(ps)
          BY <1>3
    <3> QED BY <1>1, <3>1
  <2>2. Told2(h[m + 1]) /\ Holds(h[m + 1], ps[m + 1]) /\ \A x : Holds(h[m], x) => Holds(h[m + 1], x)
    <3>1. Told2(h[m])
          BY <1>3
    <3>2. /\ Told2(h[m]) => Told2(FigureStep(h[m], ps[m + 1]))
          /\ \A x : Holds(h[m], x) => Holds(FigureStep(h[m], ps[m + 1]), x)
          /\ Holds(FigureStep(h[m], ps[m + 1]), ps[m + 1])
          BY <2>1, FigureStepTells
    <3> QED BY <2>1, <3>1, <3>2
  <2>3. \A k \in 1 .. m + 1 : k \in 1 .. m \/ k = m + 1
        OBVIOUS
  <2> QED BY <1>3, <2>2, <2>3
<1>4. Nat \subseteq G
  <2> HIDE DEF Kept
  <2>1. \A m \in Nat : m \in G => m + 1 \in G
        BY <1>3
  <2> HIDE DEF G
  <2> QED BY <1>2, <2>1, Induction
<1>5. Kept(Len(ps))
  <2> HIDE DEF Kept
  <2> QED BY <1>4
<1> QED BY <1>1, <1>5

----------------------------------------------------------------------------
(* Sorting.                                                                *)

Before(x, S, R) == {y \in S : <<y, x>> \in R}

StrictOrder(S, R) ==
    /\ \A x \in S : <<x, x>> \notin R
    /\ \A x, y, z \in S : <<x, y>> \in R /\ <<y, z>> \in R => <<x, z>> \in R
    /\ \A x, y \in S : x # y => <<x, y>> \in R \/ <<y, x>> \in R

(* Those before it number an element of a finite order.                    *)
LEMMA Ranked ==
    ASSUME NEW S, IsFiniteSet(S), NEW R, StrictOrder(S, R)
    PROVE  /\ Cardinality(S) \in Nat
           /\ \A x \in S : Cardinality(Before(x, S, R)) \in 0 .. Cardinality(S) - 1
           /\ \A x, y \in S : <<x, y>> \in R => Cardinality(Before(x, S, R)) < Cardinality(Before(y, S, R))
           /\ \A x, y \in S : Cardinality(Before(x, S, R)) = Cardinality(Before(y, S, R)) => x = y
           /\ \A k \in 0 .. Cardinality(S) - 1 : \E x \in S : Cardinality(Before(x, S, R)) = k
<1> DEFINE rank(x) == Cardinality(Before(x, S, R))
           m == Cardinality(S)
<1>1. m \in Nat
      BY FS_CardinalityType
<1>2. \A x \in S : Before(x, S, R) \in SUBSET S /\ x \notin Before(x, S, R) /\ IsFiniteSet(Before(x, S, R))
  <2>1. \A x \in S : Before(x, S, R) \in SUBSET S /\ x \notin Before(x, S, R)
        BY DEF Before, StrictOrder
  <2> QED BY <2>1, FS_Subset
<1>3. ASSUME NEW x \in S PROVE rank(x) \in 0 .. m - 1
  <2>1. rank(x) \in Nat /\ rank(x) <= m /\ rank(x) # m
    <3>1. Before(x, S, R) \in SUBSET S /\ Before(x, S, R) # S
          BY <1>2
    <3>2. rank(x) <= m /\ (m = rank(x) => S = Before(x, S, R))
          BY <3>1, FS_Subset
    <3>3. rank(x) \in Nat
          BY <1>2, FS_CardinalityType
    <3> QED BY <3>1, <3>2, <3>3
  <2> HIDE DEF rank, m
  <2> QED BY <1>1, <2>1
<1>4. ASSUME NEW x \in S, NEW y \in S, <<x, y>> \in R PROVE rank(x) < rank(y)
  <2>1. Before(x, S, R) \in SUBSET Before(y, S, R) /\ Before(y, S, R) # Before(x, S, R)
        BY <1>4 DEF Before, StrictOrder
  <2>2. rank(x) <= rank(y) /\ rank(x) # rank(y)
        BY <1>2, <2>1, FS_Subset
  <2>3. rank(x) \in Nat /\ rank(y) \in Nat
        BY <1>3, <1>1
  <2> HIDE DEF rank
  <2> QED BY <2>2, <2>3
<1>5. ASSUME NEW x \in S, NEW y \in S, rank(x) = rank(y) PROVE x = y
  <2> SUFFICES ASSUME x # y PROVE FALSE
      OBVIOUS
  <2>1. rank(x) < rank(y) \/ rank(y) < rank(x)
        BY <1>4 DEF StrictOrder
  <2>2. rank(x) \in Int /\ rank(y) \in Int
        BY <1>1, <1>3
  <2> HIDE DEF rank
  <2> QED BY <1>5, <2>1, <2>2
<1>6. ASSUME NEW k \in 0 .. m - 1 PROVE \E x \in S : rank(x) = k
  <2> DEFINE f == [x \in S |-> rank(x)]
  <2>1. f \in Injection(S, 0 .. m - 1)
    <3>1. f \in [S -> 0 .. m - 1]
          BY <1>3
    <3>2. \A x, y \in S : f[x] = f[y] => x = y
          BY <1>5
    <3> HIDE DEF f
    <3> QED BY <3>1, <3>2 DEF Injection, IsInjective
  <2>2. IsFiniteSet(0 .. m - 1) /\ Cardinality(0 .. m - 1) = m
    <3> HIDE DEF m
    <3>1. 0 \in Int /\ m - 1 \in Int
          BY <1>1
    <3>2. Cardinality(0 .. m - 1) = IF 0 > m - 1 THEN 0 ELSE (m - 1) - 0 + 1
          BY <3>1, FS_Interval
    <3>3. Cardinality(0 .. m - 1) = m
          BY <1>1, <3>2
    <3> QED BY <3>1, <3>3, FS_Interval
  <2>3. f \in Surjection(S, 0 .. m - 1)
    <3> HIDE DEF f
    <3> QED BY <2>1, <2>2, FS_Injection
  <2> QED BY <2>3 DEF Surjection
<1> QED BY <1>1, <1>3, <1>4, <1>5, <1>6

(* What the sorts of the code return: every element once, in order.        *)
Ranks(s, S, R) ==
    /\ s = [k \in 1 .. Cardinality(S) |-> s[k]]
    /\ \A k \in 1 .. Cardinality(S), x \in S :
          Cardinality(Before(x, S, R)) = k - 1 => s[k] \in S /\ Cardinality(Before(s[k], S, R)) = k - 1

LEMMA SequenceOf ==
    ASSUME NEW S, NEW m \in Nat, NEW s, s = [k \in 1 .. m |-> s[k]], \A k \in 1 .. m : s[k] \in S
    PROVE  s \in Seq(S) /\ Len(s) = m
OBVIOUS

LEMMA Sorted ==
    ASSUME NEW S, IsFiniteSet(S), NEW R, StrictOrder(S, R), NEW s, Ranks(s, S, R)
    PROVE  /\ s \in Seq(S) /\ Len(s) = Cardinality(S)
           /\ \A x \in S : \E k \in 1 .. Len(s) : s[k] = x
           /\ \A j, k \in 1 .. Len(s) : j < k => <<s[j], s[k]>> \in R
<1> DEFINE rank(x) == Cardinality(Before(x, S, R))
           m == Cardinality(S)
<1>1. m \in Nat
      BY FS_CardinalityType
<1>2. \A k \in 1 .. m : s[k] \in S /\ rank(s[k]) = k - 1
  <2> SUFFICES ASSUME NEW k \in 1 .. m PROVE s[k] \in S /\ rank(s[k]) = k - 1
      OBVIOUS
  <2>1. k - 1 \in 0 .. m - 1
    <3> HIDE DEF m
    <3> QED BY <1>1
  <2>2. \E x \in S : rank(x) = k - 1
        BY <2>1, Ranked
  <2>3. \A x \in S : rank(x) = k - 1 => s[k] \in S /\ rank(s[k]) = k - 1
        BY DEF Ranks
  <2> HIDE DEF rank, m
  <2> QED BY <2>2, <2>3
<1>3. s \in Seq(S) /\ Len(s) = m
  <2>1. s = [k \in 1 .. m |-> s[k]]
        BY DEF Ranks
  <2> HIDE DEF rank, m
  <2> QED BY <1>1, <1>2, <2>1, SequenceOf
<1>4. ASSUME NEW x \in S PROVE \E k \in 1 .. m : s[k] = x
  <2>1. rank(x) \in 0 .. m - 1 /\ \A y \in S : rank(x) = rank(y) => x = y
        BY Ranked
  <2> HIDE DEF rank, m
  <2>2. rank(x) + 1 \in 1 .. m /\ (rank(x) + 1) - 1 = rank(x)
        BY <1>1, <2>1
  <2>3. s[rank(x) + 1] = x
        BY <1>2, <2>1, <2>2
  <2> QED BY <2>2, <2>3
<1>5. ASSUME NEW j \in 1 .. m, NEW k \in 1 .. m, j < k PROVE <<s[j], s[k]>> \in R
  <2>1. rank(s[j]) = j - 1 /\ rank(s[k]) = k - 1 /\ s[j] \in S /\ s[k] \in S
        BY <1>2
  <2>2. <<s[k], s[j]>> \in R => rank(s[k]) < rank(s[j])
        BY <2>1, Ranked
  <2> HIDE DEF rank, m
  <2>3. j \in Int /\ k \in Int /\ s[j] # s[k] /\ ~(rank(s[k]) < rank(s[j]))
        BY <1>1, <1>5, <2>1
  <2> QED BY <2>1, <2>2, <2>3 DEF StrictOrder
<1> HIDE DEF m, rank
<1>6. m = Cardinality(S)
      BY DEF m
<1> QED BY <1>3, <1>4, <1>5, <1>6

----------------------------------------------------------------------------
(* Reading order.                                                          *)

(* Runs of a page, as DocumentsOK has them.                                *)
RunsOK(objs) ==
    /\ IsFiniteSet(objs)
    /\ \A o \in objs : o.x0 \in Int /\ o.x1 \in Int /\ o.y \in Int
    /\ \A o, p \in objs : o # p => Above(o, p) \/ Above(p, o)

AboveOn(objs) == {q \in objs \X objs : Above(q[1], q[2])}

LEMMA RunsOfPart ==
    ASSUME NEW objs, RunsOK(objs), NEW some \in SUBSET objs
    PROVE  RunsOK(some)
BY FS_Subset DEF RunsOK

LEMMA TopDownSorts ==
    ASSUME NEW objs, RunsOK(objs)
    PROVE  /\ TopDown(objs) \in Seq(objs)
           /\ \A o \in objs : \E k \in 1 .. Len(TopDown(objs)) : TopDown(objs)[k] = o
           /\ \A j, k \in 1 .. Len(TopDown(objs)) : j < k => Above(TopDown(objs)[j], TopDown(objs)[k])
<1> DEFINE R == AboveOn(objs)
<1>1. \A o \in objs : Before(o, objs, R) = {p \in objs : Above(p, o)}
      BY DEF Before, AboveOn
<1>2. \A o, p \in objs : <<o, p>> \in R <=> Above(o, p)
      BY DEF AboveOn
<1> HIDE DEF R
<1>3. StrictOrder(objs, R)
  <2>1. \A o \in objs : ~Above(o, o)
        BY DEF RunsOK, Above
  <2>2. \A o, p, q \in objs : Above(o, p) /\ Above(p, q) => Above(o, q)
        BY DEF RunsOK, Above
  <2> QED BY <1>2, <2>1, <2>2 DEF StrictOrder, RunsOK
<1>4. Ranks(TopDown(objs), objs, R)
  <2> DEFINE rank(o) == Cardinality({p \in objs : Above(p, o)})
  <2>1. TopDown(objs) = [k \in 1 .. Cardinality(objs) |-> CHOOSE o \in objs : rank(o) = k - 1]
        BY DEF TopDown
  <2>2. \A o \in objs : Cardinality(Before(o, objs, R)) = rank(o)
        BY <1>1
  <2> HIDE DEF rank
  <2>3. \A k \in 1 .. Cardinality(objs), o \in objs :
           rank(o) = k - 1 => TopDown(objs)[k] \in objs /\ rank(TopDown(objs)[k]) = k - 1
        BY <2>1
  <2> QED BY <2>1, <2>2, <2>3 DEF Ranks
<1>5. IsFiniteSet(objs)
      BY DEF RunsOK
<1> HIDE DEF R
<1>6. /\ TopDown(objs) \in Seq(objs) /\ Len(TopDown(objs)) = Cardinality(objs)
      /\ \A o \in objs : \E k \in 1 .. Len(TopDown(objs)) : TopDown(objs)[k] = o
      /\ \A j, k \in 1 .. Len(TopDown(objs)) : j < k => <<TopDown(objs)[j], TopDown(objs)[k]>> \in R
      BY <1>3, <1>4, <1>5, Sorted
<1>7. \A k \in 1 .. Len(TopDown(objs)) : TopDown(objs)[k] \in objs
      BY <1>6
<1> QED BY <1>2, <1>6, <1>7

(* An order has a least member: the one of rank 0.                         *)
LEMMA LeastRanked ==
    ASSUME NEW S, IsFiniteSet(S), S # {}, NEW R, StrictOrder(S, R)
    PROVE  \E x \in S : Before(x, S, R) = {}
<1>1. \A k \in 0 .. Cardinality(S) - 1 : \E x \in S : Cardinality(Before(x, S, R)) = k
      BY Ranked
<1>2. 0 \in 0 .. Cardinality(S) - 1
      BY FS_CardinalityType, FS_EmptySet
<1>3. PICK x \in S : Cardinality(Before(x, S, R)) = 0
      BY <1>1, <1>2
<1>4. Before(x, S, R) \in SUBSET S
      BY DEF Before
<1> QED BY <1>3, <1>4, FS_Subset, FS_EmptySet

(* The middle of a page.                                                   *)
LEMMA Extremes ==
    ASSUME NEW S, IsFiniteSet(S), S # {}, S \subseteq Int
    PROVE  Lowest(S) \in S /\ Highest(S) \in S
<1> DEFINE R == {q \in S \X S : q[1] < q[2]}
           Q == {q \in S \X S : q[2] < q[1]}
<1>1. /\ \A x, y \in S : <<x, y>> \in R <=> x < y
      /\ \A x, y \in S : <<x, y>> \in Q <=> y < x
      OBVIOUS
<1> HIDE DEF R, Q
<1>2. StrictOrder(S, R) /\ StrictOrder(S, Q)
  <2>1. /\ \A x \in S : ~(x < x)
        /\ \A x, y, z \in S : x < y /\ y < z => x < z
        /\ \A x, y \in S : x # y => x < y \/ y < x
        OBVIOUS
  <2> QED BY <1>1, <2>1 DEF StrictOrder
<1>3. \E x \in S : \A y \in S : x <= y
  <2>1. PICK x \in S : Before(x, S, R) = {}
        BY <1>2, LeastRanked
  <2>2. \A y \in S : ~(y < x)
        BY <1>1, <2>1 DEF Before
  <2> QED BY <2>2
<1>4. \E x \in S : \A y \in S : y <= x
  <2>1. PICK x \in S : Before(x, S, Q) = {}
        BY <1>2, LeastRanked
  <2>2. \A y \in S : ~(x < y)
        BY <1>1, <2>1 DEF Before
  <2> QED BY <2>2
<1> QED BY <1>3, <1>4 DEF Lowest, Highest

LEMMA MiddleIsInt ==
    ASSUME NEW objs, RunsOK(objs), objs # {}
    PROVE  Middle(objs) \in Int
<1> DEFINE L == {o.x0 : o \in objs}
           H == {o.x1 : o \in objs}
<1>1. L \subseteq Int /\ H \subseteq Int /\ L # {} /\ H # {} /\ IsFiniteSet(objs)
      BY DEF RunsOK
<1>2. IsFiniteSet(L)
  <2> DEFINE f == [o \in objs |-> o.x0]
  <2>1. f \in Surjection(objs, L)
        BY DEF Surjection
  <2> QED BY <1>1, <2>1, FS_Surjection
<1>3. IsFiniteSet(H)
  <2> DEFINE f == [o \in objs |-> o.x1]
  <2>1. f \in Surjection(objs, H)
        BY DEF Surjection
  <2> QED BY <1>1, <2>1, FS_Surjection
<1>4. Middle(objs) = Lowest(L) + Highest(H)
      BY DEF Middle
<1> HIDE DEF L, H
<1>5. Lowest(L) \in L /\ Highest(H) \in H
      BY <1>1, <1>2, <1>3, Extremes
<1>6. Lowest(L) \in Int /\ Highest(H) \in Int
      BY <1>1, <1>5
<1> QED BY <1>4, <1>6

(* The bands of a two-column page.                                         *)
LeftOf(b, objs)  == {o \in b : 2 * o.x1 <= Middle(objs)}
RightOf(b, objs) == {o \in b : 2 * o.x0 >= Middle(objs)}

ReadStep(objs, acc, o) ==
    IF o \in Spanning(objs) THEN Append(acc, o)
    ELSE IF \E i \in DOMAIN acc : acc[i] \in BandOf(o, objs) THEN acc
    ELSE acc \o TopDown(LeftOf(BandOf(o, objs), objs)) \o TopDown(RightOf(BandOf(o, objs), objs))

Among(x, s) == \E j \in DOMAIN s : s[j] = x

(* Bands are read as a whole.                                              *)
BandsWhole(objs, acc) ==
    \A o \in objs : (\E p \in BandOf(o, objs) : Among(p, acc)) => \A p \in BandOf(o, objs) : Among(p, acc)

LEMMA SeqMonotone ==
    ASSUME NEW S, NEW R, R \subseteq S, NEW s \in Seq(R)
    PROVE  s \in Seq(S)
OBVIOUS

LEMMA SameMembers ==
    ASSUME NEW E, NEW es \in Seq(E), NEW fs \in Seq(E), Len(es) = Len(fs), \A e \in 1 .. Len(fs) : es[e] = fs[e]
    PROVE  es = fs
OBVIOUS

LEMMA Concatenated ==
    ASSUME NEW E, NEW es \in Seq(E), NEW fs \in Seq(E)
    PROVE  /\ es \o fs \in Seq(E) /\ Len(es \o fs) = Len(es) + Len(fs)
           /\ Len(es) \in Nat /\ DOMAIN es = 1 .. Len(es)
           /\ Len(fs) \in Nat /\ DOMAIN fs = 1 .. Len(fs) /\ DOMAIN (es \o fs) = 1 .. Len(es) + Len(fs)
           /\ \A e \in 1 .. Len(es) : (es \o fs)[e] = es[e] /\ e \in DOMAIN (es \o fs)
           /\ \A e \in 1 .. Len(fs) : (es \o fs)[Len(es) + e] = fs[e] /\ Len(es) + e \in DOMAIN (es \o fs)
OBVIOUS

LEMMA ConcatAmong ==
    ASSUME NEW E, NEW es \in Seq(E), NEW fs \in Seq(E)
    PROVE  \A x : Among(x, es \o fs) <=> Among(x, es) \/ Among(x, fs)
<1> DEFINE all == es \o fs
<1>1. /\ Len(es) \in Nat /\ Len(fs) \in Nat
      /\ DOMAIN es = 1 .. Len(es) /\ DOMAIN fs = 1 .. Len(fs) /\ DOMAIN all = 1 .. Len(es) + Len(fs)
      /\ \A e \in 1 .. Len(es) : all[e] = es[e]
      /\ \A e \in 1 .. Len(fs) : all[Len(es) + e] = fs[e]
      BY Concatenated
<1> HIDE DEF all
<1>2. \A x : Among(x, es) \/ Among(x, fs) => Among(x, all)
  <2>1. \A e \in 1 .. Len(fs) : Len(es) + e \in DOMAIN all
        BY <1>1
  <2>2. \A e \in 1 .. Len(es) : e \in DOMAIN all
        BY <1>1
  <2> QED BY <1>1, <2>1, <2>2 DEF Among
<1>3. ASSUME NEW x, Among(x, all) PROVE Among(x, es) \/ Among(x, fs)
  <2>1. PICK k \in DOMAIN all : all[k] = x
        BY <1>3 DEF Among
  <2>2. CASE k \in 1 .. Len(es)
        BY <1>1, <2>1, <2>2 DEF Among
  <2>3. CASE k \notin 1 .. Len(es)
    <3>1. k - Len(es) \in 1 .. Len(fs) /\ Len(es) + (k - Len(es)) = k
          BY <1>1, <2>3
    <3>2. fs[k - Len(es)] = x
          BY <1>1, <2>1, <3>1
    <3> QED BY <1>1, <3>1, <3>2 DEF Among
  <2> QED BY <2>2, <2>3
<1> QED BY <1>2, <1>3 DEF all

LEMMA TopDownAmong ==
    ASSUME NEW objs, RunsOK(objs)
    PROVE  \A o : Among(o, TopDown(objs)) <=> o \in objs
<1>1. TopDown(objs) \in Seq(objs) /\ \A o \in objs : \E k \in 1 .. Len(TopDown(objs)) : TopDown(objs)[k] = o
      BY TopDownSorts
<1> QED BY <1>1 DEF Among

LEMMA ReadStepReads ==
    ASSUME NEW objs, RunsOK(objs), NEW acc \in Seq(objs), NEW o \in objs
    PROVE  /\ ReadStep(objs, acc, o) \in Seq(objs)
           /\ \A x : Among(x, acc) => Among(x, ReadStep(objs, acc, o))
           /\ BandsWhole(objs, acc) => /\ BandsWhole(objs, ReadStep(objs, acc, o))
                                       /\ Among(o, ReadStep(objs, acc, o))
<1> DEFINE band == BandOf(o, objs)
           next == ReadStep(objs, acc, o)
<1>1. CASE o \in Spanning(objs)
  <2>1. next = acc \o <<o>> /\ <<o>> \in Seq(objs)
        BY <1>1 DEF ReadStep
  <2>2. \A x : Among(x, <<o>>) <=> x = o
        BY DEF Among
  <2> HIDE DEF next
  <2>3. next \in Seq(objs) /\ \A x : Among(x, next) <=> Among(x, acc) \/ x = o
    <3>1. acc \o <<o>> \in Seq(objs)
          BY <2>1
    <3> QED BY <2>1, <2>2, <3>1, ConcatAmong
  <2>4. \A q : o \notin BandOf(q, objs)
        BY <1>1 DEF BandOf
  <2>5. BandsWhole(objs, acc) => BandsWhole(objs, next)
        BY <2>3, <2>4 DEF BandsWhole
  <2> QED BY <2>3, <2>5 DEF next
<1>2. CASE o \notin Spanning(objs) /\ \E i \in DOMAIN acc : acc[i] \in band
  <2>1. next = acc
        BY <1>2 DEF ReadStep
  <2>2. o \in band
        BY <1>2 DEF BandOf
  <2>3. \E p \in band : Among(p, acc)
        BY <1>2 DEF Among
  <2> HIDE DEF band, next
  <2>4. BandsWhole(objs, acc) => Among(o, acc)
        BY <2>2, <2>3 DEF BandsWhole, band
  <2> QED BY <2>1, <2>4 DEF next
<1>3. CASE o \notin Spanning(objs) /\ ~ \E i \in DOMAIN acc : acc[i] \in band
  <2> DEFINE left  == TopDown(LeftOf(band, objs))
             right == TopDown(RightOf(band, objs))
  <2>1. next = acc \o left \o right
        BY <1>3 DEF ReadStep
  <2>2. band \subseteq objs /\ LeftOf(band, objs) \in SUBSET objs /\ RightOf(band, objs) \in SUBSET objs
        BY DEF BandOf, LeftOf, RightOf
  <2>3. RunsOK(LeftOf(band, objs)) /\ RunsOK(RightOf(band, objs))
        BY <2>2, RunsOfPart
  <2>4. /\ left \in Seq(objs) /\ right \in Seq(objs)
        /\ \A x : Among(x, left) <=> x \in LeftOf(band, objs)
        /\ \A x : Among(x, right) <=> x \in RightOf(band, objs)
    <3>1. left \in Seq(LeftOf(band, objs)) /\ right \in Seq(RightOf(band, objs))
          BY <2>3, TopDownSorts
    <3>2. left \in Seq(objs) /\ right \in Seq(objs)
      <4> HIDE DEF left, right
      <4> QED BY <2>2, <3>1, SeqMonotone
    <3> QED BY <2>3, <3>2, TopDownAmong
  <2>5. \A x : x \in LeftOf(band, objs) \/ x \in RightOf(band, objs) <=> x \in band
    <3>1. Middle(objs) \in Int
          BY MiddleIsInt
    <3>2. \A x \in band : x.x0 \in Int /\ x.x1 \in Int /\ x \notin Spanning(objs) /\ x \in objs
          BY DEF BandOf, RunsOK
    <3>3. \A x \in band : ~(2 * x.x0 < Middle(objs) /\ Middle(objs) < 2 * x.x1)
          BY <3>2 DEF Spanning
    <3> HIDE DEF band
    <3>4. \A x \in band : 2 * x.x1 <= Middle(objs) \/ 2 * x.x0 >= Middle(objs)
          BY <3>1, <3>2, <3>3
    <3> QED BY <3>4 DEF LeftOf, RightOf
  <2> HIDE DEF left, right
  <2>6. next \in Seq(objs) /\ \A x : Among(x, next) <=> Among(x, acc) \/ x \in band
    <3>1. acc \o left \in Seq(objs) /\ next \in Seq(objs)
      <4> HIDE DEF next
      <4> QED BY <2>1, <2>4
    <3>2. \A x : Among(x, acc \o left) <=> Among(x, acc) \/ Among(x, left)
          BY <2>4, ConcatAmong
    <3>3. \A x : Among(x, next) <=> Among(x, acc \o left) \/ Among(x, right)
      <4> HIDE DEF next
      <4> QED BY <2>1, <2>4, <3>1, ConcatAmong
    <3> HIDE DEF next, band
    <3> QED BY <2>4, <2>5, <3>1, <3>2, <3>3
  <2>7. o \in band
        BY <1>3 DEF BandOf
  <2>8. ASSUME NEW q \in objs, NEW p \in BandOf(q, objs), p \in band PROVE BandOf(q, objs) = band
        BY <2>8 DEF BandOf
  <2> HIDE DEF next
  <2>9. ASSUME BandsWhole(objs, acc) PROVE BandsWhole(objs, next)
    <3> SUFFICES ASSUME NEW q \in objs, NEW p \in BandOf(q, objs), Among(p, next)
                 PROVE  \A r \in BandOf(q, objs) : Among(r, next)
        BY DEF BandsWhole
    <3>1. CASE p \in band
      <4>1. BandOf(q, objs) = band
            BY <2>8, <3>1
      <4> QED BY <2>6, <4>1
    <3>2. CASE p \notin band
      <4>1. Among(p, acc)
            BY <2>6, <3>2
      <4> QED BY <2>6, <2>9, <4>1 DEF BandsWhole
    <3> QED BY <3>1, <3>2
  <2> QED BY <2>6, <2>7, <2>9 DEF next
<1> QED BY <1>1, <1>2, <1>3

LEMMA ReadFold ==
    ASSUME NEW objs, RunsOK(objs), TwoColumns(objs), NEW s, s = TopDown(objs), s \in Seq(objs)
    PROVE  \E h \in [0 .. Len(s) -> Seq(objs)] :
              /\ h[0] = <<>> /\ OrderPageTextObjects(objs) = h[Len(s)]
              /\ \A k \in 1 .. Len(s) : h[k] = ReadStep(objs, h[k - 1], s[k])
<1> DEFINE A == Seq(objs)
           base == <<>>
           F == [q \in A \X objs |-> ReadStep(objs, q[1], q[2])]
           E(f) == f = [t \in SUBSET DOMAIN s |->
                          IF t = {} THEN base ELSE ReadStep(objs, f[t \ {Max(t)}], s[Max(t)])]
           c == CHOOSE f : E(f)
<1>1. F \in [A \X objs -> A]
      BY ReadStepReads
<1>2. base \in A /\ DOMAIN s = 1 .. Len(s) /\ s \in Seq(objs)
      OBVIOUS
<1>3. OrderPageTextObjects(objs) = c[DOMAIN s]
      BY ZenonT(60) DEF FoldLeft, MapThenFoldSet, OrderPageTextObjects, ReadStep, LeftOf, RightOf
<1>4. \A a \in A, x \in objs : F[<<a, x>>] = ReadStep(objs, a, x)
      OBVIOUS
<1> HIDE DEF A, F, base
<1>5. \A t \in SUBSET (1 .. Len(s)) : t # {} => s[Max(t)] \in objs
  <2>1. \A t \in SUBSET (1 .. Len(s)) : t # {} => Max(t) \in 1 .. Len(s)
        BY <1>1, <1>2, FoldExists
  <2> QED BY <1>2, <2>1
<1>6. E(c)
  <2>1. PICK f : Folds(f, F, base, s, Len(s)) /\ f \in [SUBSET (1 .. Len(s)) -> A]
        BY <1>1, <1>2, FoldExists
  <2>2. E(f)
        BY <1>2, <1>4, <1>5, <2>1 DEF Folds
  <2> QED BY <2>2
<1>7. StepsBy(c, F, A, base, s)
  <2>1. c[{}] = base
        BY <1>2, <1>6
  <2>2. \A t \in SUBSET (1 .. Len(s)) : t # {} => c[t] = ReadStep(objs, c[t \ {Max(t)}], s[Max(t)])
        BY <1>2, <1>6
  <2> HIDE DEF c
  <2> QED BY <1>4, <1>5, <2>1, <2>2 DEF StepsBy
<1> HIDE DEF c
<1>8. PICK h : Runs(h, F, A, base, s, c[1 .. Len(s)])
      BY <1>1, <1>2, <1>7, FoldRuns
<1>9. \A k \in 1 .. Len(s) : h[k] = ReadStep(objs, h[k - 1], s[k])
  <2>1. \A k \in 1 .. Len(s) : k - 1 \in 0 .. Len(s) /\ s[k] \in objs
        BY <1>2
  <2>2. \A k \in 1 .. Len(s) : h[k - 1] \in A
        BY <1>8, <2>1 DEF Runs
  <2> QED BY <1>4, <1>8, <2>1, <2>2 DEF Runs
<1>10. h \in [0 .. Len(s) -> A] /\ h[0] = base /\ OrderPageTextObjects(objs) = h[Len(s)]
       BY <1>2, <1>3, <1>8 DEF Runs
<1> QED BY <1>9, <1>10 DEF A, base

(* Every run of the page is read.                                          *)
LEMMA OrderReadsAll ==
    ASSUME NEW objs, RunsOK(objs)
    PROVE  /\ OrderPageTextObjects(objs) \in Seq(objs)
           /\ \A o \in objs : Among(o, OrderPageTextObjects(objs))
<1> DEFINE s == TopDown(objs)
<1>1. s \in Seq(objs) /\ \A o : Among(o, s) <=> o \in objs
      BY TopDownSorts, TopDownAmong
<1>2. CASE ~TwoColumns(objs)
      BY <1>1, <1>2 DEF OrderPageTextObjects
<1>3. CASE TwoColumns(objs)
  <2> HIDE DEF s
  <2>1. s = TopDown(objs)
        BY DEF s
  <2>2. PICK h \in [0 .. Len(s) -> Seq(objs)] :
              /\ h[0] = <<>> /\ OrderPageTextObjects(objs) = h[Len(s)]
              /\ \A k \in 1 .. Len(s) : h[k] = ReadStep(objs, h[k - 1], s[k])
        BY <1>1, <1>3, <2>1, ReadFold
  <2> DEFINE Kept(m) == BandsWhole(objs, h[m]) /\ \A k \in 1 .. m : Among(s[k], h[m])
             G == {m \in Nat : m <= Len(s) => Kept(m)}
  <2>3. 0 \in G
        BY <2>2 DEF BandsWhole, Among
  <2>4. ASSUME NEW m \in Nat, m + 1 <= Len(s), Kept(m) PROVE Kept(m + 1)
    <3> DEFINE next == ReadStep(objs, h[m], s[m + 1])
    <3>1. m + 1 \in 1 .. Len(s) /\ (m + 1) - 1 = m /\ m \in 0 .. Len(s)
          BY <1>1, <2>4
    <3>2. h[m] \in Seq(objs) /\ s[m + 1] \in objs /\ h[m + 1] = next
          BY <1>1, <2>2, <3>1
    <3>3. \A x : Among(x, h[m]) => Among(x, next)
          BY <3>2, ReadStepReads
    <3>4. BandsWhole(objs, next) /\ Among(s[m + 1], next)
          BY <2>4, <3>2, ReadStepReads
    <3> HIDE DEF next
    <3>5. \A k \in 1 .. m + 1 : k \in 1 .. m \/ k = m + 1
          OBVIOUS
    <3> QED BY <2>4, <3>2, <3>3, <3>4, <3>5
  <2>5. Nat \subseteq G
    <3> HIDE DEF Kept
    <3>1. \A m \in Nat : m \in G => m + 1 \in G
          BY <2>4
    <3> HIDE DEF G
    <3> QED BY <2>3, <3>1, Induction
  <2>6. Len(s) \in Nat /\ DOMAIN s = 1 .. Len(s)
        BY <1>1
  <2>7. Kept(Len(s))
    <3> HIDE DEF Kept
    <3> QED BY <2>5, <2>6
  <2>8. \A o \in objs : Among(o, h[Len(s)])
        BY <1>1, <2>6, <2>7 DEF Among
  <2> QED BY <2>2, <2>6, <2>8
<1> QED BY <1>2, <1>3

----------------------------------------------------------------------------
(* Elements and the segments of a page.                                    *)

Segment(T, U) == [kind : {"text"}, content : Seq(Paragraph(T))] \cup [kind : {"table"}, content : U]
Element(T, U) == [kind : {"text", "figure"}, content : Seq(Paragraph(T))] \cup [kind : {"table"}, content : U]

LEMMA SegmentGrows ==
    ASSUME NEW T, NEW U, NEW V, U \subseteq V
    PROVE  Segment(T, U) \subseteq Segment(T, V)
BY DEF Segment

HoldsLine(es, t) == \E e \in DOMAIN es : es[e].kind # "table" /\ Has(es[e].content, t)

LEMMA ConcatHoldsLines ==
    ASSUME NEW E, NEW es \in Seq(E), NEW fs \in Seq(E), NEW t, HoldsLine(es, t) \/ HoldsLine(fs, t)
    PROVE  HoldsLine(es \o fs, t)
<1> DEFINE all == es \o fs
<1>1. /\ \A e \in DOMAIN es : all[e] = es[e] /\ e \in DOMAIN all
      /\ \A e \in DOMAIN fs : all[Len(es) + e] = fs[e] /\ Len(es) + e \in DOMAIN all
      BY Concatenated
<1> HIDE DEF all
<1>2. HoldsLine(all, t)
      BY <1>1 DEF HoldsLine
<1> QED BY <1>2 DEF all

LEMMA ConcatHas ==
    ASSUME NEW P, NEW ps \in Seq(P), NEW qs \in Seq(P), NEW t, Has(ps, t) \/ Has(qs, t)
    PROVE  Has(ps \o qs, t)
<1> DEFINE all == ps \o qs
<1>1. /\ \A e \in DOMAIN ps : all[e] = ps[e] /\ e \in DOMAIN all
      /\ \A e \in DOMAIN qs : all[Len(ps) + e] = qs[e] /\ Len(ps) + e \in DOMAIN all
      BY Concatenated
<1> HIDE DEF all
<1>2. Has(all, t)
      BY <1>1 DEF Has
<1> QED BY <1>2 DEF all

LEMMA SingleHoldsLine ==
    ASSUME NEW ps, NEW t, Has(ps, t)
    PROVE  HoldsLine(<<TextElement(ps)>>, t)
<1>1. DOMAIN <<TextElement(ps)>> = {1} /\ <<TextElement(ps)>>[1] = TextElement(ps)
      OBVIOUS
<1>2. TextElement(ps).kind # "table" /\ TextElement(ps).content = ps
      BY DEF TextElement
<1> QED BY <1>1, <1>2 DEF HoldsLine

(* Tables of a page, as DocumentsOK has them.                              *)
TablesApart(ts) ==
    /\ IsFiniteSet(ts)
    /\ \A t \in ts : Top(t) \in Int
    /\ \A t, u \in ts : t # u => Top(t) # Top(u)

LEMMA TableOrderSorts ==
    ASSUME NEW ts, TablesApart(ts)
    PROVE  /\ TableOrder(ts) \in Seq(ts)
           /\ \A t \in ts : \E k \in 1 .. Len(TableOrder(ts)) : TableOrder(ts)[k] = t
           /\ \A j, k \in 1 .. Len(TableOrder(ts)) : j < k => Top(TableOrder(ts)[j]) < Top(TableOrder(ts)[k])
<1> DEFINE R == {q \in ts \X ts : Top(q[1]) < Top(q[2])}
           rank(t) == Cardinality({u \in ts : Top(u) < Top(t)})
<1>1. \A t \in ts : Before(t, ts, R) = {u \in ts : Top(u) < Top(t)}
      BY DEF Before
<1>2. \A t, u \in ts : <<t, u>> \in R <=> Top(t) < Top(u)
      OBVIOUS
<1> HIDE DEF R
<1>3. StrictOrder(ts, R)
  <2>1. \A t, u \in ts : t # u => Top(t) < Top(u) \/ Top(u) < Top(t)
        BY DEF TablesApart
  <2>2. /\ \A t \in ts : ~(Top(t) < Top(t))
        /\ \A t, u, v \in ts : Top(t) < Top(u) /\ Top(u) < Top(v) => Top(t) < Top(v)
        BY DEF TablesApart
  <2> QED BY <1>2, <2>1, <2>2 DEF StrictOrder
<1>4. TableOrder(ts) = [k \in 1 .. Cardinality(ts) |-> CHOOSE t \in ts : rank(t) = k - 1]
      BY DEF TableOrder
<1>5. \A t \in ts : Cardinality(Before(t, ts, R)) = rank(t)
      BY <1>1
<1> HIDE DEF rank
<1>6. \A k \in 1 .. Cardinality(ts), t \in ts :
         rank(t) = k - 1 => TableOrder(ts)[k] \in ts /\ rank(TableOrder(ts)[k]) = k - 1
      BY <1>4
<1>7. Ranks(TableOrder(ts), ts, R)
      BY <1>4, <1>5, <1>6 DEF Ranks
<1>8. IsFiniteSet(ts)
      BY DEF TablesApart
<1>9. /\ TableOrder(ts) \in Seq(ts) /\ Len(TableOrder(ts)) = Cardinality(ts)
      /\ \A t \in ts : \E k \in 1 .. Len(TableOrder(ts)) : TableOrder(ts)[k] = t
      /\ \A j, k \in 1 .. Len(TableOrder(ts)) : j < k => <<TableOrder(ts)[j], TableOrder(ts)[k]>> \in R
      BY <1>3, <1>7, <1>8, Sorted
<1>10. \A k \in 1 .. Len(TableOrder(ts)) : TableOrder(ts)[k] \in ts
       BY <1>9
<1> QED BY <1>2, <1>9, <1>10

(* The runs beside no table are kept.                                      *)
OutsideStep(ts, out, o) == IF \E t \in ts : Within(o, t) THEN out ELSE Append(out, o)

LEMMA OutsideStepStays ==
    ASSUME NEW ts, NEW B, NEW out \in Seq(B), NEW o \in B
    PROVE  /\ OutsideStep(ts, out, o) \in Seq(B)
           /\ \A x : Among(x, out) => Among(x, OutsideStep(ts, out, o))
           /\ (\A t \in ts : ~Within(o, t)) => Among(o, OutsideStep(ts, out, o))
<1>1. CASE \E t \in ts : Within(o, t)
      BY <1>1 DEF OutsideStep
<1>2. CASE ~ \E t \in ts : Within(o, t)
  <2>1. OutsideStep(ts, out, o) = Append(out, o)
        BY <1>2 DEF OutsideStep
  <2>2. /\ Append(out, o) \in Seq(B) /\ Len(out) + 1 \in DOMAIN Append(out, o)
        /\ Append(out, o)[Len(out) + 1] = o
        /\ \A k \in DOMAIN out : k \in DOMAIN Append(out, o) /\ Append(out, o)[k] = out[k]
        OBVIOUS
  <2> QED BY <2>1, <2>2 DEF Among
<1> QED BY <1>1, <1>2

LEMMA OutsideFold ==
    ASSUME NEW ts, NEW B, NEW objs \in Seq(B)
    PROVE  \E h \in [0 .. Len(objs) -> Seq(B)] :
              /\ h[0] = <<>> /\ Outside(ts, objs) = h[Len(objs)]
              /\ \A k \in 1 .. Len(objs) : h[k] = OutsideStep(ts, h[k - 1], objs[k])
<1> DEFINE A == Seq(B)
           base == <<>>
           F == [q \in A \X B |-> OutsideStep(ts, q[1], q[2])]
           E(f) == f = [t \in SUBSET DOMAIN objs |->
                          IF t = {} THEN base ELSE OutsideStep(ts, f[t \ {Max(t)}], objs[Max(t)])]
           c == CHOOSE f : E(f)
<1>1. F \in [A \X B -> A]
      BY OutsideStepStays
<1>2. base \in A /\ DOMAIN objs = 1 .. Len(objs) /\ objs \in Seq(B)
      OBVIOUS
<1>3. Outside(ts, objs) = c[DOMAIN objs]
      BY DEF FoldLeft, MapThenFoldSet, Outside, OutsideStep
<1>4. \A a \in A, x \in B : F[<<a, x>>] = OutsideStep(ts, a, x)
      OBVIOUS
<1> HIDE DEF A, F, base
<1>5. \A t \in SUBSET (1 .. Len(objs)) : t # {} => objs[Max(t)] \in B
  <2>1. \A t \in SUBSET (1 .. Len(objs)) : t # {} => Max(t) \in 1 .. Len(objs)
        BY <1>1, <1>2, FoldExists
  <2> QED BY <1>2, <2>1
<1>6. E(c)
  <2>1. PICK f : Folds(f, F, base, objs, Len(objs)) /\ f \in [SUBSET (1 .. Len(objs)) -> A]
        BY <1>1, <1>2, FoldExists
  <2>2. E(f)
        BY <1>2, <1>4, <1>5, <2>1 DEF Folds
  <2> QED BY <2>2
<1>7. StepsBy(c, F, A, base, objs)
  <2>1. c[{}] = base
        BY <1>2, <1>6
  <2>2. \A t \in SUBSET (1 .. Len(objs)) : t # {} => c[t] = OutsideStep(ts, c[t \ {Max(t)}], objs[Max(t)])
        BY <1>2, <1>6
  <2> HIDE DEF c
  <2> QED BY <1>4, <1>5, <2>1, <2>2 DEF StepsBy
<1> HIDE DEF c
<1>8. PICK h : Runs(h, F, A, base, objs, c[1 .. Len(objs)])
      BY <1>1, <1>2, <1>7, FoldRuns
<1>9. \A k \in 1 .. Len(objs) : h[k] = OutsideStep(ts, h[k - 1], objs[k])
  <2>1. \A k \in 1 .. Len(objs) : k - 1 \in 0 .. Len(objs) /\ objs[k] \in B
        BY <1>2
  <2>2. \A k \in 1 .. Len(objs) : h[k - 1] \in A
        BY <1>8, <2>1 DEF Runs
  <2> QED BY <1>4, <1>8, <2>1, <2>2 DEF Runs
<1>10. h \in [0 .. Len(objs) -> A] /\ h[0] = base /\ Outside(ts, objs) = h[Len(objs)]
       BY <1>2, <1>3, <1>8 DEF Runs
<1> QED BY <1>9, <1>10 DEF A, base

LEMMA OutsideKeeps ==
    ASSUME NEW ts, NEW B, NEW objs \in Seq(B)
    PROVE  /\ Outside(ts, objs) \in Seq(B)
           /\ \A k \in 1 .. Len(objs) : (\A t \in ts : ~Within(objs[k], t)) =>
                 Among(objs[k], Outside(ts, objs))
<1>1. PICK h \in [0 .. Len(objs) -> Seq(B)] :
              /\ h[0] = <<>> /\ Outside(ts, objs) = h[Len(objs)]
              /\ \A k \in 1 .. Len(objs) : h[k] = OutsideStep(ts, h[k - 1], objs[k])
      BY OutsideFold
<1> DEFINE Kept(m) == \A k \in 1 .. m : (\A t \in ts : ~Within(objs[k], t)) => Among(objs[k], h[m])
           G == {m \in Nat : m <= Len(objs) => Kept(m)}
<1>2. 0 \in G
      OBVIOUS
<1>3. ASSUME NEW m \in Nat, m + 1 <= Len(objs), Kept(m) PROVE Kept(m + 1)
  <2>1. h[m] \in Seq(B) /\ h[m + 1] = OutsideStep(ts, h[m], objs[m + 1]) /\ objs[m + 1] \in B
    <3>1. m + 1 \in 1 .. Len(objs) /\ (m + 1) - 1 = m /\ m \in 0 .. Len(objs)
          BY <1>3
    <3> QED BY <1>1, <3>1
  <2>2. \A x : Among(x, h[m]) => Among(x, h[m + 1])
        BY <2>1, OutsideStepStays
  <2>3. (\A t \in ts : ~Within(objs[m + 1], t)) => Among(objs[m + 1], h[m + 1])
        BY <2>1, OutsideStepStays
  <2> SUFFICES ASSUME NEW k \in 1 .. m + 1, \A t \in ts : ~Within(objs[k], t)
               PROVE  Among(objs[k], h[m + 1])
      OBVIOUS
  <2>4. CASE k = m + 1
        BY <2>3, <2>4
  <2>5. CASE k # m + 1
    <3>1. Among(objs[k], h[m])
          BY <1>3, <2>5
    <3> QED BY <2>2, <3>1
  <2> QED BY <2>4, <2>5
<1>4. Nat \subseteq G
  <2> HIDE DEF Kept
  <2>1. \A m \in Nat : m \in G => m + 1 \in G
        BY <1>3
  <2> HIDE DEF G
  <2> QED BY <1>2, <2>1, Induction
<1>5. Kept(Len(objs))
  <2> HIDE DEF Kept
  <2> QED BY <1>4
<1> QED BY <1>1, <1>5

----------------------------------------------------------------------------
(* A page with tables.                                                     *)

LEMMA LowestIsLowest ==
    ASSUME NEW T, T \subseteq Nat, T # {}
    PROVE  Lowest(T) \in T /\ \A y \in T : Lowest(T) <= y
BY Smallest DEF Lowest

UpTo(prose, from, top) ==
    LET stops == {k \in from .. Len(prose) : prose[k].y >= top}
    IN  IF stops = {} THEN Len(prose) ELSE Lowest(stops) - 1

TextSegment(prose, from, to) ==
    LET ps == ReconstructParagraphs(Texts(SubSeq(prose, from, to)))
    IN  IF ps = <<>> THEN <<>> ELSE <<TextElement(ps)>>

TableStep(prose, acc, t) ==
    [idx |-> UpTo(prose, acc.idx, Top(t)) + 1,
     out |-> acc.out \o TextSegment(prose, acc.idx, UpTo(prose, acc.idx, Top(t))) \o <<TableElement(t)>>]

LEMMA UpToBounds ==
    ASSUME NEW B, NEW prose \in Seq(B), NEW from \in 1 .. Len(prose) + 1, NEW top
    PROVE  UpTo(prose, from, top) \in from - 1 .. Len(prose)
<1> DEFINE stops == {k \in from .. Len(prose) : prose[k].y >= top}
<1>1. CASE stops = {}
      BY <1>1 DEF UpTo
<1>2. CASE stops # {}
  <2>1. stops \subseteq Nat /\ \A k \in stops : k \in from .. Len(prose)
        OBVIOUS
  <2>2. UpTo(prose, from, top) = Lowest(stops) - 1
        BY <1>2 DEF UpTo
  <2> HIDE DEF stops
  <2>3. Lowest(stops) \in from .. Len(prose)
        BY <1>2, <2>1, LowestIsLowest
  <2> QED BY <2>2, <2>3
<1> QED BY <1>1, <1>2

LEMMA TextsOf ==
    ASSUME NEW B, NEW T, \A o \in B : o.text \in T, NEW objs \in Seq(B)
    PROVE  /\ Texts(objs) \in Seq(T) /\ Len(Texts(objs)) = Len(objs)
           /\ \A k \in 1 .. Len(objs) : Texts(objs)[k] = objs[k].text
BY DEF Texts

(* The paragraphs of a stretch of runs hold its lines.                     *)
LEMMA TextSegmentHolds ==
    ASSUME NEW B, NEW T, \A o \in B : o.text \in T, NEW prose \in Seq(B),
           NEW from \in 1 .. Len(prose) + 1, NEW to \in from - 1 .. Len(prose)
    PROVE  /\ TextSegment(prose, from, to) \in Seq([kind : {"text"}, content : Seq(Paragraph(T))])
           /\ \A k \in from .. to : prose[k].text.kind # "blank" => HoldsLine(TextSegment(prose, from, to), prose[k].text)
<1> DEFINE some == SubSeq(prose, from, to)
           ps == ReconstructParagraphs(Texts(some))
<1>1. some \in Seq(B) /\ Len(some) = to - from + 1
      OBVIOUS
<1>2. \A k \in from .. to : k - from + 1 \in 1 .. Len(some) /\ some[k - from + 1] = prose[k]
      OBVIOUS
<1> HIDE DEF some
<1>3. /\ Texts(some) \in Seq(T) /\ Len(Texts(some)) = Len(some)
      /\ \A k \in 1 .. Len(some) : Texts(some)[k] = some[k].text
      BY <1>1, TextsOf
<1>4. /\ ps \in Seq(Paragraph(T))
      /\ \A k \in 1 .. Len(some) : Texts(some)[k].kind # "blank" => Has(ps, Texts(some)[k])
      BY <1>3, ParagraphsHoldLines
<1>5. TextSegment(prose, from, to) = IF ps = <<>> THEN <<>> ELSE <<TextElement(ps)>>
      BY DEF TextSegment, some
<1> HIDE DEF ps
<1>6. TextElement(ps) \in [kind : {"text"}, content : Seq(Paragraph(T))]
      BY <1>4 DEF TextElement
<1>7. TextSegment(prose, from, to) \in Seq([kind : {"text"}, content : Seq(Paragraph(T))])
  <2>1. CASE ps = <<>>
        BY <1>5, <2>1
  <2>2. CASE ps # <<>>
    <3> HIDE DEF ps
    <3>1. TextSegment(prose, from, to) = <<TextElement(ps)>>
          BY <1>5, <2>2
    <3> QED BY <1>6, <3>1
  <2> QED BY <2>1, <2>2
<1>8. ASSUME NEW k \in from .. to, prose[k].text.kind # "blank"
      PROVE  HoldsLine(TextSegment(prose, from, to), prose[k].text)
  <2>1. Has(ps, prose[k].text)
    <3>1. Texts(some)[k - from + 1] = prose[k].text /\ k - from + 1 \in 1 .. Len(some)
          BY <1>2, <1>3
    <3> QED BY <1>4, <1>8, <3>1
  <2>2. ps # <<>>
        BY <2>1 DEF Has
  <2> QED BY <1>5, <2>1, <2>2, SingleHoldsLine
<1> QED BY <1>7, <1>8

Splitting(m, T, U) == [idx : 1 .. m + 1, out : Seq(Segment(T, U))]

(* What has been passed is in the segments.                                *)
Passed(prose, acc) ==
    \A k \in 1 .. acc.idx - 1 : prose[k].text.kind # "blank" => HoldsLine(acc.out, prose[k].text)

LEMMA TableStepPasses ==
    ASSUME NEW B, NEW T, \A o \in B : o.text \in T, NEW prose \in Seq(B),
           NEW U, NEW acc \in Splitting(Len(prose), T, U), NEW t \in U
    PROVE  /\ TableStep(prose, acc, t) \in Splitting(Len(prose), T, U)
           /\ Passed(prose, acc) => Passed(prose, TableStep(prose, acc, t))
<1> DEFINE end == UpTo(prose, acc.idx, Top(t))
           text == TextSegment(prose, acc.idx, end)
           S == Segment(T, U)
<1>1. acc.idx \in 1 .. Len(prose) + 1 /\ acc.out \in Seq(S)
      BY DEF Splitting
<1>2. end \in acc.idx - 1 .. Len(prose)
      BY <1>1, UpToBounds
<1>3. TableStep(prose, acc, t) = [idx |-> end + 1, out |-> acc.out \o text \o <<TableElement(t)>>]
      BY DEF TableStep
<1> HIDE DEF end
<1>4. /\ text \in Seq([kind : {"text"}, content : Seq(Paragraph(T))])
      /\ \A k \in acc.idx .. end : prose[k].text.kind # "blank" => HoldsLine(text, prose[k].text)
      BY <1>1, <1>2, TextSegmentHolds
<1> HIDE DEF text
<1>5. text \in Seq(S)
  <2>1. [kind : {"text"}, content : Seq(Paragraph(T))] \subseteq S
        BY DEF Segment
  <2> HIDE DEF S
  <2> QED BY <1>4, <2>1, SeqMonotone
<1>6. <<TableElement(t)>> \in Seq(S)
  <2>1. TableElement(t) \in S
        BY DEF TableElement, Segment
  <2> QED BY <2>1
<1> HIDE DEF S
<1> DEFINE out == acc.out \o text \o <<TableElement(t)>>
<1>7. acc.out \o text \in Seq(S) /\ out \in Seq(S)
      BY <1>1, <1>5, <1>6
<1>8. \A x : HoldsLine(acc.out, x) \/ HoldsLine(text, x) => HoldsLine(out, x)
  <2>1. \A x : HoldsLine(acc.out, x) \/ HoldsLine(text, x) => HoldsLine(acc.out \o text, x)
        BY <1>1, <1>5, ConcatHoldsLines
  <2> QED BY <1>6, <1>7, <2>1, ConcatHoldsLines
<1> HIDE DEF out
<1>9. TableStep(prose, acc, t) = [idx |-> end + 1, out |-> out]
      BY <1>3 DEF out
<1>10. TableStep(prose, acc, t) \in Splitting(Len(prose), T, U)
  <2>1. end + 1 \in 1 .. Len(prose) + 1
        BY <1>1, <1>2
  <2> QED BY <1>7, <1>9, <2>1 DEF Splitting, S
<1>11. ASSUME Passed(prose, acc) PROVE Passed(prose, TableStep(prose, acc, t))
  <2>1. TableStep(prose, acc, t).idx = end + 1 /\ TableStep(prose, acc, t).out = out
        BY <1>9
  <2> SUFFICES ASSUME NEW k \in 1 .. end, prose[k].text.kind # "blank" PROVE HoldsLine(out, prose[k].text)
    <3>1. (end + 1) - 1 = end
          BY <1>1, <1>2
    <3> QED BY <2>1, <3>1 DEF Passed
  <2>2. CASE k < acc.idx
    <3>1. k \in 1 .. acc.idx - 1
          BY <1>1, <2>2
    <3> QED BY <1>8, <1>11, <3>1 DEF Passed
  <2>3. CASE k >= acc.idx
    <3>1. k \in acc.idx .. end
          BY <1>1, <1>2, <2>3
    <3> QED BY <1>4, <1>8, <3>1
  <2> QED BY <1>1, <2>2, <2>3
<1> QED BY <1>10, <1>11

(* The values the loop over the tables goes through.                       *)
TableRun(h, all, prose, ts, T, U) ==
    /\ h \in [0 .. Len(ts) -> Splitting(Len(prose), T, U)]
    /\ h[0] = [idx |-> 1, out |-> <<>>]
    /\ \A k \in 1 .. Len(ts) : h[k] = TableStep(prose, h[k - 1], ts[k])
    /\ all = h[Len(ts)].out \o TextSegment(prose, h[Len(ts)].idx, Len(prose))

LEMMA TableFold ==
    ASSUME NEW i, NEW objs, NEW prose, prose = Outside(TablesOf(i), objs),
           NEW ts, ts = TableOrder(TablesOf(i)), NEW U, ts \in Seq(U),
           NEW B, prose \in Seq(B), NEW T, \A o \in B : o.text \in T
    PROVE  \E h : TableRun(h, SplitPageByTables(i, objs), prose, ts, T, U)
<1> DEFINE A == Splitting(Len(prose), T, U)
           base == [idx |-> 1, out |-> <<>>]
           F == [q \in A \X U |-> TableStep(prose, q[1], q[2])]
           E(f) == f = [t \in SUBSET DOMAIN ts |->
                          IF t = {} THEN base ELSE TableStep(prose, f[t \ {Max(t)}], ts[Max(t)])]
           c == CHOOSE f : E(f)
<1>1. F \in [A \X U -> A]
      BY TableStepPasses
<1>2. base \in A /\ DOMAIN ts = 1 .. Len(ts) /\ ts \in Seq(U)
      BY DEF Splitting
<1>3. SplitPageByTables(i, objs) = c[DOMAIN ts].out \o TextSegment(prose, c[DOMAIN ts].idx, Len(prose))
      BY DEF FoldLeft, MapThenFoldSet, SplitPageByTables, TableStep, UpTo, TextSegment
<1>4. \A a \in A, x \in U : F[<<a, x>>] = TableStep(prose, a, x)
      OBVIOUS
<1> HIDE DEF A, F, base
<1>5. \A t \in SUBSET (1 .. Len(ts)) : t # {} => ts[Max(t)] \in U
  <2>1. \A t \in SUBSET (1 .. Len(ts)) : t # {} => Max(t) \in 1 .. Len(ts)
        BY <1>1, <1>2, FoldExists
  <2> QED BY <1>2, <2>1
<1>6. E(c)
  <2>1. PICK f : Folds(f, F, base, ts, Len(ts)) /\ f \in [SUBSET (1 .. Len(ts)) -> A]
        BY <1>1, <1>2, FoldExists
  <2>2. E(f)
        BY <1>2, <1>4, <1>5, <2>1 DEF Folds
  <2> QED BY <2>2
<1>7. StepsBy(c, F, A, base, ts)
  <2>1. c[{}] = base
        BY <1>2, <1>6
  <2>2. \A t \in SUBSET (1 .. Len(ts)) : t # {} => c[t] = TableStep(prose, c[t \ {Max(t)}], ts[Max(t)])
        BY <1>2, <1>6
  <2> HIDE DEF c
  <2> QED BY <1>4, <1>5, <2>1, <2>2 DEF StepsBy
<1> HIDE DEF c
<1>8. PICK h : Runs(h, F, A, base, ts, c[1 .. Len(ts)])
      BY <1>1, <1>2, <1>7, FoldRuns
<1>9. \A k \in 1 .. Len(ts) : h[k] = TableStep(prose, h[k - 1], ts[k])
  <2>1. \A k \in 1 .. Len(ts) : k - 1 \in 0 .. Len(ts) /\ ts[k] \in U
        BY <1>2
  <2>2. \A k \in 1 .. Len(ts) : h[k - 1] \in A
        BY <1>8, <2>1 DEF Runs
  <2> QED BY <1>4, <1>8, <2>1, <2>2 DEF Runs
<1>10. /\ h \in [0 .. Len(ts) -> A] /\ h[0] = base
       /\ SplitPageByTables(i, objs) = h[Len(ts)].out \o TextSegment(prose, h[Len(ts)].idx, Len(prose))
       BY <1>2, <1>3, <1>8 DEF Runs
<1> QED BY <1>9, <1>10 DEF A, base, TableRun

(* The segments of a page hold every line beside no table.                 *)
LEMMA PageSplitHolds ==
    ASSUME NEW i, TablesApart(TablesOf(i)), NEW B, NEW T, \A o \in B : o.text \in T, NEW objs \in Seq(B)
    PROVE  /\ SplitPageByTables(i, objs) \in Seq(Segment(T, TablesOf(i)))
           /\ \A k \in 1 .. Len(objs) :
                 \/ objs[k].text.kind = "blank"
                 \/ \E t \in TablesOf(i) : Within(objs[k], t)
                 \/ HoldsLine(SplitPageByTables(i, objs), objs[k].text)
<1> DEFINE U == TablesOf(i)
           prose == Outside(U, objs)
           ts == TableOrder(U)
           S == Segment(T, U)
           all == SplitPageByTables(i, objs)
<1>1. /\ prose \in Seq(B)
      /\ \A k \in 1 .. Len(objs) : (\A t \in U : ~Within(objs[k], t)) => Among(objs[k], prose)
      BY OutsideKeeps
<1>2. ts \in Seq(U)
      BY TableOrderSorts
<1>3. PICK h : TableRun(h, all, prose, ts, T, U)
  <2> HIDE DEF prose, ts, U
  <2>1. prose = Outside(TablesOf(i), objs) /\ ts = TableOrder(TablesOf(i))
        BY DEF prose, ts, U
  <2> QED BY <1>1, <1>2, <2>1, TableFold
<1> HIDE DEF prose, ts, all
<1> DEFINE G == {m \in Nat : m <= Len(ts) => Passed(prose, h[m])}
<1>4. 0 \in G
      BY <1>3 DEF Passed, TableRun
<1>5. ASSUME NEW m \in Nat, m + 1 <= Len(ts), Passed(prose, h[m]) PROVE Passed(prose, h[m + 1])
  <2>1. h[m] \in Splitting(Len(prose), T, U) /\ h[m + 1] = TableStep(prose, h[m], ts[m + 1]) /\ ts[m + 1] \in U
    <3>1. m + 1 \in 1 .. Len(ts) /\ (m + 1) - 1 = m /\ m \in 0 .. Len(ts)
          BY <1>2, <1>5
    <3> HIDE DEF U
    <3>2. ts[m + 1] \in U
          BY <1>2, <3>1
    <3>3. h[m] \in Splitting(Len(prose), T, U)
          BY <1>3, <3>1 DEF TableRun
    <3>4. \A k \in 1 .. Len(ts) : h[k] = TableStep(prose, h[k - 1], ts[k])
          BY <1>3 DEF TableRun
    <3>5. h[m + 1] = TableStep(prose, h[m], ts[m + 1])
          BY <3>1, <3>4
    <3> QED BY <3>2, <3>3, <3>5
  <2> HIDE DEF U
  <2>2. prose \in Seq(B)
        BY <1>1
  <2>3. Passed(prose, h[m]) => Passed(prose, TableStep(prose, h[m], ts[m + 1]))
        BY <2>1, <2>2, TableStepPasses
  <2> QED BY <1>5, <2>1, <2>3
<1>6. Nat \subseteq G
  <2>1. \A m \in Nat : m \in G => m + 1 \in G
        BY <1>5
  <2> HIDE DEF G
  <2> QED BY <1>4, <2>1, Induction
<1> DEFINE last == h[Len(ts)]
           rest == TextSegment(prose, last.idx, Len(prose))
<1>7. last.idx \in 1 .. Len(prose) + 1 /\ last.out \in Seq(S) /\ Passed(prose, last)
  <2>1. Len(ts) \in Nat /\ last \in Splitting(Len(prose), T, U)
    <3> HIDE DEF U
    <3> QED BY <1>2, <1>3 DEF TableRun
  <2>2. Passed(prose, last)
        BY <1>6, <2>1
  <2> QED BY <2>1, <2>2 DEF Splitting
<1> HIDE DEF last
<1>8. /\ rest \in Seq([kind : {"text"}, content : Seq(Paragraph(T))])
      /\ \A k \in last.idx .. Len(prose) : prose[k].text.kind # "blank" => HoldsLine(rest, prose[k].text)
  <2>1. Len(prose) \in last.idx - 1 .. Len(prose)
    <3>1. Len(prose) \in Nat
          BY <1>1
    <3> QED BY <1>7, <3>1
  <2> HIDE DEF Among
  <2>2. last.idx \in 1 .. Len(prose) + 1
        BY <1>7
  <2> QED BY <1>1, <2>1, <2>2, TextSegmentHolds
<1> HIDE DEF rest
<1>9. rest \in Seq(S)
  <2>1. [kind : {"text"}, content : Seq(Paragraph(T))] \subseteq S
        BY DEF Segment
  <2> HIDE DEF S
  <2> QED BY <1>8, <2>1, SeqMonotone
<1>10. all = last.out \o rest
       BY <1>3 DEF last, rest, TableRun
<1>11. all \in Seq(S) /\ \A x : HoldsLine(last.out, x) \/ HoldsLine(rest, x) => HoldsLine(all, x)
  <2> HIDE DEF S
  <2>1. all \in Seq(S)
        BY <1>7, <1>9, <1>10
  <2> QED BY <1>7, <1>9, <1>10, <2>1, ConcatHoldsLines
<1>12. ASSUME NEW k \in DOMAIN prose, prose[k].text.kind # "blank" PROVE HoldsLine(all, prose[k].text)
  <2>1. Len(prose) \in Nat /\ k \in 1 .. Len(prose)
        BY <1>1
  <2>2. k \in 1 .. last.idx - 1 \/ k \in last.idx .. Len(prose)
        BY <1>7, <2>1
  <2> QED BY <1>7, <1>8, <1>11, <1>12, <2>2 DEF Passed
<1>13. ASSUME NEW k \in 1 .. Len(objs), objs[k].text.kind # "blank", \A t \in U : ~Within(objs[k], t)
       PROVE  HoldsLine(all, objs[k].text)
  <2>1. Among(objs[k], prose)
        BY <1>1, <1>13
  <2> QED BY <1>12, <1>13, <2>1 DEF Among
<1> HIDE DEF S
<1> QED BY <1>11, <1>13 DEF all, S

----------------------------------------------------------------------------
(* The buffer of prose.                                                    *)

(* Blocks of one kind, of which no two figures are neighbours, the last of *)
(* them a table when a page ends.                                          *)
IsTold(e)      == e.kind # "table" => e.content # <<>> /\ Told(e)
ToldApart(es)  == /\ \A e \in DOMAIN es : IsTold(es[e])
                  /\ \A e \in 2 .. Len(es) : ~(es[e - 1].kind = "figure" /\ es[e].kind = "figure")
EndsInTable(es) == es # <<>> => es[Len(es)].kind = "table"

LEMMA FlushedHolds ==
    ASSUME NEW T, NEW U, NEW es \in Seq(Element(T, U)), NEW prose \in Seq(Paragraph(T))
    PROVE  /\ Flushed(es, prose) \in Seq(Element(T, U))
           /\ \A t : HoldsLine(es, t) \/ Has(prose, t) => HoldsLine(Flushed(es, prose), t)
           /\ ToldApart(es) /\ EndsInTable(es) => ToldApart(Flushed(es, prose))
<1> DEFINE E == Element(T, U)
           P == Paragraph(T)
           bs == SplitFigureBlocks(prose)
           all == es \o bs
<1>1. CASE prose = <<>>
  <2>1. Flushed(es, prose) = es /\ \A t : ~Has(prose, t)
        BY <1>1 DEF Flushed, Has
  <2> QED BY <2>1
<1>2. CASE prose # <<>>
  <2>1. bs \in Seq(Block(P)) /\ Told2(bs) /\ \A k \in 1 .. Len(prose) : Holds(bs, prose[k])
    <3> HIDE DEF P
    <3>1. prose \in Seq(P)
          BY DEF P
    <3> QED BY <3>1, FiguresTold
  <2>2. Block(P) \subseteq E
        BY DEF Block, Element, Paragraph
  <2>3. \A k \in DOMAIN bs : bs[k] \in Block(P)
    <3> HIDE DEF bs
    <3> QED BY <2>1
  <2>4. \A k \in DOMAIN bs : bs[k].kind \in {"text", "figure"} /\ bs[k].kind # "table" /\ bs[k].content # <<>>
    <3> HIDE DEF bs
    <3> QED BY <2>3 DEF Block, Paragraph
  <2>5. bs \in Seq(E)
    <3> HIDE DEF bs, E
    <3> QED BY <2>1, <2>2, SeqMonotone
  <2>6. all \in Seq(E) /\ \A t : HoldsLine(es, t) \/ HoldsLine(bs, t) => HoldsLine(all, t)
    <3> HIDE DEF bs, E
    <3>1. es \in Seq(E)
          BY DEF E
    <3> QED BY <2>5, <3>1, Concatenated, ConcatHoldsLines
  <2>7. Flushed(es, prose) = all
        BY <1>2 DEF Flushed
  <2>8. \A t : Has(prose, t) => HoldsLine(bs, t)
    <3> HIDE DEF bs
    <3> SUFFICES ASSUME NEW t, NEW a \in DOMAIN prose, NEW b \in DOMAIN prose[a], prose[a][b] = t
                 PROVE  HoldsLine(bs, t)
        BY DEF Has
    <3>1. Holds(bs, prose[a])
          BY <2>1
    <3>2. PICK e \in DOMAIN bs : \E j \in DOMAIN bs[e].content : bs[e].content[j] = prose[a]
          BY <3>1 DEF Holds
    <3>3. Has(bs[e].content, t)
          BY <3>2 DEF Has
    <3> QED BY <2>4, <3>2, <3>3 DEF HoldsLine
  <2>9. ASSUME ToldApart(es), EndsInTable(es) PROVE ToldApart(all)
    <3> HIDE DEF bs
    <3>1. /\ Len(es) \in Nat /\ Len(bs) \in Nat /\ Len(all) = Len(es) + Len(bs)
          /\ DOMAIN es = 1 .. Len(es) /\ DOMAIN bs = 1 .. Len(bs) /\ DOMAIN all = 1 .. Len(es) + Len(bs)
          /\ \A e \in 1 .. Len(es) : all[e] = es[e]
          /\ \A e \in 1 .. Len(bs) : all[Len(es) + e] = bs[e]
      <4> HIDE DEF E
      <4>1. es \in Seq(E)
            BY DEF E
      <4> QED BY <2>5, <4>1, Concatenated
    <3> HIDE DEF all
    <3>2. \A e \in DOMAIN all : IsTold(all[e])
      <4> SUFFICES ASSUME NEW e \in DOMAIN all PROVE IsTold(all[e])
          OBVIOUS
      <4>1. CASE e \in 1 .. Len(es)
            BY <2>9, <3>1, <4>1 DEF ToldApart
      <4>2. CASE e \notin 1 .. Len(es)
        <5>1. e - Len(es) \in 1 .. Len(bs) /\ Len(es) + (e - Len(es)) = e
              BY <3>1, <4>2
        <5>2. all[e] = bs[e - Len(es)]
              BY <3>1, <5>1
        <5> QED BY <2>1, <2>4, <3>1, <5>1, <5>2 DEF IsTold, Told2
      <4> QED BY <4>1, <4>2
    <3>3. ASSUME NEW e \in 2 .. Len(all) PROVE ~(all[e - 1].kind = "figure" /\ all[e].kind = "figure")
      <4>1. CASE e \in 1 .. Len(es)
        <5>1. e \in 2 .. Len(es) /\ e - 1 \in 1 .. Len(es)
              BY <3>1, <4>1
        <5> QED BY <2>9, <3>1, <4>1, <5>1 DEF ToldApart
      <4>2. CASE e = Len(es) + 1
        <5>1. e - 1 = Len(es) /\ Len(es) \in 1 .. Len(es) /\ es # <<>>
              BY <3>1, <4>2
        <5> QED BY <2>9, <3>1, <5>1 DEF EndsInTable
      <4>3. CASE e > Len(es) + 1
        <5> DEFINE k == e - Len(es)
        <5>1. /\ k \in 2 .. Len(bs) /\ k - 1 \in 1 .. Len(bs) /\ k \in 1 .. Len(bs)
              /\ Len(es) + k = e /\ Len(es) + (k - 1) = e - 1
              BY <3>1, <4>3
        <5> HIDE DEF k
        <5>2. all[e] = bs[k] /\ all[e - 1] = bs[k - 1]
              BY <3>1, <5>1
        <5> QED BY <2>1, <5>1, <5>2 DEF Told2, Alternating
      <4> QED BY <3>1, <4>1, <4>2, <4>3
    <3> QED BY <3>2, <3>3 DEF ToldApart
  <2> HIDE DEF all
  <2> QED BY <2>6, <2>7, <2>8, <2>9
<1> QED BY <1>1, <1>2

(* The loop over the segments.                                             *)
SegmentStep(acc, seg) ==
    IF seg.kind = "text" THEN [acc EXCEPT !.prose = @ \o seg.content]
    ELSE [es |-> Append(Flushed(acc.es, acc.prose), seg), prose |-> <<>>]

Reading(T, U)   == [es : Seq(Element(T, U)), prose : Seq(Paragraph(T))]
Read(acc, t)    == HoldsLine(acc.es, t) \/ Has(acc.prose, t)
PagesTold(es)   == ToldApart(es) /\ EndsInTable(es)

LEMMA AppendedTable ==
    ASSUME NEW E, NEW es \in Seq(E), NEW e \in E, e.kind = "table"
    PROVE  /\ Append(es, e) \in Seq(E)
           /\ \A t : HoldsLine(es, t) => HoldsLine(Append(es, e), t)
           /\ ToldApart(es) => PagesTold(Append(es, e))
<1> DEFINE all == Append(es, e)
<1>1. /\ all \in Seq(E) /\ Len(all) = Len(es) + 1 /\ Len(es) \in Nat /\ all # <<>>
      /\ DOMAIN all = 1 .. Len(es) + 1 /\ DOMAIN es = 1 .. Len(es) /\ all[Len(es) + 1] = e
      /\ \A k \in 1 .. Len(es) : all[k] = es[k]
      OBVIOUS
<1> HIDE DEF all
<1>2. \A t : HoldsLine(es, t) => HoldsLine(all, t)
      BY <1>1 DEF HoldsLine
<1>3. ASSUME ToldApart(es) PROVE PagesTold(all)
  <2>1. \A k \in DOMAIN all : IsTold(all[k])
    <3> SUFFICES ASSUME NEW k \in DOMAIN all PROVE IsTold(all[k])
        OBVIOUS
    <3>1. k \in 1 .. Len(es) \/ k = Len(es) + 1
          BY <1>1
    <3> QED BY <1>1, <1>3, <3>1 DEF ToldApart, IsTold
  <2>2. ASSUME NEW k \in 2 .. Len(all) PROVE ~(all[k - 1].kind = "figure" /\ all[k].kind = "figure")
    <3>1. CASE k = Len(es) + 1
          BY <1>1, <3>1
    <3>2. CASE k # Len(es) + 1
      <4>1. k \in 2 .. Len(es) /\ k \in 1 .. Len(es) /\ k - 1 \in 1 .. Len(es)
            BY <1>1, <3>2
      <4> QED BY <1>1, <1>3, <4>1 DEF ToldApart
    <3> QED BY <3>1, <3>2
  <2>3. EndsInTable(all)
        BY <1>1 DEF EndsInTable
  <2> QED BY <2>1, <2>2, <2>3 DEF PagesTold, ToldApart
<1> QED BY <1>1, <1>2, <1>3 DEF all

LEMMA SegmentStepReads ==
    ASSUME NEW T, NEW U, NEW acc \in Reading(T, U), NEW seg \in Segment(T, U)
    PROVE  /\ SegmentStep(acc, seg) \in Reading(T, U)
           /\ \A t : Read(acc, t) => Read(SegmentStep(acc, seg), t)
           /\ \A t : seg.kind # "table" /\ Has(seg.content, t) => Read(SegmentStep(acc, seg), t)
           /\ PagesTold(acc.es) => PagesTold(SegmentStep(acc, seg).es)
<1>1. acc.es \in Seq(Element(T, U)) /\ acc.prose \in Seq(Paragraph(T)) /\ acc = [es |-> acc.es, prose |-> acc.prose]
      BY DEF Reading
<1>2. CASE seg.kind = "text"
  <2> DEFINE more == acc.prose \o seg.content
  <2>1. seg.content \in Seq(Paragraph(T))
        BY <1>2 DEF Segment
  <2>2. more \in Seq(Paragraph(T)) /\ \A t : Has(acc.prose, t) \/ Has(seg.content, t) => Has(more, t)
        BY <1>1, <2>1, ConcatHas
  <2>3. SegmentStep(acc, seg) = [es |-> acc.es, prose |-> more]
        BY <1>1, <1>2 DEF SegmentStep
  <2> HIDE DEF more
  <2>4. SegmentStep(acc, seg).es = acc.es /\ SegmentStep(acc, seg).prose = more
        BY <2>3
  <2>5. SegmentStep(acc, seg) \in Reading(T, U)
        BY <1>1, <2>2, <2>3 DEF Reading
  <2> QED BY <2>2, <2>4, <2>5 DEF Read
<1>3. CASE seg.kind # "text"
  <2> DEFINE fs  == Flushed(acc.es, acc.prose)
             all == Append(fs, seg)
  <2>1. seg.kind = "table" /\ seg \in Element(T, U)
        BY <1>3 DEF Segment, Element
  <2>2. /\ fs \in Seq(Element(T, U))
        /\ \A t : HoldsLine(acc.es, t) \/ Has(acc.prose, t) => HoldsLine(fs, t)
        /\ ToldApart(acc.es) /\ EndsInTable(acc.es) => ToldApart(fs)
        BY <1>1, FlushedHolds
  <2>3. SegmentStep(acc, seg) = [es |-> all, prose |-> <<>>]
        BY <1>3 DEF SegmentStep
  <2> HIDE DEF fs
  <2>4. /\ all \in Seq(Element(T, U)) /\ \A t : HoldsLine(fs, t) => HoldsLine(all, t)
        /\ ToldApart(fs) => PagesTold(all)
        BY <2>1, <2>2, AppendedTable
  <2> HIDE DEF all
  <2>5. SegmentStep(acc, seg).es = all
        BY <2>3
  <2>6. SegmentStep(acc, seg) \in Reading(T, U)
        BY <2>3, <2>4 DEF Reading
  <2> QED BY <2>1, <2>2, <2>4, <2>5, <2>6 DEF Read, PagesTold
<1> QED BY <1>2, <1>3

SegmentRun(h, read, segments, es, prose, T, U) ==
    /\ h \in [0 .. Len(segments) -> Reading(T, U)]
    /\ h[0] = [es |-> es, prose |-> prose] /\ read = h[Len(segments)]
    /\ \A k \in 1 .. Len(segments) : h[k] = SegmentStep(h[k - 1], segments[k])

LEMMA SegmentFold ==
    ASSUME NEW T, NEW U, elements \in Seq(Element(T, U)), buffer \in Seq(Paragraph(T)), NEW segments \in Seq(Segment(T, U))
    PROVE  \E h : SegmentRun(h, WithSegments(segments), segments, elements, buffer, T, U)
<1> DEFINE A == Reading(T, U)
           B == Segment(T, U)
           base == [es |-> elements, prose |-> buffer]
           F == [q \in A \X B |-> SegmentStep(q[1], q[2])]
           E(f) == f = [t \in SUBSET DOMAIN segments |->
                          IF t = {} THEN base ELSE SegmentStep(f[t \ {Max(t)}], segments[Max(t)])]
           c == CHOOSE f : E(f)
<1>1. F \in [A \X B -> A]
      BY SegmentStepReads
<1>2. base \in A /\ DOMAIN segments = 1 .. Len(segments) /\ segments \in Seq(B)
      BY DEF Reading
<1>3. WithSegments(segments) = c[DOMAIN segments]
      BY DEF FoldLeft, MapThenFoldSet, WithSegments, SegmentStep
<1>4. \A a \in A, x \in B : F[<<a, x>>] = SegmentStep(a, x)
      OBVIOUS
<1> HIDE DEF A, B, F, base
<1>5. \A t \in SUBSET (1 .. Len(segments)) : t # {} => segments[Max(t)] \in B
  <2>1. \A t \in SUBSET (1 .. Len(segments)) : t # {} => Max(t) \in 1 .. Len(segments)
        BY <1>1, <1>2, FoldExists
  <2> QED BY <1>2, <2>1
<1>6. E(c)
  <2>1. PICK f : Folds(f, F, base, segments, Len(segments)) /\ f \in [SUBSET (1 .. Len(segments)) -> A]
        BY <1>1, <1>2, FoldExists
  <2>2. E(f)
        BY <1>2, <1>4, <1>5, <2>1 DEF Folds
  <2> QED BY <2>2
<1>7. StepsBy(c, F, A, base, segments)
  <2>1. c[{}] = base
        BY <1>2, <1>6
  <2>2. \A t \in SUBSET (1 .. Len(segments)) : t # {} => c[t] = SegmentStep(c[t \ {Max(t)}], segments[Max(t)])
        BY <1>2, <1>6
  <2> HIDE DEF c
  <2> QED BY <1>4, <1>5, <2>1, <2>2 DEF StepsBy
<1> HIDE DEF c
<1>8. PICK h : Runs(h, F, A, base, segments, c[1 .. Len(segments)])
      BY <1>1, <1>2, <1>7, FoldRuns
<1>9. \A k \in 1 .. Len(segments) : h[k] = SegmentStep(h[k - 1], segments[k])
  <2>1. \A k \in 1 .. Len(segments) : k - 1 \in 0 .. Len(segments) /\ segments[k] \in B
        BY <1>2
  <2>2. \A k \in 1 .. Len(segments) : h[k - 1] \in A
        BY <1>8, <2>1 DEF Runs
  <2> QED BY <1>4, <1>8, <2>1, <2>2 DEF Runs
<1>10. h \in [0 .. Len(segments) -> A] /\ h[0] = base /\ WithSegments(segments) = h[Len(segments)]
       BY <1>2, <1>3, <1>8 DEF Runs
<1> QED BY <1>9, <1>10 DEF A, base, SegmentRun

LEMMA SegmentsRead ==
    ASSUME NEW T, NEW U, elements \in Seq(Element(T, U)), buffer \in Seq(Paragraph(T)),
           NEW segments \in Seq(Segment(T, U))
    PROVE  /\ WithSegments(segments) \in Reading(T, U)
           /\ \A t : HoldsLine(elements, t) \/ Has(buffer, t) \/ HoldsLine(segments, t) => Read(WithSegments(segments), t)
           /\ PagesTold(elements) => PagesTold(WithSegments(segments).es)
<1>1. PICK h : SegmentRun(h, WithSegments(segments), segments, elements, buffer, T, U)
      BY SegmentFold
<1> DEFINE Kept(m) ==
             /\ \A t : HoldsLine(elements, t) \/ Has(buffer, t) => Read(h[m], t)
             /\ \A k \in 1 .. m : \A t : segments[k].kind # "table" /\ Has(segments[k].content, t) => Read(h[m], t)
             /\ PagesTold(elements) => PagesTold(h[m].es)
           G == {m \in Nat : m <= Len(segments) => Kept(m)}
<1>2. 0 \in G
  <2>1. h[0].es = elements /\ h[0].prose = buffer
        BY <1>1 DEF SegmentRun
  <2> QED BY <2>1 DEF Read
<1>3. ASSUME NEW m \in Nat, m + 1 <= Len(segments), Kept(m) PROVE Kept(m + 1)
  <2> DEFINE next == SegmentStep(h[m], segments[m + 1])
  <2>1. m + 1 \in 1 .. Len(segments) /\ (m + 1) - 1 = m /\ m \in 0 .. Len(segments)
        BY <1>3
  <2>2. h[m] \in Reading(T, U) /\ segments[m + 1] \in Segment(T, U)
    <3>1. h \in [0 .. Len(segments) -> Reading(T, U)]
          BY <1>1 DEF SegmentRun
    <3>2. \A k \in 1 .. Len(segments) : segments[k] \in Segment(T, U)
          OBVIOUS
    <3> QED BY <2>1, <3>1, <3>2
  <2>3. h[m + 1] = next
    <3>1. \A k \in 1 .. Len(segments) : h[k] = SegmentStep(h[k - 1], segments[k])
          BY <1>1 DEF SegmentRun
    <3> QED BY <2>1, <3>1
  <2>4. \A t : Read(h[m], t) => Read(next, t)
        BY <2>2, SegmentStepReads
  <2>5. \A t : segments[m + 1].kind # "table" /\ Has(segments[m + 1].content, t) => Read(next, t)
        BY <2>2, SegmentStepReads
  <2>6. PagesTold(h[m].es) => PagesTold(next.es)
        BY <2>2, SegmentStepReads
  <2> HIDE DEF next
  <2>7. ASSUME NEW k \in 1 .. m + 1, NEW t, segments[k].kind # "table", Has(segments[k].content, t)
        PROVE  Read(next, t)
    <3>1. k \in 1 .. m \/ k = m + 1
          OBVIOUS
    <3> QED BY <1>3, <2>4, <2>5, <2>7, <3>1
  <2> QED BY <1>3, <2>3, <2>4, <2>6, <2>7
<1>4. Nat \subseteq G
  <2> HIDE DEF Kept
  <2>1. \A m \in Nat : m \in G => m + 1 \in G
        BY <1>3
  <2> HIDE DEF G
  <2> QED BY <1>2, <2>1, Induction
<1>5. Kept(Len(segments)) /\ h[Len(segments)] \in Reading(T, U) /\ WithSegments(segments) = h[Len(segments)]
  <2>1. Len(segments) \in Nat
        OBVIOUS
  <2>2. Kept(Len(segments))
    <3> HIDE DEF Kept
    <3> QED BY <1>4, <2>1
  <2> HIDE DEF Kept
  <2> QED BY <1>1, <2>1, <2>2 DEF SegmentRun
<1>6. \A t : HoldsLine(segments, t) => Read(h[Len(segments)], t)
      BY <1>5 DEF HoldsLine
<1> QED BY <1>5, <1>6

----------------------------------------------------------------------------
(* Tables among the text.                                                  *)

(* An element may stand before another: Up has the lines and tables that   *)
(* may stand in this order, Down those that may stand in the other.        *)
Follows(Up, Down, a, b) ==
    /\ a.kind # "table" /\ b.kind = "table" => \A x : Has(a.content, x) => <<x, b.content>> \in Up
    /\ a.kind = "table" /\ b.kind # "table" => \A x : Has(b.content, x) => <<x, a.content>> \in Down
    /\ a.kind = "table" /\ b.kind = "table" => a.content # b.content

AllFollow(Up, Down, es, b) == \A j \in DOMAIN es : Follows(Up, Down, es[j], b)

Arranged(Up, Down, es) == \A j, k \in DOMAIN es : j < k => Follows(Up, Down, es[j], es[k])

LEMMA ArrangedConcat ==
    ASSUME NEW Up, NEW Down, NEW E, NEW es \in Seq(E), NEW fs \in Seq(E),
           Arranged(Up, Down, es), Arranged(Up, Down, fs), \A k \in DOMAIN fs : AllFollow(Up, Down, es, fs[k])
    PROVE  Arranged(Up, Down, es \o fs)
<1> DEFINE all == es \o fs
<1>1. /\ Len(es) \in Nat /\ Len(fs) \in Nat
      /\ DOMAIN es = 1 .. Len(es) /\ DOMAIN fs = 1 .. Len(fs) /\ DOMAIN all = 1 .. Len(es) + Len(fs)
      /\ \A e \in 1 .. Len(es) : all[e] = es[e]
      /\ \A e \in 1 .. Len(fs) : all[Len(es) + e] = fs[e]
      BY Concatenated
<1> HIDE DEF all
<1> SUFFICES ASSUME NEW j \in DOMAIN all, NEW k \in DOMAIN all, j < k PROVE Follows(Up, Down, all[j], all[k])
    BY DEF Arranged, all
<1>2. CASE k <= Len(es)
  <2>1. j \in 1 .. Len(es) /\ k \in 1 .. Len(es)
        BY <1>1, <1>2
  <2> QED BY <1>1, <2>1 DEF Arranged
<1>3. CASE k > Len(es)
  <2>1. k - Len(es) \in 1 .. Len(fs) /\ Len(es) + (k - Len(es)) = k
        BY <1>1, <1>3
  <2>2. all[k] = fs[k - Len(es)]
        BY <1>1, <2>1
  <2>3. CASE j <= Len(es)
    <3>1. j \in 1 .. Len(es)
          BY <1>1, <2>3
    <3> QED BY <1>1, <2>1, <2>2, <3>1 DEF AllFollow
  <2>4. CASE j > Len(es)
    <3>1. j - Len(es) \in 1 .. Len(fs) /\ Len(es) + (j - Len(es)) = j /\ j - Len(es) < k - Len(es)
          BY <1>1, <2>4
    <3>2. all[j] = fs[j - Len(es)]
          BY <1>1, <3>1
    <3> QED BY <1>1, <2>1, <2>2, <3>1, <3>2 DEF Arranged
  <2> QED BY <1>1, <2>3, <2>4
<1> QED BY <1>1, <1>2, <1>3

LEMMA AllFollowConcat ==
    ASSUME NEW Up, NEW Down, NEW E, NEW es \in Seq(E), NEW fs \in Seq(E), NEW b,
           AllFollow(Up, Down, es, b), AllFollow(Up, Down, fs, b)
    PROVE  AllFollow(Up, Down, es \o fs, b)
<1> DEFINE all == es \o fs
<1>1. /\ Len(es) \in Nat /\ Len(fs) \in Nat
      /\ DOMAIN es = 1 .. Len(es) /\ DOMAIN fs = 1 .. Len(fs) /\ DOMAIN all = 1 .. Len(es) + Len(fs)
      /\ \A e \in 1 .. Len(es) : all[e] = es[e]
      /\ \A e \in 1 .. Len(fs) : all[Len(es) + e] = fs[e]
      BY Concatenated
<1> HIDE DEF all
<1> SUFFICES ASSUME NEW j \in DOMAIN all PROVE Follows(Up, Down, all[j], b)
    BY DEF AllFollow, all
<1>2. CASE j <= Len(es)
  <2>1. j \in 1 .. Len(es)
        BY <1>1, <1>2
  <2> QED BY <1>1, <2>1 DEF AllFollow
<1>3. CASE j > Len(es)
  <2>1. j - Len(es) \in 1 .. Len(fs) /\ Len(es) + (j - Len(es)) = j
        BY <1>1, <1>3
  <2>2. all[j] = fs[j - Len(es)]
        BY <1>1, <2>1
  <2> QED BY <1>1, <2>1, <2>2 DEF AllFollow
<1> QED BY <1>1, <1>2, <1>3

(* A part of the text may stand where the text may.                        *)
LEMMA PartFollows ==
    ASSUME NEW Up, NEW Down, NEW a, NEW p, a.kind # "table", p.kind # "table",
           \A x : Has(p.content, x) => Has(a.content, x)
    PROVE  /\ \A b : Follows(Up, Down, a, b) => Follows(Up, Down, p, b)
           /\ \A b : Follows(Up, Down, b, a) => Follows(Up, Down, b, p)
           /\ \A b : b.kind # "table" => Follows(Up, Down, p, b)
BY DEF Follows

(* Where two pairs of relations allow it, the larger do.                   *)
LEMMA FollowsMore ==
    ASSUME NEW Up, NEW Down, NEW MoreUp, NEW MoreDown, Up \subseteq MoreUp, Down \subseteq MoreDown
    PROVE  /\ \A a, b : Follows(Up, Down, a, b) => Follows(MoreUp, MoreDown, a, b)
           /\ \A es, b : AllFollow(Up, Down, es, b) => AllFollow(MoreUp, MoreDown, es, b)
           /\ \A es : Arranged(Up, Down, es) => Arranged(MoreUp, MoreDown, es)
<1>1. \A a, b : Follows(Up, Down, a, b) => Follows(MoreUp, MoreDown, a, b)
      BY DEF Follows
<1> QED BY <1>1 DEF AllFollow, Arranged

(* The lines of text are among those it is made of.                        *)
LEMMA LinesFrom ==
    ASSUME NEW T, NEW ps \in Seq(Paragraph(T)), NEW x, Has(ps, x)
    PROVE  x \in T
<1>1. PICK a \in DOMAIN ps : \E b \in DOMAIN ps[a] : ps[a][b] = x
      BY DEF Has
<1>2. ps[a] \in Seq(T)
      BY DEF Paragraph
<1> QED BY <1>1, <1>2

LEMMA HasConcat ==
    ASSUME NEW P, NEW ps \in Seq(P), NEW qs \in Seq(P), NEW x, Has(ps \o qs, x)
    PROVE  Has(ps, x) \/ Has(qs, x)
<1> DEFINE all == ps \o qs
<1>1. /\ Len(ps) \in Nat /\ Len(qs) \in Nat
      /\ DOMAIN ps = 1 .. Len(ps) /\ DOMAIN qs = 1 .. Len(qs) /\ DOMAIN all = 1 .. Len(ps) + Len(qs)
      /\ \A e \in 1 .. Len(ps) : all[e] = ps[e]
      /\ \A e \in 1 .. Len(qs) : all[Len(ps) + e] = qs[e]
      BY Concatenated
<1> HIDE DEF all
<1>2. PICK a \in DOMAIN all : \E b \in DOMAIN all[a] : all[a][b] = x
      BY DEF Has, all
<1>3. CASE a <= Len(ps)
  <2>1. a \in 1 .. Len(ps)
        BY <1>1, <1>3
  <2> QED BY <1>1, <1>2, <2>1 DEF Has
<1>4. CASE a > Len(ps)
  <2>1. a - Len(ps) \in 1 .. Len(qs) /\ Len(ps) + (a - Len(ps)) = a
        BY <1>1, <1>4
  <2>2. all[a] = qs[a - Len(ps)]
        BY <1>1, <2>1
  <2> QED BY <1>1, <1>2, <2>1, <2>2 DEF Has
<1> QED BY <1>1, <1>3, <1>4

(* The end of a buffer takes its text apart.                               *)
LEMMA FlushedArranged ==
    ASSUME NEW Up, NEW Down, NEW T, NEW U, NEW es \in Seq(Element(T, U)), NEW prose \in Seq(Paragraph(T)),
           Arranged(Up, Down, es), AllFollow(Up, Down, es, TextElement(prose))
    PROVE  /\ Arranged(Up, Down, Flushed(es, prose))
           /\ \A b : AllFollow(Up, Down, es, b) /\ Follows(Up, Down, TextElement(prose), b)
                        => AllFollow(Up, Down, Flushed(es, prose), b)
           /\ \A e : Among(e, es) => Among(e, Flushed(es, prose))
<1> DEFINE E == Element(T, U)
           P == Range(prose)
           bs == SplitFigureBlocks(prose)
           whole == TextElement(prose)
<1>1. CASE prose = <<>>
      BY <1>1 DEF Flushed
<1>2. CASE prose # <<>>
  <2>1. prose \in Seq(P) /\ P \subseteq Paragraph(T)
    <3>1. DOMAIN prose = 1 .. Len(prose) /\ \A k \in DOMAIN prose : prose[k] \in Paragraph(T) /\ prose[k] \in P
          BY DEF Range
    <3>2. prose = [k \in 1 .. Len(prose) |-> prose[k]] /\ Len(prose) \in Nat
          OBVIOUS
    <3>3. P \subseteq Paragraph(T)
          BY <3>1 DEF Range
    <3> HIDE DEF P
    <3> QED BY <3>1, <3>2, <3>3, SequenceOf
  <2>2. bs \in Seq(Block(P))
    <3> HIDE DEF P
    <3> QED BY <2>1, FiguresTold
  <2>3. \A k \in DOMAIN bs : /\ bs[k] \in Block(P) /\ bs[k].kind # "table" /\ bs[k].content \in Seq(P)
                             /\ \A x : Has(bs[k].content, x) => Has(prose, x)
    <3> SUFFICES ASSUME NEW k \in DOMAIN bs
                 PROVE  /\ bs[k] \in Block(P) /\ bs[k].kind # "table" /\ bs[k].content \in Seq(P)
                        /\ \A x : Has(bs[k].content, x) => Has(prose, x)
        OBVIOUS
    <3> HIDE DEF bs
    <3>1. bs[k] \in Block(P)
          BY <2>2
    <3>2. bs[k].kind # "table" /\ bs[k].content \in Seq(P)
      <4> HIDE DEF P
      <4> QED BY <3>1 DEF Block, Paragraph
    <3>3. ASSUME NEW x, Has(bs[k].content, x) PROVE Has(prose, x)
      <4>1. PICK a \in DOMAIN bs[k].content : \E b \in DOMAIN bs[k].content[a] : bs[k].content[a][b] = x
            BY <3>3 DEF Has
      <4>2. bs[k].content[a] \in P
            BY <3>2, <4>1
      <4>3. PICK c \in DOMAIN prose : prose[c] = bs[k].content[a]
            BY <4>2 DEF Range
      <4> QED BY <4>1, <4>3 DEF Has
    <3> QED BY <3>1, <3>2, <3>3
  <2>4. bs \in Seq(E)
    <3>1. Block(P) \subseteq E
          BY <2>1 DEF Block, Element, Paragraph
    <3> HIDE DEF bs, E, P
    <3> QED BY <2>2, <3>1, SeqMonotone
  <2>5. whole.kind # "table" /\ whole.content = prose
        BY DEF TextElement
  <2> HIDE DEF whole
  <2>6. \A k \in DOMAIN bs : AllFollow(Up, Down, es, bs[k])
    <3> HIDE DEF bs, P
    <3>1. AllFollow(Up, Down, es, whole)
          BY DEF whole
    <3>2. \A k \in DOMAIN bs : \A b : Follows(Up, Down, b, whole) => Follows(Up, Down, b, bs[k])
          BY <2>3, <2>5, PartFollows
    <3> QED BY <3>1, <3>2 DEF AllFollow
  <2>7. Arranged(Up, Down, bs)
    <3> HIDE DEF bs, P
    <3> QED BY <2>3 DEF Arranged, Follows
  <2>8. \A b : Follows(Up, Down, whole, b) => AllFollow(Up, Down, bs, b)
    <3> HIDE DEF bs, P
    <3>1. \A k \in DOMAIN bs : \A b : Follows(Up, Down, whole, b) => Follows(Up, Down, bs[k], b)
          BY <2>3, <2>5, PartFollows
    <3> QED BY <3>1 DEF AllFollow
  <2>9. Flushed(es, prose) = es \o bs
        BY <1>2 DEF Flushed
  <2> HIDE DEF bs, E
  <2>10. es \in Seq(E)
         BY DEF E
  <2>11. Arranged(Up, Down, es \o bs)
         BY <2>4, <2>6, <2>7, <2>10, ArrangedConcat
  <2>12. \A b : AllFollow(Up, Down, es, b) /\ AllFollow(Up, Down, bs, b) => AllFollow(Up, Down, es \o bs, b)
         BY <2>4, <2>10, AllFollowConcat
  <2>13. \A e : Among(e, es) => Among(e, es \o bs)
         BY <2>4, <2>10, ConcatAmong
  <2> QED BY <2>8, <2>9, <2>11, <2>12, <2>13 DEF whole
<1> QED BY <1>1, <1>2

LEMMA AppendArranged ==
    ASSUME NEW Up, NEW Down, NEW E, NEW es \in Seq(E), NEW e \in E, Arranged(Up, Down, es), AllFollow(Up, Down, es, e)
    PROVE  /\ Arranged(Up, Down, Append(es, e))
           /\ \A b : AllFollow(Up, Down, es, b) /\ Follows(Up, Down, e, b) => AllFollow(Up, Down, Append(es, e), b)
           /\ \A x : Among(x, Append(es, e)) <=> Among(x, es) \/ x = e
<1> DEFINE all == Append(es, e)
<1>1. /\ Len(es) \in Nat /\ DOMAIN all = 1 .. Len(es) + 1 /\ DOMAIN es = 1 .. Len(es) /\ all[Len(es) + 1] = e
      /\ \A k \in 1 .. Len(es) : all[k] = es[k]
      OBVIOUS
<1> HIDE DEF all
<1>2. \A k \in DOMAIN all : k \in 1 .. Len(es) \/ k = Len(es) + 1
      BY <1>1
<1>3. Arranged(Up, Down, all)
  <2> SUFFICES ASSUME NEW j \in DOMAIN all, NEW k \in DOMAIN all, j < k PROVE Follows(Up, Down, all[j], all[k])
      BY DEF Arranged
  <2>1. j \in 1 .. Len(es)
        BY <1>1
  <2>2. CASE k \in 1 .. Len(es)
        BY <1>1, <2>1, <2>2 DEF Arranged
  <2>3. CASE k = Len(es) + 1
        BY <1>1, <2>1, <2>3 DEF AllFollow
  <2> QED BY <1>2, <2>2, <2>3
<1>4. \A b : AllFollow(Up, Down, es, b) /\ Follows(Up, Down, e, b) => AllFollow(Up, Down, all, b)
      BY <1>1, <1>2 DEF AllFollow
<1>5. \A x : Among(x, all) <=> Among(x, es) \/ x = e
  <2>1. Len(es) + 1 \in DOMAIN all /\ \A k \in 1 .. Len(es) : k \in DOMAIN all
        BY <1>1
  <2> QED BY <1>1, <1>2, <2>1 DEF Among
<1> QED BY <1>3, <1>4, <1>5 DEF all

(* The text that is waiting, as the element it will become.                *)
ReadArranged(Up, Down, acc) ==
    Arranged(Up, Down, acc.es) /\ AllFollow(Up, Down, acc.es, TextElement(acc.prose))
ReadFollow(Up, Down, acc, b) ==
    AllFollow(Up, Down, acc.es, b) /\ Follows(Up, Down, TextElement(acc.prose), b)

LEMMA SegmentStepArranged ==
    ASSUME NEW Up, NEW Down, NEW T, NEW U, NEW acc \in Reading(T, U), NEW seg \in Segment(T, U),
           ReadArranged(Up, Down, acc), ReadFollow(Up, Down, acc, seg)
    PROVE  /\ ReadArranged(Up, Down, SegmentStep(acc, seg))
           /\ \A b : ReadFollow(Up, Down, acc, b) /\ Follows(Up, Down, seg, b)
                        => ReadFollow(Up, Down, SegmentStep(acc, seg), b)
           /\ \A e : Among(e, acc.es) => Among(e, SegmentStep(acc, seg).es)
           /\ seg.kind = "table" => Among(seg, SegmentStep(acc, seg).es)
<1>1. acc.es \in Seq(Element(T, U)) /\ acc.prose \in Seq(Paragraph(T)) /\ acc = [es |-> acc.es, prose |-> acc.prose]
      BY DEF Reading
<1>2. CASE seg.kind = "text"
  <2> DEFINE more == acc.prose \o seg.content
  <2>1. seg.content \in Seq(Paragraph(T))
        BY <1>2 DEF Segment
  <2>2. \A x : Has(more, x) => Has(acc.prose, x) \/ Has(seg.content, x)
        BY <1>1, <2>1, HasConcat
  <2>3. SegmentStep(acc, seg) = [es |-> acc.es, prose |-> more]
        BY <1>1, <1>2 DEF SegmentStep
  <2> HIDE DEF more
  <2>4. SegmentStep(acc, seg).es = acc.es /\ SegmentStep(acc, seg).prose = more
        BY <2>3
  <2>5. /\ TextElement(more).kind = "text" /\ TextElement(more).content = more
        /\ TextElement(acc.prose).kind = "text" /\ TextElement(acc.prose).content = acc.prose
        BY DEF TextElement
  <2>6. AllFollow(Up, Down, acc.es, TextElement(more))
    <3> SUFFICES ASSUME NEW j \in DOMAIN acc.es PROVE Follows(Up, Down, acc.es[j], TextElement(more))
        BY DEF AllFollow
    <3>1. Follows(Up, Down, acc.es[j], TextElement(acc.prose)) /\ Follows(Up, Down, acc.es[j], seg)
          BY DEF ReadArranged, ReadFollow, AllFollow
    <3> QED BY <1>2, <2>2, <2>5, <3>1 DEF Follows
  <2>7. \A b : Follows(Up, Down, TextElement(acc.prose), b) /\ Follows(Up, Down, seg, b)
                  => Follows(Up, Down, TextElement(more), b)
        BY <1>2, <2>2, <2>5 DEF Follows
  <2> QED BY <1>2, <2>4, <2>6, <2>7 DEF ReadArranged, ReadFollow
<1>3. CASE seg.kind # "text"
  <2> DEFINE fs == Flushed(acc.es, acc.prose)
             all == Append(fs, seg)
  <2>1. seg.kind = "table" /\ seg \in Element(T, U)
        BY <1>3 DEF Segment, Element
  <2>2. fs \in Seq(Element(T, U))
        BY <1>1, FlushedHolds
  <2>3. /\ Arranged(Up, Down, fs)
        /\ \A b : AllFollow(Up, Down, acc.es, b) /\ Follows(Up, Down, TextElement(acc.prose), b)
                     => AllFollow(Up, Down, fs, b)
        /\ \A e : Among(e, acc.es) => Among(e, fs)
        BY <1>1, FlushedArranged DEF ReadArranged
  <2>4. SegmentStep(acc, seg) = [es |-> all, prose |-> <<>>]
        BY <1>3 DEF SegmentStep
  <2> HIDE DEF fs
  <2>5. AllFollow(Up, Down, fs, seg)
        BY <2>3 DEF ReadFollow
  <2>6. /\ Arranged(Up, Down, all)
        /\ \A b : AllFollow(Up, Down, fs, b) /\ Follows(Up, Down, seg, b) => AllFollow(Up, Down, all, b)
        /\ \A x : Among(x, all) <=> Among(x, fs) \/ x = seg
        BY <2>1, <2>2, <2>3, <2>5, AppendArranged
  <2> HIDE DEF all
  <2>7. SegmentStep(acc, seg).es = all /\ SegmentStep(acc, seg).prose = <<>>
        BY <2>4
  <2>8. TextElement(<<>>).kind = "text" /\ \A x : ~Has(TextElement(<<>>).content, x)
        BY DEF TextElement, Has
  <2>9. \A b : Follows(Up, Down, TextElement(<<>>), b) /\ (Follows(Up, Down, b, TextElement(<<>>)))
        BY <2>8 DEF Follows
  <2> QED BY <2>3, <2>6, <2>7, <2>9 DEF ReadArranged, ReadFollow, AllFollow
<1> QED BY <1>2, <1>3

LEMMA SegmentsArranged ==
    ASSUME NEW Up, NEW Down, NEW T, NEW U, elements \in Seq(Element(T, U)), buffer \in Seq(Paragraph(T)),
           NEW segments \in Seq(Segment(T, U)), Arranged(Up, Down, segments),
           ReadArranged(Up, Down, [es |-> elements, prose |-> buffer]),
           \A k \in DOMAIN segments : ReadFollow(Up, Down, [es |-> elements, prose |-> buffer], segments[k])
    PROVE  /\ ReadArranged(Up, Down, WithSegments(segments))
           /\ \A e : e.kind = "table" /\ (Among(e, elements) \/ Among(e, segments))
                        => Among(e, WithSegments(segments).es)
<1>1. PICK h : SegmentRun(h, WithSegments(segments), segments, elements, buffer, T, U)
      BY SegmentFold
<1> DEFINE Kept(m) ==
             /\ ReadArranged(Up, Down, h[m])
             /\ \A k \in DOMAIN segments : k > m => ReadFollow(Up, Down, h[m], segments[k])
             /\ \A e : Among(e, elements) => Among(e, h[m].es)
             /\ \A k \in 1 .. m : segments[k].kind = "table" => Among(segments[k], h[m].es)
           G == {m \in Nat : m <= Len(segments) => Kept(m)}
<1>2. 0 \in G
  <2>1. h[0] = [es |-> elements, prose |-> buffer] /\ h[0].es = elements
        BY <1>1 DEF SegmentRun
  <2> QED BY <2>1
<1>3. ASSUME NEW m \in Nat, m + 1 <= Len(segments), Kept(m) PROVE Kept(m + 1)
  <2> DEFINE next == SegmentStep(h[m], segments[m + 1])
  <2>1. m + 1 \in 1 .. Len(segments) /\ (m + 1) - 1 = m /\ m \in 0 .. Len(segments) /\ DOMAIN segments = 1 .. Len(segments)
        BY <1>3
  <2>2. h[m] \in Reading(T, U) /\ segments[m + 1] \in Segment(T, U)
    <3>1. h \in [0 .. Len(segments) -> Reading(T, U)]
          BY <1>1 DEF SegmentRun
    <3>2. \A k \in 1 .. Len(segments) : segments[k] \in Segment(T, U)
          OBVIOUS
    <3> QED BY <2>1, <3>1, <3>2
  <2>3. h[m + 1] = next
    <3>1. \A k \in 1 .. Len(segments) : h[k] = SegmentStep(h[k - 1], segments[k])
          BY <1>1 DEF SegmentRun
    <3> QED BY <2>1, <3>1
  <2>4. ReadArranged(Up, Down, h[m]) /\ ReadFollow(Up, Down, h[m], segments[m + 1])
        BY <1>3, <2>1
  <2>5. /\ ReadArranged(Up, Down, next)
        /\ \A b : ReadFollow(Up, Down, h[m], b) /\ Follows(Up, Down, segments[m + 1], b)
                     => ReadFollow(Up, Down, next, b)
        /\ \A e : Among(e, h[m].es) => Among(e, next.es)
        /\ segments[m + 1].kind = "table" => Among(segments[m + 1], next.es)
        BY <2>2, <2>4, SegmentStepArranged
  <2> HIDE DEF next
  <2>6. ASSUME NEW k \in DOMAIN segments, k > m + 1 PROVE ReadFollow(Up, Down, next, segments[k])
    <3>1. Follows(Up, Down, segments[m + 1], segments[k])
          BY <2>1, <2>6 DEF Arranged
    <3>2. k > m
          BY <2>1, <2>6
    <3> QED BY <1>3, <2>5, <3>1, <3>2
  <2>7. \A k \in 1 .. m + 1 : k \in 1 .. m \/ k = m + 1
        OBVIOUS
  <2> QED BY <1>3, <2>3, <2>5, <2>6, <2>7
<1>4. Nat \subseteq G
  <2> HIDE DEF Kept
  <2>1. \A m \in Nat : m \in G => m + 1 \in G
        BY <1>3
  <2> HIDE DEF G
  <2> QED BY <1>2, <2>1, Induction
<1>5. Len(segments) \in Nat /\ DOMAIN segments = 1 .. Len(segments)
      OBVIOUS
<1>6. Kept(Len(segments))
  <2> HIDE DEF Kept
  <2> QED BY <1>4, <1>5
<1>7. WithSegments(segments) = h[Len(segments)]
      BY <1>1 DEF SegmentRun
<1> QED BY <1>5, <1>6, <1>7 DEF Among

----------------------------------------------------------------------------
(* A page with tables keeps its order.                                     *)

TopToBottom(objs) == \A j, k \in DOMAIN objs : j < k => objs[j].y <= objs[k].y

LEMMA OutsideSorted ==
    ASSUME NEW ts, NEW B, \A o \in B : o.y \in Int, NEW objs \in Seq(B), TopToBottom(objs)
    PROVE  TopToBottom(Outside(ts, objs))
<1>1. PICK h \in [0 .. Len(objs) -> Seq(B)] :
              /\ h[0] = <<>> /\ Outside(ts, objs) = h[Len(objs)]
              /\ \A k \in 1 .. Len(objs) : h[k] = OutsideStep(ts, h[k - 1], objs[k])
      BY OutsideFold
<1>2. Len(objs) \in Nat /\ DOMAIN objs = 1 .. Len(objs) /\ \A k \in 1 .. Len(objs) : objs[k] \in B
      OBVIOUS
<1> DEFINE Kept(m) == /\ TopToBottom(h[m])
                      /\ \A j \in DOMAIN h[m] : \A k \in 1 .. Len(objs) : k > m => h[m][j].y <= objs[k].y
           G == {m \in Nat : m <= Len(objs) => Kept(m)}
<1>3. 0 \in G
      BY <1>1 DEF TopToBottom
<1>4. ASSUME NEW m \in Nat, m + 1 <= Len(objs), Kept(m) PROVE Kept(m + 1)
  <2> DEFINE out == h[m]
             o == objs[m + 1]
             more == Append(out, o)
  <2>1. m + 1 \in 1 .. Len(objs) /\ (m + 1) - 1 = m /\ m \in 0 .. Len(objs)
        BY <1>2, <1>4
  <2>2. out \in Seq(B) /\ h[m + 1] = OutsideStep(ts, out, o) /\ o \in B
        BY <1>1, <1>2, <2>1
  <2>3. h[m + 1] = out \/ h[m + 1] = more
        BY <2>2 DEF OutsideStep
  <2>4. CASE h[m + 1] = out
        BY <1>2, <1>4, <2>1, <2>4
  <2>5. CASE h[m + 1] = more
    <3>1. /\ DOMAIN more = 1 .. Len(out) + 1 /\ DOMAIN out = 1 .. Len(out) /\ Len(out) \in Nat
          /\ more[Len(out) + 1] = o /\ \A j \in 1 .. Len(out) : more[j] = out[j]
          BY <2>2
    <3>2. /\ \A j \in DOMAIN out : \A k \in 1 .. Len(objs) : k > m => out[j].y <= objs[k].y
          /\ \A j, k \in DOMAIN out : j < k => out[j].y <= out[k].y
          BY <1>4 DEF TopToBottom
    <3>3. \A k \in 1 .. Len(objs) : k > m + 1 => o.y <= objs[k].y
          BY <1>2, <2>1 DEF TopToBottom
    <3> HIDE DEF out, o, more
    <3>4. \A j \in DOMAIN more : j \in 1 .. Len(out) \/ j = Len(out) + 1
          BY <3>1
    <3>5. \A j, k \in DOMAIN more : j < k => more[j].y <= more[k].y
      <4> SUFFICES ASSUME NEW j \in DOMAIN more, NEW k \in DOMAIN more, j < k PROVE more[j].y <= more[k].y
          OBVIOUS
      <4>1. j \in 1 .. Len(out)
            BY <3>1
      <4>2. CASE k \in 1 .. Len(out)
            BY <3>1, <3>2, <4>1, <4>2
      <4>3. CASE k = Len(out) + 1
        <5>1. out[j].y <= o.y
              BY <2>1, <3>1, <3>2, <4>1 DEF o
        <5> QED BY <3>1, <4>1, <4>3, <5>1
      <4> QED BY <3>4, <4>2, <4>3
    <3>6. ASSUME NEW j \in DOMAIN more, NEW k \in 1 .. Len(objs), k > m + 1 PROVE more[j].y <= objs[k].y
      <4>1. k > m
            BY <1>2, <3>6
      <4> QED BY <3>1, <3>2, <3>3, <3>4, <3>6, <4>1
    <3> QED BY <2>5, <3>5, <3>6 DEF TopToBottom
  <2> QED BY <2>3, <2>4, <2>5
<1>5. Nat \subseteq G
  <2> HIDE DEF Kept
  <2>1. \A m \in Nat : m \in G => m + 1 \in G
        BY <1>4
  <2> HIDE DEF G
  <2> QED BY <1>3, <2>1, Induction
<1>6. Kept(Len(objs))
  <2> HIDE DEF Kept
  <2> QED BY <1>2, <1>5
<1> QED BY <1>1, <1>6

(* What precedes a table on its page is above it, what follows is not.     *)
LEMMA UpToCuts ==
    ASSUME NEW B, \A o \in B : o.y \in Int, NEW prose \in Seq(B), TopToBottom(prose),
           NEW from \in 1 .. Len(prose) + 1, NEW top \in Int
    PROVE  /\ \A k \in from .. UpTo(prose, from, top) : prose[k].y < top
           /\ \A k \in UpTo(prose, from, top) + 1 .. Len(prose) : prose[k].y >= top
<1> DEFINE stops == {k \in from .. Len(prose) : prose[k].y >= top}
<1>1. Len(prose) \in Nat /\ DOMAIN prose = 1 .. Len(prose) /\ \A k \in 1 .. Len(prose) : prose[k].y \in Int
      OBVIOUS
<1>2. CASE stops = {}
  <2>1. UpTo(prose, from, top) = Len(prose)
        BY <1>2 DEF UpTo
  <2>2. \A k \in from .. Len(prose) : prose[k].y < top
    <3>1. \A k \in from .. Len(prose) : k \in 1 .. Len(prose) /\ ~(prose[k].y >= top)
          BY <1>1, <1>2
    <3> QED BY <1>1, <3>1
  <2> QED BY <1>1, <2>1, <2>2
<1>3. CASE stops # {}
  <2>1. stops \subseteq Nat /\ \A k \in stops : k \in from .. Len(prose) /\ prose[k].y >= top
        OBVIOUS
  <2>2. UpTo(prose, from, top) = Lowest(stops) - 1
        BY <1>3 DEF UpTo
  <2>3. \A k \in from .. Len(prose) : k \notin stops => prose[k].y < top
    <3>1. \A k \in from .. Len(prose) : k \in 1 .. Len(prose)
          BY <1>1
    <3> QED BY <1>1, <3>1
  <2> HIDE DEF stops
  <2>4. Lowest(stops) \in stops /\ \A k \in stops : Lowest(stops) <= k
        BY <1>3, <2>1, LowestIsLowest
  <2> DEFINE first == Lowest(stops)
  <2> HIDE DEF first
  <2>5. first \in from .. Len(prose) /\ prose[first].y >= top /\ first \in 1 .. Len(prose)
    <3>1. first \in stops
          BY <2>4 DEF first
    <3>2. first \in from .. Len(prose) /\ prose[first].y >= top
          BY <2>1, <3>1
    <3> QED BY <1>1, <3>2
  <2>6. ASSUME NEW k \in from .. first - 1 PROVE prose[k].y < top
    <3>1. k \in from .. Len(prose) /\ ~(first <= k)
          BY <1>1, <2>5
    <3>2. k \notin stops
          BY <2>4, <3>1 DEF first
    <3> QED BY <2>3, <3>1, <3>2
  <2>7. ASSUME NEW k \in first .. Len(prose) PROVE prose[k].y >= top
    <3>1. k \in 1 .. Len(prose) /\ (k = first \/ first < k)
          BY <1>1, <2>5
    <3>2. prose[first].y <= prose[k].y
          BY <1>1, <2>5, <3>1 DEF TopToBottom
    <3> QED BY <1>1, <2>5, <3>1, <3>2
  <2>8. (first - 1) + 1 = first
        BY <2>5
  <2> QED BY <2>2, <2>6, <2>7, <2>8 DEF first
<1> QED BY <1>2, <1>3

(* The runs before this index may precede the table, the others follow it. *)
Cut(Up, Down, prose, idx, t) ==
    \A k \in 1 .. Len(prose) : IF k < idx THEN <<prose[k].text, t>> \in Up ELSE <<prose[k].text, t>> \in Down

(* On a page that is read from top to bottom the runs above a table may    *)
(* precede it and the others follow it, on another one all may do both.    *)
Fits(Up, Down, prose, t) ==
    \/ /\ TopToBottom(prose)
       /\ \A k \in DOMAIN prose : IF prose[k].y < Top(t) THEN <<prose[k].text, t>> \in Up
                                                         ELSE <<prose[k].text, t>> \in Down
    \/ \A k \in DOMAIN prose : <<prose[k].text, t>> \in Up /\ <<prose[k].text, t>> \in Down

LEMMA TableCuts ==
    ASSUME NEW Up, NEW Down, NEW B, NEW T, \A o \in B : o.text \in T /\ o.y \in Int, NEW prose \in Seq(B),
           NEW U, NEW ts \in Seq(U), \A t \in U : Top(t) \in Int /\ Fits(Up, Down, prose, t),
           \A j, k \in 1 .. Len(ts) : j < k => Top(ts[j]) < Top(ts[k]),
           NEW h, NEW all, TableRun(h, all, prose, ts, T, U)
    PROVE  \A k \in 1 .. Len(ts) : h[k - 1].idx <= h[k].idx /\ Cut(Up, Down, prose, h[k].idx, ts[k])
<1>1. /\ Len(prose) \in Nat /\ DOMAIN prose = 1 .. Len(prose) /\ Len(ts) \in Nat
      /\ \A k \in 1 .. Len(ts) : ts[k] \in U /\ Top(ts[k]) \in Int
      /\ \A k \in 1 .. Len(prose) : prose[k].y \in Int
  <2>1. Len(prose) \in Nat /\ DOMAIN prose = 1 .. Len(prose) /\ Len(ts) \in Nat
        OBVIOUS
  <2>2. \A k \in 1 .. Len(ts) : ts[k] \in U
        OBVIOUS
  <2>3. \A k \in 1 .. Len(prose) : prose[k] \in B
        OBVIOUS
  <2> QED BY <2>1, <2>2, <2>3
<1>2. \A m \in 0 .. Len(ts) : h[m].idx \in 1 .. Len(prose) + 1
      BY DEF TableRun, Splitting
<1>3. \A k \in 1 .. Len(ts) : /\ h[k].idx = UpTo(prose, h[k - 1].idx, Top(ts[k])) + 1
                              /\ h[k - 1].idx \in 1 .. Len(prose) + 1
                              /\ UpTo(prose, h[k - 1].idx, Top(ts[k])) \in h[k - 1].idx - 1 .. Len(prose)
  <2> SUFFICES ASSUME NEW k \in 1 .. Len(ts)
               PROVE  /\ h[k].idx = UpTo(prose, h[k - 1].idx, Top(ts[k])) + 1
                      /\ h[k - 1].idx \in 1 .. Len(prose) + 1
                      /\ UpTo(prose, h[k - 1].idx, Top(ts[k])) \in h[k - 1].idx - 1 .. Len(prose)
      OBVIOUS
  <2>1. h[k] = TableStep(prose, h[k - 1], ts[k])
        BY DEF TableRun
  <2>2. h[k].idx = UpTo(prose, h[k - 1].idx, Top(ts[k])) + 1
        BY <2>1 DEF TableStep
  <2>3. k - 1 \in 0 .. Len(ts)
        BY <1>1
  <2>4. h[k - 1].idx \in 1 .. Len(prose) + 1
        BY <1>2, <2>3
  <2> QED BY <2>2, <2>4, UpToBounds
<1>4. \A k \in 1 .. Len(ts) : h[k - 1].idx <= h[k].idx
      BY <1>1, <1>3
<1> DEFINE RunsAbove(m) == m > 0 => \A k \in 1 .. h[m].idx - 1 : prose[k].y < Top(ts[m])
           SortedCut(m) == TopToBottom(prose) =>
                           /\ RunsAbove(m)
                           /\ m > 0 => \A k \in h[m].idx .. Len(prose) : prose[k].y >= Top(ts[m])
           G == {m \in Nat : m <= Len(ts) => SortedCut(m)}
<1>5. 0 \in G
      OBVIOUS
<1>6. ASSUME NEW m \in Nat, m + 1 <= Len(ts), SortedCut(m) PROVE SortedCut(m + 1)
  <2> SUFFICES ASSUME TopToBottom(prose)
               PROVE  /\ \A k \in 1 .. h[m + 1].idx - 1 : prose[k].y < Top(ts[m + 1])
                      /\ \A k \in h[m + 1].idx .. Len(prose) : prose[k].y >= Top(ts[m + 1])
      OBVIOUS
  <2> DEFINE from == h[m].idx
             top  == Top(ts[m + 1])
             end  == UpTo(prose, from, top)
  <2>1. m + 1 \in 1 .. Len(ts) /\ (m + 1) - 1 = m /\ m \in 0 .. Len(ts)
        BY <1>1, <1>6
  <2>2. h[m + 1].idx = end + 1 /\ from \in 1 .. Len(prose) + 1 /\ end \in from - 1 .. Len(prose) /\ top \in Int
        BY <1>1, <1>3, <2>1
  <2>3. /\ \A k \in from .. end : prose[k].y < top
        /\ \A k \in end + 1 .. Len(prose) : prose[k].y >= top
    <3> HIDE DEF from, top
    <3> QED BY <2>2, UpToCuts
  <2>4. \A k \in 1 .. from - 1 : prose[k].y < top
    <3> SUFFICES ASSUME NEW k \in 1 .. from - 1 PROVE prose[k].y < top
        OBVIOUS
    <3>1. CASE m = 0
      <4>1. h[0].idx = 1
            BY DEF TableRun
      <4> QED BY <3>1, <4>1
    <3>2. CASE m # 0
      <4>1. m \in 1 .. Len(ts) /\ m < m + 1 /\ m > 0
            BY <2>1, <3>2
      <4>2. prose[k].y < Top(ts[m])
            BY <1>6, <4>1
      <4>3. Top(ts[m]) < top
            BY <2>1, <4>1
      <4>4. k \in 1 .. Len(prose)
            BY <1>1, <2>2
      <4>5. prose[k].y \in Int /\ Top(ts[m]) \in Int /\ top \in Int
            BY <1>1, <2>2, <4>1, <4>4
      <4> HIDE DEF from, top
      <4> QED BY <4>2, <4>3, <4>5
    <3> QED BY <3>1, <3>2
  <2> HIDE DEF from, top, end
  <2>5. (end + 1) - 1 = end /\ \A k \in 1 .. end : k \in 1 .. from - 1 \/ k \in from .. end
        BY <1>1, <2>2
  <2> QED BY <2>2, <2>3, <2>4, <2>5 DEF top
<1>7. Nat \subseteq G
  <2> HIDE DEF SortedCut
  <2>1. \A m \in Nat : m \in G => m + 1 \in G
        BY <1>6
  <2> HIDE DEF G
  <2> QED BY <1>5, <2>1, Induction
<1>8. ASSUME NEW k \in 1 .. Len(ts) PROVE Cut(Up, Down, prose, h[k].idx, ts[k])
  <2>1. Fits(Up, Down, prose, ts[k])
        BY <1>1
  <2>2. CASE \A m \in DOMAIN prose : <<prose[m].text, ts[k]>> \in Up /\ <<prose[m].text, ts[k]>> \in Down
        BY <1>1, <2>2 DEF Cut
  <2>3. CASE /\ TopToBottom(prose)
             /\ \A m \in DOMAIN prose : IF prose[m].y < Top(ts[k]) THEN <<prose[m].text, ts[k]>> \in Up
                                                                  ELSE <<prose[m].text, ts[k]>> \in Down
    <3>1. k \in Nat /\ k <= Len(ts) /\ k > 0
          BY <1>1
    <3>2. SortedCut(k)
      <4> HIDE DEF SortedCut
      <4> QED BY <1>7, <3>1
    <3>3. /\ \A m \in 1 .. h[k].idx - 1 : prose[m].y < Top(ts[k])
          /\ \A m \in h[k].idx .. Len(prose) : prose[m].y >= Top(ts[k])
          BY <2>3, <3>1, <3>2
    <3> HIDE DEF SortedCut, RunsAbove, G
    <3> SUFFICES ASSUME NEW m \in 1 .. Len(prose)
                 PROVE  IF m < h[k].idx THEN <<prose[m].text, ts[k]>> \in Up ELSE <<prose[m].text, ts[k]>> \in Down
        BY DEF Cut
    <3>4. h[k].idx \in 1 .. Len(prose) + 1
          BY <1>2, <3>1
    <3>5. CASE m < h[k].idx
      <4>1. m \in 1 .. h[k].idx - 1
            BY <1>1, <3>4, <3>5
      <4> QED BY <1>1, <2>3, <3>3, <3>5, <4>1
    <3>6. CASE ~(m < h[k].idx)
      <4>1. m \in h[k].idx .. Len(prose)
            BY <1>1, <3>4, <3>6
      <4>2. ~(prose[m].y < Top(ts[k]))
            BY <1>1, <3>3, <4>1
      <4> QED BY <1>1, <2>3, <3>6, <4>2
    <3> QED BY <3>5, <3>6
  <2> QED BY <2>1, <2>2, <2>3 DEF Fits
<1> QED BY <1>4, <1>8

(* The segment of a stretch of runs has no other lines.                    *)
LEMMA TextSegmentFrom ==
    ASSUME NEW B, NEW prose \in Seq(B), NEW from \in 1 .. Len(prose) + 1, NEW to \in from - 1 .. Len(prose)
    PROVE  TextSegment(prose, from, to)
              \in Seq([kind : {"text"}, content : Seq(Paragraph({prose[k].text : k \in from .. to}))])
<1> DEFINE T == {prose[k].text : k \in from .. to}
           C == {prose[k] : k \in from .. to}
           some == SubSeq(prose, from, to)
           ps == ReconstructParagraphs(Texts(some))
<1>1. some \in Seq(C)
  <2>1. some \in Seq(B) /\ Len(some) = to - from + 1 /\ Len(some) \in Nat /\ from \in Int /\ to \in Int
        OBVIOUS
  <2>2. \A k \in from .. to : some[k - from + 1] = prose[k]
        OBVIOUS
  <2> HIDE DEF some
  <2>3. \A j \in 1 .. Len(some) : some[j] \in C
    <3> SUFFICES ASSUME NEW j \in 1 .. Len(some) PROVE some[j] \in C
        OBVIOUS
    <3>1. j + from - 1 \in from .. to /\ (j + from - 1) - from + 1 = j
          BY <2>1
    <3>2. some[j] = prose[j + from - 1]
          BY <2>2, <3>1
    <3> QED BY <3>1, <3>2
  <2> HIDE DEF C
  <2>4. some = [j \in 1 .. Len(some) |-> some[j]]
        BY <2>1
  <2> QED BY <2>1, <2>3, <2>4, SequenceOf
<1>2. \A o \in C : o.text \in T
      OBVIOUS
<1> HIDE DEF some, C, T
<1>3. Texts(some) \in Seq(T)
      BY <1>1, <1>2, TextsOf
<1>4. ps \in Seq(Paragraph(T))
      BY <1>3, ParagraphsHoldLines
<1>5. TextSegment(prose, from, to) = IF ps = <<>> THEN <<>> ELSE <<TextElement(ps)>>
      BY DEF TextSegment, some
<1> HIDE DEF ps
<1>6. TextElement(ps) \in [kind : {"text"}, content : Seq(Paragraph(T))]
      BY <1>4 DEF TextElement
<1>7. TextSegment(prose, from, to) \in Seq([kind : {"text"}, content : Seq(Paragraph(T))])
  <2>1. CASE ps = <<>>
        BY <1>5, <2>1
  <2>2. CASE ps # <<>>
    <3>1. TextSegment(prose, from, to) = <<TextElement(ps)>>
          BY <1>5, <2>2
    <3> QED BY <1>6, <3>1
  <2> QED BY <2>1, <2>2
<1> QED BY <1>7 DEF T

LEMMA SegmentMonotone ==
    ASSUME NEW V, NEW X, NEW U
    PROVE  /\ Segment(V, U) \subseteq Segment(V \cup X, U)
           /\ [kind : {"text"}, content : Seq(Paragraph(X))] \subseteq Segment(V \cup X, U)
<1>1. Paragraph(V) \subseteq Paragraph(V \cup X) /\ Paragraph(X) \subseteq Paragraph(V \cup X)
      BY SeqMonotone DEF Paragraph
<1>2. /\ \A s \in Seq(Paragraph(V)) : s \in Seq(Paragraph(V \cup X))
      /\ \A s \in Seq(Paragraph(X)) : s \in Seq(Paragraph(V \cup X))
      BY <1>1, SeqMonotone
<1> QED BY <1>2 DEF Segment

(* Text after tables that it may follow.                                   *)
LEMMA TextAfterTables ==
    ASSUME NEW Up, NEW Down, NEW V, NEW X, NEW earlier, NEW out \in Seq(Segment(V, earlier)), Arranged(Up, Down, out),
           NEW text \in Seq([kind : {"text"}, content : Seq(Paragraph(X))]),
           \A x \in X, t \in earlier : <<x, t>> \in Down
    PROVE  Arranged(Up, Down, out \o text) /\ out \o text \in Seq(Segment(V \cup X, earlier))
<1> DEFINE S == Segment(V \cup X, earlier)
<1>1. Segment(V, earlier) \subseteq S /\ [kind : {"text"}, content : Seq(Paragraph(X))] \subseteq S
      BY SegmentMonotone
<1>2. \A k \in DOMAIN text : text[k].kind = "text" /\ text[k].content \in Seq(Paragraph(X))
  <2> DEFINE R == [kind : {"text"}, content : Seq(Paragraph(X))]
  <2>1. text \in Seq(R)
        OBVIOUS
  <2>2. \A r \in R : r.kind = "text" /\ r.content \in Seq(Paragraph(X))
        OBVIOUS
  <2> HIDE DEF R
  <2>3. \A k \in DOMAIN text : text[k] \in R
        BY <2>1
  <2> QED BY <2>2, <2>3
<1>3. \A k \in DOMAIN out : out[k].kind = "table" => out[k].content \in earlier
  <2>1. \A k \in DOMAIN out : out[k] \in Segment(V, earlier)
        OBVIOUS
  <2> QED BY <2>1 DEF Segment
<1>4. out \in Seq(S) /\ text \in Seq(S)
  <2> HIDE DEF S
  <2> QED BY <1>1, SeqMonotone
<1> HIDE DEF S
<1>5. Arranged(Up, Down, text)
      BY <1>2 DEF Arranged, Follows
<1>6. \A k \in DOMAIN text : AllFollow(Up, Down, out, text[k])
  <2> SUFFICES ASSUME NEW k \in DOMAIN text, NEW j \in DOMAIN out PROVE Follows(Up, Down, out[j], text[k])
      BY DEF AllFollow
  <2>1. text[k].kind = "text" /\ text[k].content \in Seq(Paragraph(X))
        BY <1>2
  <2>2. \A x : Has(text[k].content, x) => x \in X
        BY <2>1, LinesFrom
  <2> QED BY <1>3, <2>1, <2>2 DEF Follows
<1>7. Arranged(Up, Down, out \o text)
      BY <1>4, <1>5, <1>6, ArrangedConcat
<1>8. out \o text \in Seq(S)
      BY <1>4
<1> QED BY <1>7, <1>8 DEF S

(* A table after text that may precede it.                                 *)
LEMMA TableAfterText ==
    ASSUME NEW Up, NEW Down, NEW V, NEW earlier, NEW out \in Seq(Segment(V, earlier)), Arranged(Up, Down, out),
           NEW t, t \notin earlier, \A x \in V : <<x, t>> \in Up
    PROVE  /\ Arranged(Up, Down, Append(out, TableElement(t)))
           /\ Append(out, TableElement(t)) \in Seq(Segment(V, earlier \cup {t}))
           /\ \A x : Among(x, Append(out, TableElement(t))) <=> Among(x, out) \/ x = TableElement(t)
<1> DEFINE S == Segment(V, earlier \cup {t})
           e == TableElement(t)
<1>1. Segment(V, earlier) \subseteq S /\ e \in S
      BY DEF Segment, TableElement
<1>2. \A k \in DOMAIN out : /\ out[k].kind = "table" => out[k].content \in earlier
                            /\ out[k].kind # "table" => out[k].content \in Seq(Paragraph(V))
  <2>1. \A k \in DOMAIN out : out[k] \in Segment(V, earlier)
        OBVIOUS
  <2> QED BY <2>1 DEF Segment
<1>3. out \in Seq(S)
  <2> HIDE DEF S
  <2> QED BY <1>1, SeqMonotone
<1>4. e.kind = "table" /\ e.content = t
      BY DEF TableElement
<1> HIDE DEF S, e
<1>5. AllFollow(Up, Down, out, e)
  <2> SUFFICES ASSUME NEW j \in DOMAIN out PROVE Follows(Up, Down, out[j], e)
      BY DEF AllFollow
  <2>1. \A x : out[j].kind # "table" /\ Has(out[j].content, x) => x \in V
        BY <1>2, LinesFrom
  <2> QED BY <1>2, <1>4, <2>1 DEF Follows
<1>6. Append(out, e) \in Seq(S)
      BY <1>1, <1>3
<1>7. /\ Arranged(Up, Down, Append(out, e))
      /\ \A x : Among(x, Append(out, e)) <=> Among(x, out) \/ x = e
      BY <1>1, <1>3, <1>5, AppendArranged
<1> QED BY <1>6, <1>7 DEF S, e

LEMMA ConcatOne ==
    ASSUME NEW E, NEW es \in Seq(E), NEW e \in E
    PROVE  es \o <<e>> = Append(es, e)
OBVIOUS

(* The tables of a page stand between its lines.                           *)
LEMMA PageSplitArranged ==
    ASSUME NEW Up, NEW Down, NEW i, TablesApart(TablesOf(i)),
           NEW B, NEW T, \A o \in B : o.text \in T /\ o.y \in Int, NEW objs \in Seq(B),
           \A t \in TablesOf(i) :
              \/ /\ TopToBottom(objs)
                 /\ \A o \in B : IF o.y < Top(t) THEN <<o.text, t>> \in Up ELSE <<o.text, t>> \in Down
              \/ \A o \in B : <<o.text, t>> \in Up /\ <<o.text, t>> \in Down
    PROVE  /\ Arranged(Up, Down, SplitPageByTables(i, objs))
           /\ \A t \in TablesOf(i) : Among(TableElement(t), SplitPageByTables(i, objs))
<1> DEFINE U == TablesOf(i)
           prose == Outside(U, objs)
           ts == TableOrder(U)
           all == SplitPageByTables(i, objs)
<1>1. prose \in Seq(B) /\ (TopToBottom(objs) => TopToBottom(prose))
      BY OutsideKeeps, OutsideSorted
<1>2. /\ ts \in Seq(U)
      /\ \A t \in U : \E k \in 1 .. Len(ts) : ts[k] = t
      /\ \A j, k \in 1 .. Len(ts) : j < k => Top(ts[j]) < Top(ts[k])
      BY TableOrderSorts
<1>3. PICK h : TableRun(h, all, prose, ts, T, U)
  <2> HIDE DEF prose, ts, U
  <2>1. prose = Outside(TablesOf(i), objs) /\ ts = TableOrder(TablesOf(i))
        BY DEF prose, ts, U
  <2> QED BY <1>1, <1>2, <2>1, TableFold
<1> HIDE DEF prose, ts, all
<1>4. /\ Len(prose) \in Nat /\ DOMAIN prose = 1 .. Len(prose) /\ Len(ts) \in Nat
      /\ \A k \in 1 .. Len(prose) : prose[k] \in B
      /\ \A k \in 1 .. Len(ts) : ts[k] \in U
  <2> HIDE DEF U
  <2> QED BY <1>1, <1>2
<1>5. \A t \in U : Top(t) \in Int /\ Fits(Up, Down, prose, t)
      BY <1>1, <1>4 DEF TablesApart, Fits
<1> HIDE DEF U
<1>6. \A k \in 1 .. Len(ts) : h[k - 1].idx <= h[k].idx /\ Cut(Up, Down, prose, h[k].idx, ts[k])
      BY <1>1, <1>2, <1>3, <1>5, TableCuts
<1>7. \A m \in 0 .. Len(ts) : h[m].idx \in 1 .. Len(prose) + 1
      BY <1>3 DEF TableRun, Splitting
<1> DEFINE LinesBefore(k) == {prose[j].text : j \in 1 .. k - 1}
           First(m) == {ts[j] : j \in 1 .. m}
           Kept(m) == /\ h[m].out \in Seq(Segment(LinesBefore(h[m].idx), First(m)))
                      /\ Arranged(Up, Down, h[m].out)
                      /\ \A j \in 1 .. m : h[j].idx <= h[m].idx /\ Among(TableElement(ts[j]), h[m].out)
           G == {m \in Nat : m <= Len(ts) => Kept(m)}
<1>8. 0 \in G
  <2>1. h[0].out = <<>>
        BY <1>3 DEF TableRun
  <2>2. Arranged(Up, Down, <<>>) /\ <<>> \in Seq(Segment(LinesBefore(h[0].idx), First(0)))
    <3> HIDE DEF LinesBefore, First
    <3> QED BY DEF Arranged
  <2>3. 1 .. 0 = {}
        OBVIOUS
  <2> HIDE DEF LinesBefore, First
  <2> QED BY <2>1, <2>2, <2>3
(* Text that comes next may follow the tables before it.                   *)
<1>9. ASSUME NEW m \in 0 .. Len(ts), \A j \in 1 .. m : h[j].idx <= h[m].idx,
             NEW x, NEW k \in 1 .. Len(prose), k >= h[m].idx, x = prose[k].text, NEW t \in First(m)
      PROVE  <<x, t>> \in Down
  <2>1. PICK j \in 1 .. m : t = ts[j]
        OBVIOUS
  <2>2. j \in 1 .. Len(ts) /\ j \in 0 .. Len(ts)
        BY <1>4
  <2>3. Cut(Up, Down, prose, h[j].idx, ts[j]) /\ h[j].idx <= h[m].idx
        BY <1>6, <1>9, <2>2
  <2>4. h[j].idx \in Int /\ h[m].idx \in Int /\ k \in Int
        BY <1>4, <1>7, <2>2
  <2>5. ~(k < h[j].idx)
        BY <1>9, <2>3, <2>4
  <2> QED BY <1>9, <2>1, <2>3, <2>5 DEF Cut
<1>10. ASSUME NEW m \in Nat, m + 1 <= Len(ts), Kept(m) PROVE Kept(m + 1)
  <2> DEFINE out  == h[m].out
             from == h[m].idx
             t    == ts[m + 1]
             end  == UpTo(prose, from, Top(t))
             text == TextSegment(prose, from, end)
             V    == LinesBefore(from)
             X    == {prose[j].text : j \in from .. end}
             earlier   == First(m)
             mid  == out \o text
  <2>1. m + 1 \in 1 .. Len(ts) /\ (m + 1) - 1 = m /\ m \in 0 .. Len(ts) /\ t \in U
        BY <1>4, <1>10
  <2>2. h[m + 1] = TableStep(prose, h[m], t)
    <3>1. \A k \in 1 .. Len(ts) : h[k] = TableStep(prose, h[k - 1], ts[k])
          BY <1>3 DEF TableRun
    <3> QED BY <2>1, <3>1
  <2>3. h[m + 1].idx = end + 1 /\ h[m + 1].out = out \o text \o <<TableElement(t)>>
    <3>1. TableStep(prose, h[m], t) = [idx |-> end + 1, out |-> out \o text \o <<TableElement(t)>>]
      <4> HIDE DEF t
      <4> QED BY DEF TableStep
    <3> HIDE DEF t, out, from, text, end
    <3> QED BY <2>2, <3>1
  <2>4. from \in 1 .. Len(prose) + 1 /\ end \in from - 1 .. Len(prose)
    <3>1. from \in 1 .. Len(prose) + 1
          BY <1>7, <2>1
    <3> HIDE DEF from, t
    <3> QED BY <1>1, <3>1, UpToBounds
  <2>5. text \in Seq([kind : {"text"}, content : Seq(Paragraph(X))])
    <3> HIDE DEF from, end
    <3> QED BY <1>1, <2>4, TextSegmentFrom
  <2>6. out \in Seq(Segment(V, earlier)) /\ Arranged(Up, Down, out) /\ \A j \in 1 .. m : h[j].idx <= from
        BY <1>10
  <2>7. \A x \in X, u \in earlier : <<x, u>> \in Down
    <3> SUFFICES ASSUME NEW k \in from .. end, NEW u \in earlier PROVE <<prose[k].text, u>> \in Down
        OBVIOUS
    <3>1. k \in 1 .. Len(prose) /\ k >= h[m].idx
      <4> DEFINE a == from
                 b == end
      <4> SUFFICES ASSUME a \in 1 .. Len(prose) + 1, b \in a - 1 .. Len(prose), k \in a .. b
                   PROVE  k \in 1 .. Len(prose) /\ k >= a
          BY <2>4
      <4> HIDE DEF a, b
      <4> QED BY <1>4
    <3> HIDE DEF from, end, First
    <3> QED BY <1>9, <1>10, <2>1, <3>1
  <2>8. Arranged(Up, Down, mid) /\ mid \in Seq(Segment(V \cup X, earlier))
    <3> HIDE DEF out, V, X, earlier, text
    <3> QED BY <2>5, <2>6, <2>7, TextAfterTables
  <2>9. t \notin earlier
    <3> SUFFICES ASSUME NEW j \in 1 .. m PROVE t # ts[j]
        OBVIOUS
    <3>1. j \in 1 .. Len(ts) /\ j < m + 1
          BY <1>4, <2>1
    <3>2. Top(ts[j]) < Top(t) /\ Top(t) \in Int
          BY <1>2, <1>5, <2>1, <3>1
    <3> QED BY <3>2
  <2>10. V \cup X = LinesBefore(end + 1)
    <3> DEFINE a == from
               b == end
    <3> SUFFICES ASSUME a \in 1 .. Len(prose) + 1, b \in a - 1 .. Len(prose)
                 PROVE  {prose[j].text : j \in 1 .. a - 1} \cup {prose[j].text : j \in a .. b}
                            = {prose[j].text : j \in 1 .. (b + 1) - 1}
        BY <2>4
    <3> HIDE DEF a, b
    <3>1. \A j : j \in 1 .. (b + 1) - 1 <=> j \in 1 .. a - 1 \/ j \in a .. b
          BY <1>4
    <3> QED BY <3>1
  <2>11. \A x \in V \cup X : <<x, t>> \in Up
    <3> SUFFICES ASSUME NEW k \in 1 .. (end + 1) - 1 PROVE <<prose[k].text, t>> \in Up
        BY <2>10
    <3>1. Cut(Up, Down, prose, end + 1, t)
          BY <1>6, <2>1, <2>3
    <3>2. k \in 1 .. Len(prose) /\ k < end + 1
      <4> DEFINE a == from
                 b == end
      <4> SUFFICES ASSUME a \in 1 .. Len(prose) + 1, b \in a - 1 .. Len(prose), k \in 1 .. (b + 1) - 1
                   PROVE  k \in 1 .. Len(prose) /\ k < b + 1
          BY <2>4
      <4> HIDE DEF a, b
      <4> QED BY <1>4
    <3> HIDE DEF end, t
    <3> QED BY <3>1, <3>2 DEF Cut
  <2>12. earlier \cup {t} = First(m + 1)
    <3>1. \A j : j \in 1 .. m + 1 <=> j \in 1 .. m \/ j = m + 1
          BY <2>1
    <3> QED BY <3>1
  <2> DEFINE e == TableElement(t)
  <2>13. /\ Arranged(Up, Down, Append(mid, e)) /\ Append(mid, e) \in Seq(Segment(V \cup X, earlier \cup {t}))
         /\ \A x : Among(x, Append(mid, e)) <=> Among(x, mid) \/ x = e
    <3> HIDE DEF mid, V, X, earlier, t
    <3> QED BY <2>8, <2>9, <2>11, TableAfterText
  <2>14. mid \o <<e>> = Append(mid, e)
    <3>1. mid \in Seq(Segment(V \cup X, earlier \cup {t})) /\ e \in Segment(V \cup X, earlier \cup {t})
      <4>1. e \in Segment(V \cup X, earlier \cup {t})
        <5> HIDE DEF t, V, X, earlier
        <5> QED BY DEF Segment, TableElement
      <4>2. Segment(V \cup X, earlier) \subseteq Segment(V \cup X, earlier \cup {t})
            BY SegmentGrows
      <4> HIDE DEF mid, V, X, earlier, t, e
      <4> QED BY <2>8, <4>1, <4>2, SeqMonotone
    <3> HIDE DEF mid, V, X, earlier, t, e
    <3> QED BY <3>1, ConcatOne
  <2>15. h[m + 1].out = Append(mid, e)
         BY <2>3, <2>14
  <2>16. h[m + 1].out \in Seq(Segment(LinesBefore(h[m + 1].idx), First(m + 1)))
    <3> HIDE DEF mid, e, V, X, earlier, t, LinesBefore, First, end
    <3> QED BY <2>3, <2>10, <2>12, <2>13, <2>15
  <2>17. \A x : Among(x, out) => Among(x, mid)
    <3>1. out \in Seq(Segment(V \cup X, earlier)) /\ text \in Seq(Segment(V \cup X, earlier))
      <4> HIDE DEF out, text, V, X, earlier
      <4>1. Segment(V, earlier) \subseteq Segment(V \cup X, earlier)
            /\ [kind : {"text"}, content : Seq(Paragraph(X))] \subseteq Segment(V \cup X, earlier)
            BY SegmentMonotone
      <4> QED BY <2>5, <2>6, <4>1, SeqMonotone
    <3> HIDE DEF out, text, V, X, earlier
    <3> QED BY <3>1, ConcatAmong
  <2>18. ASSUME NEW j \in 1 .. m + 1
         PROVE  h[j].idx <= h[m + 1].idx /\ Among(TableElement(ts[j]), h[m + 1].out)
    <3>1. CASE j = m + 1
      <4>1. h[m + 1].idx \in Int
            BY <1>7, <2>1, <1>4
      <4> QED BY <2>13, <2>15, <3>1, <4>1
    <3>2. CASE j # m + 1
      <4>1. j \in 1 .. m
            BY <3>2
      <4>2. h[j].idx <= h[m].idx /\ Among(TableElement(ts[j]), out)
            BY <1>10, <4>1
      <4>3. h[m].idx <= h[m + 1].idx
            BY <1>6, <2>1
      <4>4. j \in 0 .. Len(ts) /\ m + 1 \in 0 .. Len(ts) /\ Len(prose) \in Int
            BY <1>4, <2>1, <4>1
      <4>5. h[j].idx \in Int /\ h[m].idx \in Int /\ h[m + 1].idx \in Int
            BY <1>7, <2>1, <4>4
      <4> QED BY <2>13, <2>15, <2>17, <4>2, <4>3, <4>5
    <3> QED BY <3>1, <3>2
  <2> HIDE DEF LinesBefore, First
  <2> QED BY <2>13, <2>15, <2>16, <2>18
<1>11. Nat \subseteq G
  <2> HIDE DEF Kept
  <2>1. \A m \in Nat : m \in G => m + 1 \in G
        BY <1>10
  <2> HIDE DEF G
  <2> QED BY <1>8, <2>1, Induction
<1> DEFINE last == h[Len(ts)]
           rest == TextSegment(prose, last.idx, Len(prose))
           X == {prose[j].text : j \in last.idx .. Len(prose)}
           V == LinesBefore(last.idx)
           earlier == First(Len(ts))
<1>12. Kept(Len(ts))
  <2> HIDE DEF Kept
  <2> QED BY <1>4, <1>11
<1>13. last.idx \in 1 .. Len(prose) + 1 /\ Len(prose) \in last.idx - 1 .. Len(prose)
  <2>1. last.idx \in 1 .. Len(prose) + 1
        BY <1>4, <1>7
  <2> HIDE DEF last
  <2> QED BY <1>4, <2>1
<1>14. rest \in Seq([kind : {"text"}, content : Seq(Paragraph(X))])
  <2> HIDE DEF last
  <2> QED BY <1>1, <1>13, TextSegmentFrom
<1>15. \A x \in X, u \in earlier : <<x, u>> \in Down
  <2> SUFFICES ASSUME NEW k \in last.idx .. Len(prose), NEW u \in First(Len(ts)) PROVE <<prose[k].text, u>> \in Down
      OBVIOUS
  <2>1. k \in 1 .. Len(prose) /\ k >= h[Len(ts)].idx
        BY <1>4, <1>13
  <2>2. Len(ts) \in 0 .. Len(ts) /\ \A j \in 1 .. Len(ts) : h[j].idx <= h[Len(ts)].idx
        BY <1>4, <1>12
  <2> DEFINE x == prose[k].text
  <2>3. x = prose[k].text
        OBVIOUS
  <2> HIDE DEF First, x
  <2>4. <<x, u>> \in Down
        BY <1>9, <2>1, <2>2, <2>3
  <2> QED BY <2>3, <2>4
<1>16. all = last.out \o rest
       BY <1>3 DEF TableRun
<1>17. last.out \in Seq(Segment(V, earlier)) /\ Arranged(Up, Down, last.out)
       /\ \A j \in 1 .. Len(ts) : Among(TableElement(ts[j]), last.out)
       BY <1>4, <1>12
<1>18. Arranged(Up, Down, all) /\ \A x : Among(x, last.out) => Among(x, all)
  <2> HIDE DEF last, rest, V, earlier, X
  <2>1. Arranged(Up, Down, last.out \o rest)
        BY <1>14, <1>15, <1>17, TextAfterTables
  <2>2. last.out \in Seq(Segment(V \cup X, earlier)) /\ rest \in Seq(Segment(V \cup X, earlier))
    <3>1. Segment(V, earlier) \subseteq Segment(V \cup X, earlier)
          /\ [kind : {"text"}, content : Seq(Paragraph(X))] \subseteq Segment(V \cup X, earlier)
          BY SegmentMonotone
    <3> QED BY <1>14, <1>17, <3>1, SeqMonotone
  <2> QED BY <1>16, <2>1, <2>2, ConcatAmong
<1> QED BY <1>2, <1>17, <1>18 DEF all, U

----------------------------------------------------------------------------
(* Sequences of sequences, laid end to end.                                *)
(* The sequences a sequence of sequences is flattened through.             *)
Flattens(f, T, ss, result) ==
    /\ f \in [0 .. Len(ss) -> Seq(T)]
    /\ f[0] = <<>> /\ f[Len(ss)] = result
    /\ \A k \in 1 .. Len(ss) : f[k] = f[k - 1] \o ss[k]

LEMMA Joins ==
    ASSUME NEW T, NEW a \in Seq(T), NEW b \in Seq(T)
    PROVE  a \o b \in Seq(T) /\ a \o <<>> = a /\ <<>> \o a = a
OBVIOUS

LEMMA Associative ==
    ASSUME NEW T, NEW a \in Seq(T), NEW b \in Seq(T), NEW c \in Seq(T)
    PROVE  (a \o b) \o c = a \o (b \o c)
OBVIOUS

(* Associativity as a predicate, to cite where many joins are in sight.    *)
SameJoined(a, b, c) == (a \o b) \o c = a \o (b \o c)

LEMMA Regroup ==
    ASSUME NEW T, NEW a \in Seq(T), NEW b \in Seq(T), NEW c \in Seq(T)
    PROVE  SameJoined(a, b, c)
BY Associative DEF SameJoined

LEMMA UpToInduction ==
    ASSUME NEW m \in Nat, NEW G, 0 \in G, \A k \in 1 .. m : k - 1 \in G => k \in G
    PROVE  \A k \in 0 .. m : k \in G
<1> DEFINE H == {k \in Nat : k <= m => k \in G}
<1>1. 0 \in H
      OBVIOUS
<1>2. ASSUME NEW k \in Nat, k \in H
      PROVE  k + 1 \in H
  <2>1. CASE k + 1 <= m
    <3>1. k + 1 \in 1 .. m /\ (k + 1) - 1 = k /\ k \in G
          BY <1>2, <2>1
    <3> QED BY <3>1
  <2>2. CASE ~(k + 1 <= m)
        BY <2>2
  <2> QED BY <2>1, <2>2
<1>3. \A k \in Nat : k \in H => k + 1 \in H
      BY <1>2
<1> HIDE DEF H
<1>4. Nat \subseteq H
      BY <1>1, <1>3, Induction
<1> QED BY <1>4 DEF H

(* The recursive function FlattenSeq chooses.                              *)
Flattening(f, ss, m) == f = [k \in 1 .. m |-> IF k = 1 THEN ss[k] ELSE f[k - 1] \o ss[k]]

LEMMA FlattenExists ==
    ASSUME NEW ss, NEW m \in Nat
    PROVE  \E f : Flattening(f, ss, m)
<1> DEFINE P(l) == \E f : Flattening(f, ss, l)
           G == {l \in 0 .. m : P(l)}
<1>1. P(0)
  <2>1. Flattening(<<>>, ss, 0)
        BY DEF Flattening
  <2> QED BY <2>1
<1>2. ASSUME NEW l \in 1 .. m, P(l - 1)
      PROVE  P(l)
  <2>1. PICK f : Flattening(f, ss, l - 1)
        BY <1>2
  <2> DEFINE last == IF l = 1 THEN ss[1] ELSE f[l - 1] \o ss[l]
             g == [k \in 1 .. l |-> IF k = l THEN last ELSE f[k]]
  <2>2. \A k \in 1 .. l - 1 : f[k] = IF k = 1 THEN ss[k] ELSE f[k - 1] \o ss[k]
        BY <2>1 DEF Flattening
  <2>3. /\ g[l] = last /\ \A k \in 1 .. l - 1 : g[k] = f[k]
        /\ g = [k \in 1 .. l |-> g[k]]
    <3> HIDE DEF last
    <3> QED OBVIOUS
  <2> HIDE DEF g
  <2>5. ASSUME NEW k \in 1 .. l
        PROVE  g[k] = IF k = 1 THEN ss[k] ELSE g[k - 1] \o ss[k]
    <3>1. CASE k = l /\ k = 1
          BY <2>3, <3>1
    <3>2. CASE k = l /\ k # 1
      <4>2. k - 1 \in 1 .. l - 1
            BY <3>2
      <4>1. g[k - 1] = f[k - 1]
            BY <2>3, <4>2
      <4> QED BY <2>3, <3>2, <4>1
    <3>3. CASE k # l /\ k = 1
      <4>1. k \in 1 .. l - 1
            BY <3>3
      <4> QED BY <2>2, <2>3, <3>3, <4>1
    <3>4. CASE k # l /\ k # 1
      <4>1. k \in 1 .. l - 1 /\ k - 1 \in 1 .. l - 1
            BY <3>4
      <4> QED BY <2>2, <2>3, <3>4, <4>1
    <3> QED BY <3>1, <3>2, <3>3, <3>4
  <2>6. Flattening(g, ss, l)
        BY <2>3, <2>5 DEF Flattening
  <2> QED BY <2>6
<1> HIDE DEF P
<1>3. 0 \in G /\ \A l \in 1 .. m : l - 1 \in G => l \in G
      BY <1>1, <1>2
<1> HIDE DEF G
<1>4. m \in G
      BY <1>3, UpToInduction
<1> QED BY <1>4 DEF G, P

LEMMA FlattenRuns ==
    ASSUME NEW T, NEW ss \in Seq(Seq(T))
    PROVE  \E f : Flattens(f, T, ss, FlattenSeq(ss))
<1>1. CASE Len(ss) = 0
  <2>1. ss = <<>> /\ FlattenSeq(ss) = <<>>
        BY <1>1 DEF FlattenSeq
  <2>2. Flattens([k \in 0 .. 0 |-> <<>>], T, ss, FlattenSeq(ss))
        BY <2>1 DEF Flattens
  <2> QED BY <2>2
<1>2. CASE Len(ss) # 0
  <2> DEFINE m == Len(ss)
             c == CHOOSE f : Flattening(f, ss, m)
  <2>1. m \in Nat /\ m # 0 /\ \A k \in 1 .. m : ss[k] \in Seq(T)
        BY <1>2
  <2>2. FlattenSeq(ss) = c[m]
        BY <1>2 DEF FlattenSeq, Flattening
  <2> HIDE DEF m
  <2>3. Flattening(c, ss, m)
        BY <2>1, FlattenExists
  <2> HIDE DEF c
  <2>4. \A k \in 1 .. m : c[k] = IF k = 1 THEN ss[k] ELSE c[k - 1] \o ss[k]
        BY <2>3 DEF Flattening
  <2> DEFINE h == [k \in 0 .. m |-> IF k = 0 THEN <<>> ELSE c[k]]
  <2>5. h[0] = <<>> /\ h[m] = c[m] /\ (\A k \in 1 .. m : h[k] = c[k]) /\ h = [k \in 0 .. m |-> h[k]]
        BY <2>1
  <2> HIDE DEF h
  <2> DEFINE G == {k \in 0 .. m : h[k] \in Seq(T)}
  <2>6. ASSUME NEW k \in 1 .. m, h[k - 1] \in Seq(T)
        PROVE  h[k] = h[k - 1] \o ss[k] /\ h[k] \in Seq(T)
    <3>1. CASE k = 1
      <4>0. 1 \in 1 .. m
            BY <2>1
      <4>3. h[1] = c[1] /\ c[1] = ss[1] /\ ss[1] \in Seq(T)
            BY <2>1, <2>4, <2>5, <4>0
      <4>1. ss[1] \in Seq(T) /\ h[k] = ss[1] /\ h[k - 1] = <<>>
            BY <2>5, <3>1, <4>3
      <4>2. <<>> \o ss[1] = ss[1]
            BY <4>1, Joins
      <4> QED BY <3>1, <4>1, <4>2
    <3>2. CASE k # 1
      <4>1. k - 1 \in 1 .. m
            BY <2>1, <3>2
      <4>2. h[k] = h[k - 1] \o ss[k]
            BY <2>4, <2>5, <3>2, <4>1
      <4> QED BY <2>1, <2>6, <4>2, Joins
    <3> QED BY <3>1, <3>2
  <2>7. 0 \in G
    <3>1. <<>> \in Seq(T)
          OBVIOUS
    <3>2. 0 \in 0 .. m
          BY <2>1
    <3> QED BY <2>5, <3>1, <3>2
  <2>8. \A k \in 1 .. m : k - 1 \in G => k \in G
    <3>1. \A k \in 1 .. m : k \in 0 .. m /\ (k - 1 \in G => h[k - 1] \in Seq(T))
          BY <2>1
    <3>2. \A k \in 1 .. m : h[k - 1] \in Seq(T) => h[k] \in Seq(T)
          BY <2>6
    <3> QED BY <3>1, <3>2
  <2>9. \A k \in 0 .. m : h[k] \in Seq(T)
    <3> HIDE DEF G
    <3>1. \A k \in 0 .. m : k \in G
          BY <2>1, <2>7, <2>8, UpToInduction
    <3> QED BY <3>1 DEF G
  <2>10. \A k \in 1 .. m : k - 1 \in 0 .. m
         BY <2>1
  <2>11. h \in [0 .. m -> Seq(T)] /\ \A k \in 1 .. m : h[k] = h[k - 1] \o ss[k]
         BY <2>5, <2>6, <2>9, <2>10
  <2>12. Flattens(h, T, ss, FlattenSeq(ss))
         BY <2>2, <2>5, <2>11 DEF Flattens, m
  <2> QED BY <2>12
<1> QED BY <1>1, <1>2

(* f goes on from a as t does from nothing.                                *)
GoesOn(f, t, tt, T, a, l, m) ==
    /\ f[l] = a /\ t[0] = <<>>
    /\ \A k \in 0 .. m : t[k] \in Seq(T)
    /\ \A k \in 1 .. m : /\ tt[k] \in Seq(T)
                        /\ f[l + k] = f[l + (k - 1)] \o tt[k] /\ t[k] = t[k - 1] \o tt[k]

LEMMA RunsJoin ==
    ASSUME NEW T, NEW a \in Seq(T), NEW l \in Nat, NEW m \in Nat, NEW f, NEW t, NEW tt, GoesOn(f, t, tt, T, a, l, m)
    PROVE  f[l + m] = a \o t[m]
<1> DEFINE P(k) == f[l + k] = a \o t[k]
           H == {k \in 0 .. m : P(k)}
<1>1. P(0)
  <2>1. a \o <<>> = a
        BY Joins
  <2> QED BY <2>1 DEF GoesOn
<1>2. ASSUME NEW k \in 1 .. m, P(k - 1)
      PROVE  P(k)
  <2>1. f[l + k] = (a \o t[k - 1]) \o tt[k] /\ t[k] = t[k - 1] \o tt[k]
        BY <1>2 DEF GoesOn
  <2>2. t[k - 1] \in Seq(T) /\ tt[k] \in Seq(T)
    <3>1. k - 1 \in 0 .. m
          OBVIOUS
    <3> QED BY <3>1 DEF GoesOn
  <2>3. (a \o t[k - 1]) \o tt[k] = a \o (t[k - 1] \o tt[k])
    <3> DEFINE u == t[k - 1]
               v == tt[k]
    <3>1. u \in Seq(T) /\ v \in Seq(T)
          BY <2>2
    <3> HIDE DEF P, H, u, v
    <3>2. SameJoined(a, u, v)
          BY <3>1, Regroup
    <3> QED BY <3>2 DEF u, v, SameJoined
  <2> QED BY <2>1, <2>3
<1> HIDE DEF P
<1>3. 0 \in H /\ \A k \in 1 .. m : k - 1 \in H => k \in H
      BY <1>1, <1>2
<1> HIDE DEF H
<1>4. \A k \in 0 .. m : k \in H
      BY <1>3, UpToInduction
<1> QED BY <1>4 DEF H, P

(* The end of the run as a predicate, as for SameJoined.                   *)
Meets(f, t, a, l, m) == f[l + m] = a \o t[m]

LEMMA RunsMeet ==
    ASSUME NEW T, NEW a \in Seq(T), NEW l \in Nat, NEW m \in Nat, NEW f, NEW t, NEW tt, GoesOn(f, t, tt, T, a, l, m)
    PROVE  Meets(f, t, a, l, m)
BY RunsJoin DEF Meets

LEMMA FlatConcat ==
    ASSUME NEW T, NEW ss \in Seq(Seq(T)), NEW tt \in Seq(Seq(T))
    PROVE  /\ FlattenSeq(ss) \in Seq(T) /\ FlattenSeq(tt) \in Seq(T)
           /\ FlattenSeq(ss \o tt) = FlattenSeq(ss) \o FlattenSeq(tt)
<1> DEFINE all == ss \o tt
           l == Len(ss)
           m == Len(tt)
<1>1. /\ l \in Nat /\ m \in Nat /\ all \in Seq(Seq(T)) /\ Len(all) = l + m
      /\ \A k \in 1 .. l : all[k] = ss[k]
      /\ \A k \in 1 .. m : all[l + k] = tt[k]
      BY Concatenated
<1>2. (\A k \in 1 .. l : ss[k] \in Seq(T)) /\ \A k \in 1 .. m : tt[k] \in Seq(T)
      OBVIOUS
<1>3. PICK f : Flattens(f, T, all, FlattenSeq(all))
      BY <1>1, FlattenRuns
<1>4. PICK s : Flattens(s, T, ss, FlattenSeq(ss))
      BY FlattenRuns
<1>5. PICK t : Flattens(t, T, tt, FlattenSeq(tt))
      BY FlattenRuns
<1> HIDE DEF all
<1>6. /\ f[0] = <<>> /\ f[l + m] = FlattenSeq(all)
      /\ \A k \in 1 .. l + m : f[k] = f[k - 1] \o all[k]
      BY <1>1, <1>3 DEF Flattens
<1>7. /\ s \in [0 .. l -> Seq(T)] /\ s[0] = <<>> /\ s[l] = FlattenSeq(ss)
      /\ \A k \in 1 .. l : s[k] = s[k - 1] \o ss[k]
      BY <1>4 DEF Flattens
<1>8. /\ t \in [0 .. m -> Seq(T)] /\ t[0] = <<>> /\ t[m] = FlattenSeq(tt)
      /\ \A k \in 1 .. m : t[k] = t[k - 1] \o tt[k]
      BY <1>5 DEF Flattens
<1> HIDE DEF l, m
<1> DEFINE G == {k \in 0 .. l : f[k] = s[k]}
<1>9. f[l] = s[l]
  <2>1. 0 \in G
        BY <1>1, <1>6, <1>7
  <2>2. ASSUME NEW k \in 1 .. l, f[k - 1] = s[k - 1]
        PROVE  f[k] = s[k]
    <3>1. k \in 1 .. l + m
          BY <1>1
    <3> QED BY <1>1, <1>6, <1>7, <2>2, <3>1
  <2>3. \A k \in 1 .. l : k - 1 \in G => k \in G
    <3>1. \A k \in 1 .. l : f[k - 1] = s[k - 1] => f[k] = s[k]
          BY <2>2
    <3>2. \A k \in 1 .. l : k \in 0 .. l
          BY <1>1
    <3> QED BY <3>1, <3>2
  <2> HIDE DEF G
  <2>4. \A k \in 0 .. l : k \in G
        BY <1>1, <2>1, <2>3, UpToInduction
  <2>5. l \in 0 .. l
        BY <1>1
  <2> QED BY <2>4, <2>5 DEF G
<1>10. s[l] \in Seq(T) /\ (\A k \in 0 .. m : t[k] \in Seq(T)) /\ \A k \in 1 .. m : tt[k] \in Seq(T)
  <2>1. l \in 0 .. l
        BY <1>1
  <2> HIDE DEF G
  <2> QED BY <1>2, <1>7, <1>8, <2>1 DEF m
<1> HIDE DEF G
<1>11. f[l + m] = s[l] \o t[m]
  <2>1. \A k \in 1 .. m : f[l + k] = f[l + (k - 1)] \o tt[k]
    <3>1. \A k \in 1 .. m : l + k \in 1 .. l + m /\ (l + k) - 1 = l + (k - 1)
          BY <1>1
    <3> QED BY <1>1, <1>6, <3>1
  <2> DEFINE start == s[l]
  <2>2. GoesOn(f, t, tt, T, start, l, m) /\ start \in Seq(T)
        BY <1>8, <1>9, <1>10, <2>1 DEF GoesOn
  <2>3. l \in Nat /\ m \in Nat
        BY <1>1
  <2> HIDE DEF start, all
  <2>4. Meets(f, t, start, l, m)
        BY <2>2, <2>3, RunsMeet
  <2> QED BY <2>4 DEF start, Meets
<1>12. FlattenSeq(ss) \in Seq(T) /\ FlattenSeq(tt) \in Seq(T)
  <2>1. m \in 0 .. m
        BY <1>1
  <2> QED BY <1>7, <1>8, <1>10, <2>1
<1> QED BY <1>6, <1>7, <1>8, <1>11, <1>12 DEF all

LEMMA FlatOne ==
    ASSUME NEW T, NEW t \in Seq(T)
    PROVE  FlattenSeq(<<t>>) = t /\ FlattenSeq(<<>>) = <<>>
<1> DEFINE ss == <<t>>
<1>1. ss \in Seq(Seq(T)) /\ Len(ss) = 1 /\ ss[1] = t
      OBVIOUS
<1>2. FlattenSeq(<<>>) = <<>>
      BY DEF FlattenSeq
<1> HIDE DEF ss
<1>3. PICK f : Flattens(f, T, ss, FlattenSeq(ss))
      BY <1>1, FlattenRuns
<1>4. f[1] = f[1 - 1] \o ss[1] /\ f[0] = <<>> /\ f[1] = FlattenSeq(ss)
      BY <1>1, <1>3 DEF Flattens
<1>5. <<>> \o t = t
      BY Joins
<1> QED BY <1>1, <1>2, <1>4, <1>5 DEF ss

LEMMA FlatAppend ==
    ASSUME NEW T, NEW ss \in Seq(Seq(T)), NEW t \in Seq(T)
    PROVE  /\ FlattenSeq(ss) \in Seq(T)
           /\ FlattenSeq(Append(ss, t)) = FlattenSeq(ss) \o t
<1> DEFINE S == Seq(T)
<1>1. t \in S /\ ss \in Seq(S)
      OBVIOUS
<1>2. <<t>> \in Seq(S) /\ Append(ss, t) = ss \o <<t>>
  <2> HIDE DEF S
  <2> QED BY <1>1
<1>3. FlattenSeq(ss) \in Seq(T) /\ FlattenSeq(ss \o <<t>>) = FlattenSeq(ss) \o FlattenSeq(<<t>>)
      BY <1>2, FlatConcat
<1>4. FlattenSeq(<<t>>) = t
      BY FlatOne
<1> QED BY <1>2, <1>3, <1>4

(* What is in a sequence of sequences is in their concatenation.           *)
LEMMA FlatRange ==
    ASSUME NEW T, NEW ss \in Seq(Seq(T)), NEW x
    PROVE  x \in Range(FlattenSeq(ss)) <=> \E a \in DOMAIN ss : x \in Range(ss[a])
<1>1. PICK f : Flattens(f, T, ss, FlattenSeq(ss))
      BY FlattenRuns
<1> DEFINE m == Len(ss)
           P(k) == Among(x, f[k]) <=> \E a \in 1 .. k : Among(x, ss[a])
           G == {k \in 0 .. m : P(k)}
<1>2. /\ m \in Nat /\ DOMAIN ss = 1 .. m
      /\ \A k \in 1 .. m : ss[k] \in Seq(T)
      OBVIOUS
<1>3. /\ f \in [0 .. m -> Seq(T)] /\ f[0] = <<>> /\ f[m] = FlattenSeq(ss)
      /\ \A k \in 1 .. m : f[k] = f[k - 1] \o ss[k]
      BY <1>1 DEF Flattens
<1> HIDE DEF m
<1>4. P(0)
  <2>1. ~Among(x, <<>>)
        BY DEF Among
  <2> QED BY <1>3, <2>1
<1>5. ASSUME NEW k \in 1 .. m, P(k - 1)
      PROVE  P(k)
  <2>1. k - 1 \in 0 .. m
        BY <1>2
  <2>2. f[k] = f[k - 1] \o ss[k] /\ f[k - 1] \in Seq(T) /\ ss[k] \in Seq(T)
        BY <1>2, <1>3, <2>1
  <2>3. Among(x, f[k]) <=> Among(x, f[k - 1]) \/ Among(x, ss[k])
        BY <2>2, ConcatAmong
  <2>4. (\E a \in 1 .. k : Among(x, ss[a])) <=> Among(x, ss[k]) \/ \E a \in 1 .. k - 1 : Among(x, ss[a])
        OBVIOUS
  <2> QED BY <1>5, <2>3, <2>4
<1>6. P(m)
  <2> HIDE DEF P
  <2>1. 0 \in G /\ \A k \in 1 .. m : k - 1 \in G => k \in G
        BY <1>2, <1>4, <1>5
  <2> HIDE DEF G
  <2>2. \A k \in 0 .. m : k \in G
        BY <1>2, <2>1, UpToInduction
  <2>3. m \in 0 .. m
        BY <1>2
  <2> QED BY <2>2, <2>3 DEF G
<1>7. \A s : Among(x, s) <=> x \in Range(s)
      BY DEF Among, Range
<1> QED BY <1>2, <1>3, <1>6, <1>7

LEMMA FlatNone ==
    FlattenSeq(<<>>) = <<>>
<1>1. <<>> \in Seq({})
      OBVIOUS
<1> QED BY <1>1, FlatOne

----------------------------------------------------------------------------
(* The lines of a sequence of elements.                                    *)
(* The lines of an element, as Lines in DocumentChunks, and of several.    *)
LinesOf(e) == IF e.kind = "table" THEN <<>> ELSE FlattenSeq(e.content)
LinesIn(es) == [k \in DOMAIN es |-> LinesOf(es[k])]
Flat(es)   == FlattenSeq(LinesIn(es))

LEMMA ParagraphsFlat ==
    ASSUME NEW T, NEW ps \in Seq(Paragraph(T))
    PROVE  /\ ps \in Seq(Seq(T)) /\ FlattenSeq(ps) \in Seq(T)
           /\ \A qs \in Seq(Paragraph(T)) : FlattenSeq(ps \o qs) = FlattenSeq(ps) \o FlattenSeq(qs)
           /\ \A p \in Seq(T) : FlattenSeq(Append(ps, p)) = FlattenSeq(ps) \o p
<1>1. \A qs \in Seq(Paragraph(T)) : qs \in Seq(Seq(T))
  <2> DEFINE S == Seq(T)
             R == Paragraph(T)
  <2>1. R \subseteq S
        BY DEF Paragraph
  <2> HIDE DEF S, R
  <2>2. \A qs \in Seq(R) : qs \in Seq(S)
        BY <2>1, SeqMonotone
  <2> QED BY <2>2 DEF S, R
<1>2. ps \in Seq(Seq(T))
      BY <1>1
<1>3. \A p \in Seq(T) : FlattenSeq(Append(ps, p)) = FlattenSeq(ps) \o p
      BY <1>2, FlatAppend
<1>4. \A qs \in Seq(Paragraph(T)) : FlattenSeq(ps \o qs) = FlattenSeq(ps) \o FlattenSeq(qs)
      BY <1>1, <1>2, FlatConcat
<1>5. FlattenSeq(ps) \in Seq(T)
      BY <1>2, FlatAppend, FlatConcat
<1> QED BY <1>2, <1>3, <1>4, <1>5

LEMMA LinesOfElement ==
    ASSUME NEW T, NEW U, NEW e \in Element(T, U)
    PROVE  LinesOf(e) \in Seq(T)
<1>1. <<>> \in Seq(T)
      OBVIOUS
<1>2. ASSUME e.kind # "table"
      PROVE  FlattenSeq(e.content) \in Seq(T)
  <2>1. e.content \in Seq(Paragraph(T))
        BY <1>2 DEF Element
  <2> QED BY <2>1, ParagraphsFlat
<1> QED BY <1>1, <1>2 DEF LinesOf

LEMMA LinesInElements ==
    ASSUME NEW T, NEW U, NEW es \in Seq(Element(T, U))
    PROVE  LinesIn(es) \in Seq(Seq(T)) /\ DOMAIN LinesIn(es) = DOMAIN es /\ LinesIn(<<>>) = <<>>
<1> DEFINE S == Seq(T)
<1>1. \A k \in DOMAIN es : LinesOf(es[k]) \in S
  <2>1. \A k \in DOMAIN es : es[k] \in Element(T, U)
    <3> DEFINE E == Element(T, U)
    <3>1. es \in Seq(E)
          OBVIOUS
    <3> HIDE DEF E
    <3> QED BY <3>1 DEF E
  <2> QED BY <2>1, LinesOfElement
<1>2. DOMAIN es = 1 .. Len(es) /\ Len(es) \in Nat
      OBVIOUS
<1> HIDE DEF S
<1>3. LinesIn(es) \in Seq(S)
      BY <1>1, <1>2 DEF LinesIn
<1> QED BY <1>3 DEF S, LinesIn

LEMMA FlatElements ==
    ASSUME NEW T, NEW U, NEW es \in Seq(Element(T, U)), NEW fs \in Seq(Element(T, U))
    PROVE  /\ Flat(es) \in Seq(T) /\ Flat(fs) \in Seq(T) /\ Flat(<<>>) = <<>>
           /\ es \o fs \in Seq(Element(T, U)) /\ Flat(es \o fs) = Flat(es) \o Flat(fs)
<1> DEFINE E == Element(T, U)
           all == es \o fs
<1>1. es \in Seq(E) /\ fs \in Seq(E)
      OBVIOUS
<1> HIDE DEF E
<1>2. /\ all \in Seq(E) /\ DOMAIN all = 1 .. Len(es) + Len(fs) /\ Len(es) \in Nat /\ Len(fs) \in Nat
      /\ DOMAIN es = 1 .. Len(es) /\ DOMAIN fs = 1 .. Len(fs)
      /\ \A e \in 1 .. Len(es) : all[e] = es[e]
      /\ \A e \in 1 .. Len(fs) : all[Len(es) + e] = fs[e]
      BY <1>1, Concatenated
<1> HIDE DEF all
<1> DEFINE a == LinesIn(es)
           b == LinesIn(fs)
           c == LinesIn(all)
           S == Seq(T)
<1>3. /\ a \in Seq(S) /\ b \in Seq(S) /\ c \in Seq(S) /\ LinesIn(<<>>) = <<>>
      /\ DOMAIN a = DOMAIN es /\ DOMAIN b = DOMAIN fs /\ DOMAIN c = DOMAIN all
      BY <1>1, <1>2, LinesInElements DEF E
<1>4. c = a \o b
  <2>1. /\ \A k \in 1 .. Len(es) : a[k] = LinesOf(es[k]) /\ c[k] = LinesOf(es[k])
        /\ \A k \in 1 .. Len(fs) : b[k] = LinesOf(fs[k]) /\ c[Len(es) + k] = LinesOf(fs[k])
    <3>1. /\ \A k \in 1 .. Len(es) : k \in DOMAIN all
          /\ \A k \in 1 .. Len(fs) : Len(es) + k \in DOMAIN all
          BY <1>2
    <3> QED BY <1>2, <3>1 DEF LinesIn
  <2> HIDE DEF a, b, c, S
  <2>2. Len(a) = Len(es) /\ Len(b) = Len(fs) /\ Len(c) = Len(es) + Len(fs)
        BY <1>2, <1>3
  <2>3. /\ a \o b \in Seq(S) /\ Len(a \o b) = Len(es) + Len(fs)
        /\ \A k \in 1 .. Len(es) : (a \o b)[k] = a[k]
        /\ \A k \in 1 .. Len(fs) : (a \o b)[Len(es) + k] = b[k]
    <3>1. /\ a \o b \in Seq(S) /\ Len(a \o b) = Len(a) + Len(b)
          /\ \A k \in 1 .. Len(a) : (a \o b)[k] = a[k]
          /\ \A k \in 1 .. Len(b) : (a \o b)[Len(a) + k] = b[k]
          BY <1>3, Concatenated
    <3> QED BY <2>2, <3>1
  <2> DEFINE d == a \o b
  <2>4. d \in Seq(S) /\ c \in Seq(S) /\ Len(d) = Len(c)
        BY <1>3, <2>2, <2>3
  <2>5. \A k \in 1 .. Len(c) : d[k] = c[k]
    <3> SUFFICES ASSUME NEW k \in 1 .. Len(c)
                 PROVE  d[k] = c[k]
        OBVIOUS
    <3> HIDE DEF d
    <3>1. CASE k <= Len(es)
      <4>1. k \in 1 .. Len(es)
            BY <1>2, <2>2, <3>1
      <4> QED BY <2>1, <2>3, <4>1 DEF d
    <3>2. CASE ~(k <= Len(es))
      <4>1. k - Len(es) \in 1 .. Len(fs) /\ Len(es) + (k - Len(es)) = k
            BY <1>2, <2>2, <3>2
      <4> QED BY <2>1, <2>3, <4>1 DEF d
    <3> QED BY <3>1, <3>2
  <2> HIDE DEF d
  <2>6. d = c
        BY <2>4, <2>5, SameMembers
  <2> QED BY <2>6 DEF d
<1>5. FlattenSeq(a) \in Seq(T) /\ FlattenSeq(b) \in Seq(T) /\ FlattenSeq(a \o b) = FlattenSeq(a) \o FlattenSeq(b)
  <2>1. a \in Seq(Seq(T)) /\ b \in Seq(Seq(T))
        BY <1>3
  <2> HIDE DEF a, b
  <2> QED BY <2>1, FlatConcat
<1>6. Flat(<<>>) = <<>>
      BY <1>3, FlatOne DEF Flat
<1> QED BY <1>2, <1>4, <1>5, <1>6 DEF Flat, all, E

LEMMA FlatElement ==
    ASSUME NEW T, NEW U, NEW es \in Seq(Element(T, U)), NEW e \in Element(T, U)
    PROVE  /\ LinesOf(e) \in Seq(T) /\ Flat(es) \in Seq(T)
           /\ Append(es, e) \in Seq(Element(T, U)) /\ Flat(Append(es, e)) = Flat(es) \o LinesOf(e)
<1> DEFINE E == Element(T, U)
           one == <<e>>
<1>1. e \in E /\ es \in Seq(E)
      OBVIOUS
<1> HIDE DEF E
<1>2. one \in Seq(E) /\ es \o one = Append(es, e) /\ Append(es, e) \in Seq(E)
      BY <1>1
<1>3. LinesOf(e) \in Seq(T)
      BY LinesOfElement
<1>4. LinesIn(one) = <<LinesOf(e)>>
      BY DEF LinesIn
<1>5. Flat(one) = LinesOf(e)
      BY <1>3, <1>4, FlatOne DEF Flat
<1> HIDE DEF one
<1>6. Flat(es) \in Seq(T) /\ Flat(es \o one) = Flat(es) \o Flat(one)
  <2>1. es \in Seq(Element(T, U)) /\ one \in Seq(Element(T, U))
        BY <1>2 DEF E
  <2> HIDE DEF E
  <2> QED BY <2>1, FlatElements
<1>7. Flat(Append(es, e)) = Flat(es) \o LinesOf(e)
      BY <1>2, <1>5, <1>6
<1>8. Append(es, e) \in Seq(Element(T, U))
      BY <1>2 DEF E
<1> QED BY <1>3, <1>6, <1>7, <1>8

LEMMA FlatHolds ==
    ASSUME NEW T, NEW U, NEW es \in Seq(Element(T, U)), NEW x
    PROVE  x \in Range(Flat(es)) <=> HoldsLine(es, x)
<1>1. \A e \in DOMAIN es : es[e] \in Element(T, U)
  <2> DEFINE E == Element(T, U)
  <2>1. es \in Seq(E)
        OBVIOUS
  <2> HIDE DEF E
  <2> QED BY <2>1 DEF E
<1>2. x \in Range(Flat(es)) <=> \E e \in DOMAIN es : x \in Range(LinesOf(es[e]))
  <2>1. LinesIn(es) \in Seq(Seq(T)) /\ DOMAIN LinesIn(es) = DOMAIN es
        BY LinesInElements
  <2>2. \A e \in DOMAIN es : LinesIn(es)[e] = LinesOf(es[e])
        BY DEF LinesIn
  <2>3. x \in Range(Flat(es)) <=> \E e \in DOMAIN LinesIn(es) : x \in Range(LinesIn(es)[e])
        BY <2>1, FlatRange DEF Flat
  <2> QED BY <2>1, <2>2, <2>3
<1>3. ASSUME NEW e \in DOMAIN es
      PROVE  x \in Range(LinesOf(es[e])) <=> es[e].kind # "table" /\ Has(es[e].content, x)
  <2>1. CASE es[e].kind = "table"
        BY <2>1 DEF LinesOf, Range
  <2>2. CASE es[e].kind # "table"
    <3> DEFINE ps == es[e].content
    <3>1. ps \in Seq(Paragraph(T))
          BY <1>1, <2>2 DEF Element
    <3> HIDE DEF ps
    <3>2. ps \in Seq(Seq(T))
          BY <3>1, ParagraphsFlat
    <3>3. x \in Range(FlattenSeq(ps)) <=> \E a \in DOMAIN ps : x \in Range(ps[a])
          BY <3>2, FlatRange
    <3>4. (\E a \in DOMAIN ps : x \in Range(ps[a])) <=> Has(ps, x)
          BY DEF Range, Has
    <3> QED BY <2>2, <3>3, <3>4 DEF LinesOf, ps
  <2> QED BY <2>1, <2>2
<1> QED BY <1>2, <1>3 DEF HoldsLine

(* Sequences of which no element may come before an earlier one.           *)
Pairs(Ord, s) == \A j, k \in DOMAIN s : j < k => <<s[j], s[k]>> \in Ord

LEMMA PairsConcat ==
    ASSUME NEW Ord, NEW T, NEW s \in Seq(T), NEW t \in Seq(T)
    PROVE  Pairs(Ord, s \o t) <=> /\ Pairs(Ord, s) /\ Pairs(Ord, t)
                                  /\ \A x \in Range(s), y \in Range(t) : <<x, y>> \in Ord
<1> DEFINE all == s \o t
           l == Len(s)
           m == Len(t)
<1>1. /\ l \in Nat /\ m \in Nat /\ DOMAIN s = 1 .. l /\ DOMAIN t = 1 .. m /\ DOMAIN all = 1 .. l + m
      /\ \A e \in 1 .. l : all[e] = s[e]
      /\ \A e \in 1 .. m : all[l + e] = t[e]
      BY Concatenated
<1> HIDE DEF all, l, m
<1>2. ASSUME Pairs(Ord, s), Pairs(Ord, t), \A x \in Range(s), y \in Range(t) : <<x, y>> \in Ord,
             NEW j \in 1 .. l + m, NEW k \in 1 .. l + m, j < k
      PROVE  <<all[j], all[k]>> \in Ord
  <2>1. CASE k <= l
    <3>1. j \in 1 .. l /\ k \in 1 .. l
          BY <1>1, <1>2, <2>1
    <3> QED BY <1>1, <1>2, <3>1 DEF Pairs
  <2>2. CASE j <= l /\ ~(k <= l)
    <3>1. j \in 1 .. l /\ k - l \in 1 .. m /\ l + (k - l) = k
          BY <1>1, <2>2
    <3>2. all[j] = s[j] /\ all[k] = t[k - l]
          BY <1>1, <3>1
    <3>3. s[j] \in Range(s) /\ t[k - l] \in Range(t)
          BY <1>1, <3>1 DEF Range
    <3> QED BY <1>2, <3>2, <3>3
  <2>3. CASE ~(j <= l)
    <3>1. j - l \in 1 .. m /\ k - l \in 1 .. m /\ l + (k - l) = k /\ l + (j - l) = j /\ j - l < k - l
          BY <1>1, <1>2, <2>3
    <3>2. all[j] = t[j - l] /\ all[k] = t[k - l]
          BY <1>1, <3>1
    <3> QED BY <1>1, <1>2, <3>1, <3>2 DEF Pairs
  <2> QED BY <1>1, <2>1, <2>2, <2>3
<1>3. ASSUME Pairs(Ord, all)
      PROVE  Pairs(Ord, s) /\ Pairs(Ord, t) /\ \A x \in Range(s), y \in Range(t) : <<x, y>> \in Ord
  <2>1. \A j, k \in 1 .. l + m : j < k => <<all[j], all[k]>> \in Ord
        BY <1>1, <1>3 DEF Pairs
  <2>2. \A j, k \in 1 .. l : j < k => <<s[j], s[k]>> \in Ord
    <3>1. \A j \in 1 .. l : j \in 1 .. l + m
          BY <1>1
    <3> QED BY <1>1, <2>1, <3>1
  <2>3. \A j, k \in 1 .. m : j < k => <<t[j], t[k]>> \in Ord
    <3>1. \A j \in 1 .. m : l + j \in 1 .. l + m
          BY <1>1
    <3>2. \A j, k \in 1 .. m : j < k => l + j < l + k
          BY <1>1
    <3> QED BY <1>1, <2>1, <3>1, <3>2
  <2>4. ASSUME NEW j \in 1 .. l, NEW k \in 1 .. m
        PROVE  <<s[j], t[k]>> \in Ord
    <3>1. j \in 1 .. l + m /\ l + k \in 1 .. l + m /\ j < l + k
          BY <1>1
    <3>2. <<all[j], all[l + k]>> \in Ord
          BY <2>1, <3>1
    <3> QED BY <1>1, <3>2
  <2>5. /\ \A x \in Range(s) : \E j \in 1 .. l : x = s[j]
        /\ \A y \in Range(t) : \E k \in 1 .. m : y = t[k]
        BY <1>1 DEF Range
  <2>6. \A x \in Range(s), y \in Range(t) : <<x, y>> \in Ord
        BY <2>4, <2>5
  <2> QED BY <1>1, <2>2, <2>3, <2>6 DEF Pairs
<1>4. (\A j, k \in 1 .. l + m : j < k => <<all[j], all[k]>> \in Ord) => Pairs(Ord, all)
      BY <1>1 DEF Pairs
<1> QED BY <1>2, <1>3, <1>4 DEF all

LEMMA ConcatRange ==
    ASSUME NEW T, NEW s \in Seq(T), NEW t \in Seq(T)
    PROVE  Range(s \o t) = Range(s) \cup Range(t) /\ Range(s) \subseteq T /\ Range(<<>>) = {}
<1>1. \A x, r : Among(x, r) <=> x \in Range(r)
      BY DEF Among, Range
<1>2. \A x : Among(x, s \o t) <=> Among(x, s) \/ Among(x, t)
      BY ConcatAmong
<1>3. \A x : x \in Range(s \o t) <=> x \in Range(s) \/ x \in Range(t)
      BY <1>1, <1>2
<1>4. Range(s) \subseteq T /\ Range(<<>>) = {}
      BY DEF Range
<1> QED BY <1>3, <1>4

LEMMA PrefixesGrow ==
    ASSUME NEW E, NEW s \in Seq(E)
    PROVE  /\ SubSeq(s, 1, 0) = <<>> /\ SubSeq(s, 1, Len(s)) = s
           /\ \A k \in 1 .. Len(s) : /\ SubSeq(s, 1, k) = Append(SubSeq(s, 1, k - 1), s[k])
                                     /\ SubSeq(s, 1, k - 1) \in Seq(E) /\ s[k] \in E
OBVIOUS

LEMMA FlatNoElements ==
    Flat(<<>>) = <<>>
<1>1. LinesIn(<<>>) = <<>>
      BY DEF LinesIn
<1> QED BY <1>1, FlatNone DEF Flat

LEMMA LinesOfText ==
    ASSUME NEW x
    PROVE  LinesOf(TextElement(x)) = FlattenSeq(x)
BY DEF LinesOf, TextElement

----------------------------------------------------------------------------
(* Paragraphs and figures keep the order of their lines.                   *)
(* The lines in an accumulator of paragraphs.                              *)
SoFar(acc) == FlattenSeq(acc.done) \o acc.open

LEMMA CloseKeepsLines ==
    ASSUME NEW T, NEW acc \in Joining(T)
    PROVE  /\ SoFar(acc) \in Seq(T) /\ SoFar(Close(acc)) = SoFar(acc) /\ FlattenSeq(Close(acc).done) = SoFar(acc)
           /\ Close(acc) \in Joining(T)
<1> DEFINE done == acc.done
           open == acc.open
<1>1. done \in Seq(Paragraph(T)) /\ open \in Seq(T)
      BY DEF Joining
<1>2. Close(acc) = [done |-> IF open = <<>> THEN done ELSE Append(done, open), open |-> <<>>]
      BY DEF Close
<1> DEFINE f == FlattenSeq(done)
<1>3. f \in Seq(T) /\ FlattenSeq(Append(done, open)) = f \o open
  <2> HIDE DEF done, open
  <2> QED BY <1>1, ParagraphsFlat
<1>4. SoFar(acc) = f \o open /\ SoFar(Close(acc)) = FlattenSeq(Close(acc).done) \o <<>>
      BY <1>2 DEF SoFar
<1> HIDE DEF f
<1>5. f \o open \in Seq(T) /\ f \o <<>> = f /\ (f \o open) \o <<>> = f \o open
  <2> HIDE DEF open, done
  <2>1. f \o open \in Seq(T) /\ f \o <<>> = f
        BY <1>1, <1>3, Joins
  <2> QED BY <2>1, Joins
<1>6. FlattenSeq(Close(acc).done) = f \o open
  <2>1. CASE open = <<>>
        BY <1>2, <1>5, <2>1 DEF f
  <2>2. CASE open # <<>>
        BY <1>2, <1>3, <2>2
  <2> QED BY <2>1, <2>2
<1>7. Close(acc) \in Joining(T)
      BY CloseJoins
<1> QED BY <1>4, <1>5, <1>6, <1>7

LEMMA AddAddsLine ==
    ASSUME NEW T, NEW acc \in Joining(T), NEW line \in T
    PROVE  SoFar(Add(acc, line)) = SoFar(acc) \o <<line>> /\ Add(acc, line) \in Joining(T)
<1> DEFINE f == FlattenSeq(acc.done)
           open == acc.open
<1>1. acc.done \in Seq(Paragraph(T)) /\ open \in Seq(T)
      BY DEF Joining
<1>2. f \in Seq(T)
      BY <1>1, ParagraphsFlat
<1>3. Add(acc, line).done = acc.done /\ Add(acc, line).open = Append(open, line)
      BY DEF Add, Joining
<1>4. SoFar(Add(acc, line)) = f \o Append(open, line) /\ SoFar(acc) = f \o open
      BY <1>3 DEF SoFar
<1> HIDE DEF f, open
<1>5. Append(open, line) = open \o <<line>> /\ <<line>> \in Seq(T)
      BY <1>1
<1>6. f \o (open \o <<line>>) = (f \o open) \o <<line>>
  <2> DEFINE one == <<line>>
  <2>1. f \in Seq(T) /\ open \in Seq(T) /\ one \in Seq(T)
        BY <1>1, <1>2, <1>5
  <2> HIDE DEF one
  <2>2. SameJoined(f, open, one)
        BY <2>1, Regroup
  <2> QED BY <2>2 DEF one, SameJoined
<1> QED BY <1>4, <1>5, <1>6, AddJoins

LEMMA StepKeepsLines ==
    ASSUME NEW T, NEW acc \in Joining(T), NEW line \in T
    PROVE  /\ SoFar(acc) \in Seq(T) /\ ParagraphStep(acc, line) \in Joining(T)
           /\ \/ SoFar(ParagraphStep(acc, line)) = SoFar(acc)
              \/ SoFar(ParagraphStep(acc, line)) = SoFar(acc) \o <<line>>
<1>1. Add(acc, line) \in Joining(T) /\ SoFar(Add(acc, line)) = SoFar(acc) \o <<line>>
      BY AddAddsLine
<1>2. SoFar(acc) \in Seq(T) /\ SoFar(Close(acc)) = SoFar(acc)
      BY CloseKeepsLines
<1>3. SoFar(Close(Add(acc, line))) = SoFar(Add(acc, line))
      BY <1>1, CloseKeepsLines
<1>4. \/ ParagraphStep(acc, line) = Close(acc)
      \/ ParagraphStep(acc, line) = Close(Add(acc, line))
      \/ ParagraphStep(acc, line) = Add(acc, line)
      BY DEF ParagraphStep
<1>5. ParagraphStep(acc, line) \in Joining(T)
      BY ParagraphStepJoins
<1> QED BY <1>1, <1>2, <1>3, <1>4, <1>5

(* Lines are joined into paragraphs in their order.                        *)
LEMMA ParagraphsInOrder ==
    ASSUME NEW T, NEW lines \in Seq(T), NEW Ord, Pairs(Ord, lines)
    PROVE  Pairs(Ord, FlattenSeq(ReconstructParagraphs(lines)))
<1>1. PICK h \in [0 .. Len(lines) -> Joining(T)] :
              /\ h[0] = [done |-> <<>>, open |-> <<>>]
              /\ ReconstructParagraphs(lines) = Close(h[Len(lines)]).done
              /\ \A k \in 1 .. Len(lines) : h[k] = ParagraphStep(h[k - 1], lines[k])
      BY ParagraphFold
<1> DEFINE m == Len(lines)
           P(k) == /\ Pairs(Ord, SoFar(h[k]))
                   /\ \A x \in Range(SoFar(h[k])) : \E j \in 1 .. k : x = lines[j]
           G == {k \in 0 .. m : P(k)}
<1>2. m \in Nat /\ DOMAIN lines = 1 .. m /\ \A k \in 1 .. m : lines[k] \in T
      OBVIOUS
<1> HIDE DEF m
<1>3. P(0)
  <2>1. SoFar(h[0]) = <<>>
    <3>1. FlattenSeq(<<>>) \o <<>> = <<>>
          BY FlatNone
    <3> QED BY <1>1, <3>1 DEF SoFar
  <2> QED BY <2>1 DEF Pairs, Range
<1>4. ASSUME NEW k \in 1 .. m, P(k - 1)
      PROVE  P(k)
  <2> DEFINE before == SoFar(h[k - 1])
             after == SoFar(h[k])
             one == <<lines[k]>>
  <2>1. h[k - 1] \in Joining(T) /\ h[k] = ParagraphStep(h[k - 1], lines[k]) /\ lines[k] \in T
        BY <1>1, <1>2 DEF m
  <2>2. before \in Seq(T) /\ (after = before \/ after = before \o one)
        BY <2>1, StepKeepsLines
  <2>3. Pairs(Ord, before) /\ \A x \in Range(before) : \E j \in 1 .. k - 1 : x = lines[j]
        BY <1>4
  <2>4. one \in Seq(T) /\ Range(one) = {lines[k]} /\ Pairs(Ord, one)
    <3>1. DOMAIN one = {1} /\ one[1] = lines[k]
          OBVIOUS
    <3>2. one \in Seq(T)
          BY <2>1
    <3> HIDE DEF one
    <3> QED BY <3>1, <3>2 DEF Range, Pairs
  <2>5. \A x \in Range(before), y \in Range(one) : <<x, y>> \in Ord
    <3>1. \A j \in 1 .. k - 1 : j \in DOMAIN lines /\ k \in DOMAIN lines /\ j < k
          BY <1>2
    <3>2. \A j \in 1 .. k - 1 : <<lines[j], lines[k]>> \in Ord
          BY <3>1 DEF Pairs
    <3> QED BY <2>3, <2>4, <3>2
  <2>6. CASE after = before
    <3>1. \A j \in 1 .. k - 1 : j \in 1 .. k
          OBVIOUS
    <3> QED BY <2>3, <2>6, <3>1
  <2>7. CASE after = before \o one
    <3> HIDE DEF before, after, one
    <3>1. Pairs(Ord, after) /\ Range(after) = Range(before) \cup Range(one)
          BY <2>2, <2>3, <2>4, <2>5, <2>7, PairsConcat, ConcatRange
    <3>2. \A x \in Range(after) : \E j \in 1 .. k : x = lines[j]
      <4>1. k \in 1 .. k /\ \A j \in 1 .. k - 1 : j \in 1 .. k
            OBVIOUS
      <4> QED BY <2>3, <2>4, <3>1, <4>1
    <3> QED BY <3>1, <3>2 DEF after
  <2> QED BY <2>2, <2>6, <2>7
<1> HIDE DEF P
<1>5. 0 \in G /\ \A k \in 1 .. m : k - 1 \in G => k \in G
      BY <1>2, <1>3, <1>4
<1> HIDE DEF G
<1>6. \A k \in 0 .. m : k \in G
      BY <1>2, <1>5, UpToInduction
<1>7. m \in 0 .. m
      BY <1>2
<1>8. P(m)
      BY <1>6, <1>7 DEF G
<1>9. h[m] \in Joining(T)
      BY <1>1, <1>7 DEF m
<1>10. FlattenSeq(Close(h[m]).done) = SoFar(h[m])
       BY <1>9, CloseKeepsLines
<1> QED BY <1>1, <1>8, <1>10 DEF P, m

(* Paragraphs are told apart in their order.                               *)
LEMMA FigureStepAdds ==
    ASSUME NEW T, NEW acc \in Seq(Block(Paragraph(T))), NEW p \in Paragraph(T)
    PROVE  /\ acc \in Seq(Element(T, {})) /\ Flat(acc) \in Seq(T)
           /\ Flat(FigureStep(acc, p)) = Flat(acc) \o p
<1> DEFINE B == Block(Paragraph(T))
           E == Element(T, {})
           kind == FigureKind(p)
<1>1. B \subseteq E /\ kind \in {"text", "figure"} /\ p \in Seq(T)
      BY DEF Block, Element, Paragraph, FigureKind
<1>2. acc \in Seq(B)
      OBVIOUS
<1> HIDE DEF B, E
<1>3. acc \in Seq(E)
      BY <1>1, <1>2, SeqMonotone
<1>4. Flat(acc) \in Seq(T)
      BY <1>3, FlatElements DEF E
<1>5. CASE acc # <<>> /\ acc[Len(acc)].kind = kind
  <2> DEFINE l == Len(acc)
             last == acc[l]
             ps == last.content
             front == SubSeq(acc, 1, l - 1)
             more == [kind |-> last.kind, content |-> Append(ps, p)]
  <2>1. /\ l \in Nat /\ l >= 1 /\ last \in B /\ front \in Seq(B) /\ acc = Append(front, last)
        BY <1>2, <1>5
  <2>2. ps \in Seq(Paragraph(T)) /\ last.kind \in {"text", "figure"} /\ more \in B /\ Append(ps, p) \in Paragraph(Paragraph(T))
    <3> DEFINE P == Paragraph(T)
               q == Append(ps, p)
    <3>1. ps \in Seq(P) /\ last.kind \in {"text", "figure"}
          BY <2>1 DEF B, Block, Paragraph
    <3>2. p \in P
          BY <1>1
    <3> HIDE DEF ps, P
    <3>3. q \in Seq(P) /\ q # <<>>
          BY <3>1, <3>2
    <3> HIDE DEF q
    <3>4. q \in Paragraph(P)
          BY <3>3 DEF Paragraph
    <3>5. more \in B
          BY <3>1, <3>4 DEF B, Block, P, q
    <3> QED BY <3>1, <3>4, <3>5 DEF P, q
  <2>3. FigureStep(acc, p) = [acc EXCEPT ![l] = more]
    <3> DEFINE longer == [last EXCEPT !.content = Append(ps, p)]
    <3>1. FigureStep(acc, p) = [acc EXCEPT ![l] = longer]
          BY <1>5 DEF FigureStep
    <3>2. longer = more
      <4> HIDE DEF last
      <4> QED BY <2>1, <2>2, ContentReplaced DEF B
    <3> HIDE DEF longer
    <3> QED BY <3>1, <3>2
  <2>4. [acc EXCEPT ![l] = more] = Append(front, more)
    <3> HIDE DEF more
    <3> QED BY <1>2, <2>1, <2>2
  <2>5. LinesOf(more) = FlattenSeq(ps) \o p /\ LinesOf(last) = FlattenSeq(ps) /\ FlattenSeq(ps) \in Seq(T)
    <3>1. LinesOf(more) = FlattenSeq(Append(ps, p)) /\ LinesOf(last) = FlattenSeq(ps)
          BY <2>2 DEF LinesOf
    <3>2. FlattenSeq(Append(ps, p)) = FlattenSeq(ps) \o p /\ FlattenSeq(ps) \in Seq(T)
      <4> HIDE DEF ps
      <4> QED BY <1>1, <2>2, ParagraphsFlat
    <3> QED BY <3>1, <3>2
  <2> HIDE DEF front, more, last
  <2>6. front \in Seq(E) /\ more \in E /\ last \in E
        BY <1>1, <2>1, <2>2, SeqMonotone
  <2>7. /\ Flat(front) \in Seq(T) /\ Flat(Append(front, more)) = Flat(front) \o LinesOf(more)
        /\ Flat(Append(front, last)) = Flat(front) \o LinesOf(last)
        BY <2>6, FlatElement DEF E
  <2> DEFINE a == Flat(front)
             b == FlattenSeq(ps)
  <2>8. a \in Seq(T) /\ b \in Seq(T)
        BY <2>5, <2>7
  <2>9. Flat(FigureStep(acc, p)) = a \o (b \o p) /\ Flat(acc) = a \o b
        BY <2>1, <2>3, <2>4, <2>5, <2>7
  <2> HIDE DEF a, b
  <2>10. SameJoined(a, b, p)
         BY <1>1, <2>8, Regroup
  <2>11. a \o (b \o p) = (a \o b) \o p
         BY <2>10 DEF SameJoined
  <2> QED BY <1>3, <1>4, <2>9, <2>11 DEF E
<1>6. CASE ~(acc # <<>> /\ acc[Len(acc)].kind = kind)
  <2> DEFINE new == [kind |-> kind, content |-> <<p>>]
  <2>1. FigureStep(acc, p) = Append(acc, new)
        BY <1>6 DEF FigureStep
  <2>2. new \in E
    <3>1. <<p>> \in Seq(Paragraph(T))
          OBVIOUS
    <3> QED BY <1>1, <3>1 DEF E, Element
  <2>3. LinesOf(new) = p
    <3>1. LinesOf(new) = FlattenSeq(<<p>>)
          BY <1>1 DEF LinesOf
    <3> QED BY <1>1, <3>1, FlatOne
  <2> HIDE DEF new
  <2>4. Flat(Append(acc, new)) = Flat(acc) \o LinesOf(new)
        BY <1>3, <2>2, FlatElement DEF E
  <2> QED BY <1>3, <1>4, <2>1, <2>3, <2>4 DEF E
<1> QED BY <1>5, <1>6

(* Which of them are figures takes no line away and moves none.            *)
LEMMA FiguresInOrder ==
    ASSUME NEW T, NEW ps \in Seq(Paragraph(T))
    PROVE  Flat(SplitFigureBlocks(ps)) = FlattenSeq(ps)
<1> DEFINE R == Paragraph(T)
           m == Len(ps)
<1>1. PICK h \in [0 .. m -> Seq(Block(R))] :
              /\ h[0] = <<>> /\ SplitFigureBlocks(ps) = h[m]
              /\ \A k \in 1 .. m : h[k] = FigureStep(h[k - 1], ps[k])
  <2>1. ps \in Seq(R)
        OBVIOUS
  <2> HIDE DEF R
  <2> QED BY <2>1, FigureFold
<1> DEFINE P(k) == Flat(h[k]) = FlattenSeq(SubSeq(ps, 1, k))
           G == {k \in 0 .. m : P(k)}
<1>2. /\ m \in Nat /\ SubSeq(ps, 1, 0) = <<>> /\ SubSeq(ps, 1, m) = ps
      /\ \A k \in 1 .. m : /\ SubSeq(ps, 1, k) = Append(SubSeq(ps, 1, k - 1), ps[k])
                           /\ SubSeq(ps, 1, k - 1) \in Seq(R) /\ ps[k] \in R
  <2>1. ps \in Seq(R)
        OBVIOUS
  <2> HIDE DEF R
  <2> QED BY <2>1, PrefixesGrow
<1> HIDE DEF m
<1>3. P(0)
  <2> QED BY <1>1, <1>2, FlatNoElements, FlatNone
<1>4. ASSUME NEW k \in 1 .. m, P(k - 1)
      PROVE  P(k)
  <2> DEFINE acc == h[k - 1]
             p == ps[k]
             some == SubSeq(ps, 1, k - 1)
  <2>1. acc \in Seq(Block(R)) /\ h[k] = FigureStep(acc, p) /\ p \in R /\ some \in Seq(R)
    <3>1. k - 1 \in 0 .. m
          BY <1>2
    <3> HIDE DEF R
    <3> QED BY <1>1, <1>2, <3>1
  <2>2. SubSeq(ps, 1, k) = Append(some, p) /\ Flat(acc) = FlattenSeq(some)
        BY <1>2, <1>4
  <2>3. p \in Seq(T)
        BY <2>1 DEF Paragraph
  <2> HIDE DEF acc, p, some
  <2>4. Flat(FigureStep(acc, p)) = Flat(acc) \o p
        BY <2>1, FigureStepAdds
  <2>5. FlattenSeq(Append(some, p)) = FlattenSeq(some) \o p
        BY <2>1, <2>3, ParagraphsFlat
  <2> QED BY <2>1, <2>2, <2>4, <2>5
<1> HIDE DEF P
<1>5. 0 \in G /\ \A k \in 1 .. m : k - 1 \in G => k \in G
      BY <1>2, <1>3, <1>4
<1> HIDE DEF G
<1>6. \A k \in 0 .. m : k \in G
      BY <1>2, <1>5, UpToInduction
<1>7. m \in 0 .. m
      BY <1>2
<1> QED BY <1>1, <1>2, <1>6, <1>7 DEF G, P

----------------------------------------------------------------------------
(* The segments of a page keep it.                                         *)
LEMMA FlushedFlat ==
    ASSUME NEW T, NEW U, NEW es \in Seq(Element(T, U)), NEW prose \in Seq(Paragraph(T))
    PROVE  Flat(Flushed(es, prose)) = Flat(es) \o FlattenSeq(prose)
<1>1. CASE prose = <<>>
  <2>1. Flushed(es, prose) = es
        BY <1>1 DEF Flushed
  <2>2. FlattenSeq(prose) = <<>>
        BY <1>1, FlatNone
  <2> DEFINE a == Flat(es)
  <2>3. a \in Seq(T)
        BY FlatElements
  <2> HIDE DEF a
  <2>4. a \o <<>> = a
        BY <2>3, Joins
  <2> QED BY <2>1, <2>2, <2>4 DEF a
<1>2. CASE prose # <<>>
  <2> DEFINE bs == SplitFigureBlocks(prose)
             R == Paragraph(T)
  <2>1. Flushed(es, prose) = es \o bs
        BY <1>2 DEF Flushed
  <2>2. bs \in Seq(Block(R))
    <3>1. prose \in Seq(R)
          OBVIOUS
    <3> HIDE DEF R
    <3> QED BY <3>1, FiguresTold
  <2>3. Block(R) \subseteq Element(T, U)
        BY DEF Block, Element, Paragraph
  <2>4. Flat(bs) = FlattenSeq(prose)
        BY FiguresInOrder
  <2> HIDE DEF bs, R
  <2>5. bs \in Seq(Element(T, U))
        BY <2>2, <2>3, SeqMonotone
  <2>6. Flat(es \o bs) = Flat(es) \o Flat(bs)
        BY <2>5, FlatElements
  <2> QED BY <2>1, <2>4, <2>6
<1> QED BY <1>1, <1>2

(* What has been read of a page: its elements and its buffer.              *)
Gather(acc) == Flat(acc.es) \o FlattenSeq(acc.prose)

LEMMA GatherLines ==
    ASSUME NEW T, NEW U, NEW acc \in Reading(T, U)
    PROVE  /\ acc.es \in Seq(Element(T, U)) /\ acc.prose \in Seq(Paragraph(T))
           /\ Flat(acc.es) \in Seq(T) /\ FlattenSeq(acc.prose) \in Seq(T) /\ Gather(acc) \in Seq(T)
<1>1. acc.es \in Seq(Element(T, U)) /\ acc.prose \in Seq(Paragraph(T))
      BY DEF Reading
<1> DEFINE es == acc.es
           prose == acc.prose
           a == Flat(es)
           b == FlattenSeq(prose)
<1>2. a \in Seq(T) /\ b \in Seq(T)
  <2>1. es \in Seq(Element(T, U)) /\ prose \in Seq(Paragraph(T))
        BY <1>1
  <2> HIDE DEF es, prose
  <2> QED BY <2>1, FlatElements, ParagraphsFlat
<1>3. Gather(acc) = a \o b
      BY DEF Gather
<1> HIDE DEF a, b
<1>4. a \o b \in Seq(T)
      BY <1>2, Joins
<1> QED BY <1>1, <1>2, <1>3, <1>4 DEF a, b

LEMMA SegmentStepFlat ==
    ASSUME NEW T, NEW U, NEW acc \in Reading(T, U), NEW seg \in Segment(T, U)
    PROVE  Gather(SegmentStep(acc, seg)) = Gather(acc) \o LinesOf(seg)
<1> DEFINE es == acc.es
           prose == acc.prose
           a == Flat(es)
           b == FlattenSeq(prose)
<1>1. es \in Seq(Element(T, U)) /\ prose \in Seq(Paragraph(T)) /\ a \in Seq(T) /\ b \in Seq(T)
      BY GatherLines
<1>2. Gather(acc) = a \o b
      BY DEF Gather
<1>3. CASE seg.kind = "text"
  <2> DEFINE ps == seg.content
             c == FlattenSeq(ps)
  <2>1. ps \in Seq(Paragraph(T)) /\ LinesOf(seg) = c
        BY <1>3 DEF Segment, LinesOf
  <2>2. SegmentStep(acc, seg).es = es /\ SegmentStep(acc, seg).prose = prose \o ps
        BY <1>3 DEF SegmentStep, Reading
  <2>3. FlattenSeq(prose \o ps) = b \o c /\ c \in Seq(T)
    <3> HIDE DEF prose, ps
    <3> QED BY <1>1, <2>1, ParagraphsFlat
  <2>4. Gather(SegmentStep(acc, seg)) = a \o (b \o c)
        BY <2>2, <2>3 DEF Gather
  <2> HIDE DEF a, b, c
  <2>5. SameJoined(a, b, c)
        BY <1>1, <2>3, Regroup
  <2>6. a \o (b \o c) = (a \o b) \o c
        BY <2>5 DEF SameJoined
  <2> QED BY <1>2, <2>1, <2>4, <2>6
<1>4. CASE seg.kind # "text"
  <2> DEFINE flushed == Flushed(es, prose)
  <2>1. seg \in Element(T, U) /\ seg.kind = "table" /\ LinesOf(seg) = <<>>
        BY <1>4 DEF Segment, Element, LinesOf
  <2>2. SegmentStep(acc, seg).es = Append(flushed, seg) /\ SegmentStep(acc, seg).prose = <<>>
        BY <1>4 DEF SegmentStep
  <2>3. flushed \in Seq(Element(T, U)) /\ Flat(flushed) = a \o b
    <3> HIDE DEF es, prose
    <3> QED BY <1>1, FlushedHolds, FlushedFlat
  <2> HIDE DEF flushed
  <2>4. Flat(Append(flushed, seg)) = Flat(flushed) \o LinesOf(seg)
    <3>1. seg \in Element(T, U) /\ flushed \in Seq(Element(T, U))
          BY <2>1, <2>3
    <3> QED BY <3>1, FlatElement
  <2>5. FlattenSeq(<<>>) = <<>>
        BY FlatNone
  <2>6. Gather(SegmentStep(acc, seg)) = ((a \o b) \o <<>>) \o <<>>
        BY <2>1, <2>2, <2>3, <2>4, <2>5 DEF Gather
  <2> DEFINE d == a \o b
  <2>7. d \in Seq(T)
    <3> HIDE DEF a, b
    <3> QED BY <1>1, Joins
  <2> HIDE DEF d, a, b
  <2>8. d \o <<>> = d
        BY <2>7, Joins
  <2> QED BY <1>2, <2>1, <2>6, <2>8 DEF d
<1> QED BY <1>3, <1>4

(* The loop over the segments of a page reads them in their order.         *)
LEMMA SegmentsInOrder ==
    ASSUME NEW T, NEW U, elements \in Seq(Element(T, U)), buffer \in Seq(Paragraph(T)),
           NEW segments \in Seq(Segment(T, U))
    PROVE  /\ WithSegments(segments) \in Reading(T, U)
           /\ segments \in Seq(Element(T, U))
           /\ Gather(WithSegments(segments)) = (Flat(elements) \o FlattenSeq(buffer)) \o Flat(segments)
<1> DEFINE S == Segment(T, U)
           E == Element(T, U)
           m == Len(segments)
           start == [es |-> elements, prose |-> buffer]
<1>1. PICK h : SegmentRun(h, WithSegments(segments), segments, elements, buffer, T, U)
      BY SegmentFold
<1>2. segments \in Seq(S) /\ S \subseteq E
      BY DEF Segment, Element
<1>3. /\ m \in Nat /\ SubSeq(segments, 1, 0) = <<>> /\ SubSeq(segments, 1, m) = segments
      /\ \A k \in 1 .. m : /\ SubSeq(segments, 1, k) = Append(SubSeq(segments, 1, k - 1), segments[k])
                           /\ SubSeq(segments, 1, k - 1) \in Seq(S) /\ segments[k] \in S
  <2>1. segments \in Seq(S)
        BY <1>2
  <2> HIDE DEF S
  <2>2. /\ SubSeq(segments, 1, 0) = <<>> /\ SubSeq(segments, 1, Len(segments)) = segments
        /\ \A k \in 1 .. Len(segments) :
              /\ SubSeq(segments, 1, k) = Append(SubSeq(segments, 1, k - 1), segments[k])
              /\ SubSeq(segments, 1, k - 1) \in Seq(S) /\ segments[k] \in S
        BY <2>1, PrefixesGrow
  <2> QED BY <2>1, <2>2
<1>4. /\ h \in [0 .. m -> Reading(T, U)] /\ h[0] = start /\ WithSegments(segments) = h[m]
      /\ \A k \in 1 .. m : h[k] = SegmentStep(h[k - 1], segments[k])
      BY <1>1 DEF SegmentRun
<1> HIDE DEF m
<1> DEFINE g == Flat(elements) \o FlattenSeq(buffer)
           P(k) == Gather(h[k]) = g \o Flat(SubSeq(segments, 1, k))
           G == {k \in 0 .. m : P(k)}
<1>5. start \in Reading(T, U)
      BY DEF Reading
<1>6. Gather(start) = g
      BY DEF Gather
<1>7. g \in Seq(T)
  <2> HIDE DEF g, start
  <2> QED BY <1>5, <1>6, GatherLines
<1> HIDE DEF g, S, E, start
<1>8. P(0)
  <2>1. g \o <<>> = g
        BY <1>7, Joins
  <2> QED BY <1>3, <1>4, <1>6, <2>1, FlatNoElements
<1>9. ASSUME NEW k \in 1 .. m, P(k - 1)
      PROVE  P(k)
  <2> DEFINE acc == h[k - 1]
             seg == segments[k]
             some == SubSeq(segments, 1, k - 1)
             a == Flat(some)
             b == LinesOf(seg)
  <2>1. acc \in Reading(T, U) /\ h[k] = SegmentStep(acc, seg) /\ seg \in S /\ some \in Seq(S)
    <3>1. k - 1 \in 0 .. m
          BY <1>3
    <3> QED BY <1>3, <1>4, <3>1
  <2>2. SubSeq(segments, 1, k) = Append(some, seg) /\ Gather(acc) = g \o a
        BY <1>3, <1>9
  <2> HIDE DEF acc, seg, some
  <2>3. Gather(SegmentStep(acc, seg)) = Gather(acc) \o b
        BY <2>1, SegmentStepFlat DEF S
  <2>4. some \in Seq(E) /\ seg \in E
        BY <1>2, <2>1, SeqMonotone
  <2>5. a \in Seq(T) /\ b \in Seq(T) /\ Flat(Append(some, seg)) = a \o b
        BY <2>4, FlatElement DEF E
  <2> HIDE DEF a, b
  <2>6. SameJoined(g, a, b)
        BY <1>7, <2>5, Regroup
  <2>7. (g \o a) \o b = g \o (a \o b)
        BY <2>6 DEF SameJoined
  <2> QED BY <2>1, <2>2, <2>3, <2>5, <2>7
<1> HIDE DEF P
<1>10. 0 \in G /\ \A k \in 1 .. m : k - 1 \in G => k \in G
       BY <1>3, <1>8, <1>9
<1> HIDE DEF G
<1>11. \A k \in 0 .. m : k \in G
       BY <1>3, <1>10, UpToInduction
<1>12. m \in 0 .. m
       BY <1>3
<1>13. P(m)
       BY <1>11, <1>12 DEF G
<1>14. WithSegments(segments) \in Reading(T, U)
       BY <1>4, <1>12
<1>15. segments \in Seq(E)
       BY <1>2, SeqMonotone
<1>16. Gather(h[m]) = g \o Flat(segments)
       BY <1>3, <1>13 DEF P
<1>17. Gather(WithSegments(segments)) = g \o Flat(segments)
       BY <1>4, <1>16
<1> QED BY <1>14, <1>15, <1>17 DEF g, E

----------------------------------------------------------------------------
(* The text beside the tables of a page keeps it.                          *)
(* The order of the runs of a page, by that of their texts.                *)
RunPairs(Ord, B) == {q \in B \X B : <<q[1].text, q[2].text>> \in Ord}

LEMMA TextPairs ==
    ASSUME NEW Ord, NEW B, NEW objs \in Seq(B)
    PROVE  Pairs(Ord, Texts(objs)) <=> Pairs(RunPairs(Ord, B), objs)
<1>1. DOMAIN Texts(objs) = DOMAIN objs /\ \A k \in DOMAIN objs : Texts(objs)[k] = objs[k].text /\ objs[k] \in B
      BY DEF Texts
<1>2. \A o, p \in B : <<o, p>> \in RunPairs(Ord, B) <=> <<o.text, p.text>> \in Ord
      BY DEF RunPairs
<1>3. \A j, k \in DOMAIN objs :
         <<objs[j], objs[k]>> \in RunPairs(Ord, B) <=> <<Texts(objs)[j], Texts(objs)[k]>> \in Ord
      BY <1>1, <1>2
<1> QED BY <1>1, <1>3 DEF Pairs

LEMMA OutsideInOrder ==
    ASSUME NEW R, NEW ts, NEW B, NEW objs \in Seq(B), Pairs(R, objs)
    PROVE  Pairs(R, Outside(ts, objs))
<1> DEFINE m == Len(objs)
<1>1. PICK h \in [0 .. m -> Seq(B)] :
              /\ h[0] = <<>> /\ Outside(ts, objs) = h[m]
              /\ \A k \in 1 .. m : h[k] = OutsideStep(ts, h[k - 1], objs[k])
      BY OutsideFold
<1>2. m \in Nat /\ DOMAIN objs = 1 .. m /\ \A k \in 1 .. m : objs[k] \in B
      OBVIOUS
<1> HIDE DEF m
<1> DEFINE P(k) == Pairs(R, h[k]) /\ \A x \in Range(h[k]) : \E j \in 1 .. k : x = objs[j]
           G == {k \in 0 .. m : P(k)}
<1>3. P(0)
      BY <1>1 DEF Pairs, Range
<1>4. ASSUME NEW k \in 1 .. m, P(k - 1)
      PROVE  P(k)
  <2> DEFINE out == h[k - 1]
             o == objs[k]
             l == Len(out)
             more == Append(out, o)
  <2>1. k - 1 \in 0 .. m /\ o \in B /\ k \in Nat
        BY <1>2
  <2>2. out \in Seq(B) /\ (h[k] = out \/ h[k] = more)
        BY <1>1, <2>1 DEF OutsideStep
  <2>3. Pairs(R, out) /\ \A x \in Range(out) : \E j \in 1 .. k - 1 : x = objs[j]
        BY <1>4
  <2>4. \A j \in 1 .. k - 1 : j \in 1 .. k
        BY <2>1
  <2>5. CASE h[k] = out
        BY <2>3, <2>4, <2>5
  <2>6. CASE h[k] = more
    <3>1. /\ l \in Nat /\ DOMAIN out = 1 .. l /\ DOMAIN more = 1 .. l + 1
          /\ more[l + 1] = o /\ \A j \in 1 .. l : more[j] = out[j]
          BY <2>1, <2>2
    <3>2. \A j \in 1 .. l : \E a \in 1 .. k - 1 : out[j] = objs[a]
          BY <2>3, <3>1 DEF Range
    <3>3. \A a \in 1 .. k - 1 : <<objs[a], o>> \in R
      <4>1. \A a \in 1 .. k - 1 : a \in DOMAIN objs /\ k \in DOMAIN objs /\ a < k
            BY <1>2
      <4> QED BY <4>1 DEF Pairs
    <3> HIDE DEF out, o, more, l
    <3>4. \A j \in 1 .. l : <<more[j], o>> \in R
          BY <3>1, <3>2, <3>3
    <3>5. \A j, a \in 1 .. l : j < a => <<more[j], more[a]>> \in R
          BY <2>3, <3>1 DEF Pairs
    <3>6. \A j, a \in 1 .. l + 1 : j < a => j \in 1 .. l /\ (a \in 1 .. l \/ a = l + 1)
          BY <3>1
    <3>7. Pairs(R, more)
          BY <3>1, <3>4, <3>5, <3>6 DEF Pairs
    <3>8. \A j \in 1 .. l + 1 : j \in 1 .. l \/ j = l + 1
          BY <3>1
    <3>9. k \in 1 .. k /\ o = objs[k]
          BY <2>1 DEF o
    <3>10. \A x \in Range(more) : \E j \in 1 .. k : x = objs[j]
           BY <2>4, <3>1, <3>2, <3>8, <3>9 DEF Range
    <3> QED BY <2>6, <3>7, <3>10
  <2> QED BY <2>2, <2>5, <2>6
<1> HIDE DEF P
<1>5. 0 \in G /\ \A k \in 1 .. m : k - 1 \in G => k \in G
      BY <1>2, <1>3, <1>4
<1> HIDE DEF G
<1>6. \A k \in 0 .. m : k \in G
      BY <1>2, <1>5, UpToInduction
<1>7. m \in 0 .. m
      BY <1>2
<1> QED BY <1>1, <1>6, <1>7 DEF G, P

LEMMA TextSegmentInOrder ==
    ASSUME NEW Ord, NEW B, NEW prose \in Seq(B), Pairs(RunPairs(Ord, B), prose),
           NEW from \in 1 .. Len(prose) + 1, NEW to \in from - 1 .. Len(prose)
    PROVE  Pairs(Ord, Flat(TextSegment(prose, from, to)))
<1> DEFINE some == SubSeq(prose, from, to)
           lines == Texts(some)
           ps == ReconstructParagraphs(lines)
           T == {o.text : o \in B}
<1>1. /\ some \in Seq(B) /\ DOMAIN some = 1 .. to - from + 1
      /\ \A j \in 1 .. to - from + 1 : some[j] = prose[from + j - 1]
      /\ from \in Int /\ to \in Int /\ DOMAIN prose = 1 .. Len(prose) /\ Len(prose) \in Nat
      OBVIOUS
<1> HIDE DEF some
<1>2. Pairs(RunPairs(Ord, B), some)
  <2>1. \A j \in 1 .. to - from + 1 : from + j - 1 \in DOMAIN prose
        BY <1>1
  <2>2. \A j, k \in 1 .. to - from + 1 : j < k => from + j - 1 < from + k - 1
        BY <1>1
  <2> QED BY <1>1, <2>1, <2>2 DEF Pairs
<1>3. Pairs(Ord, lines) /\ lines \in Seq(T)
  <2>1. \A o \in B : o.text \in T
        OBVIOUS
  <2> HIDE DEF T
  <2> QED BY <1>1, <1>2, <2>1, TextPairs, TextsOf
<1> HIDE DEF lines, T
<1>4. Pairs(Ord, FlattenSeq(ps)) /\ ps \in Seq(Paragraph(T))
      BY <1>3, ParagraphsInOrder, ParagraphsHoldLines
<1>5. TextSegment(prose, from, to) = IF ps = <<>> THEN <<>> ELSE <<TextElement(ps)>>
      BY DEF TextSegment, some, lines
<1> HIDE DEF ps
<1>6. CASE ps = <<>>
  <2>1. Flat(TextSegment(prose, from, to)) = <<>>
        BY <1>5, <1>6, FlatNoElements
  <2> QED BY <2>1 DEF Pairs
<1>7. CASE ps # <<>>
  <2> DEFINE e == TextElement(ps)
  <2>1. LinesOf(e) = FlattenSeq(ps) /\ FlattenSeq(ps) \in Seq(T)
        BY <1>4, ParagraphsFlat DEF LinesOf, TextElement
  <2>2. LinesIn(<<e>>) = <<LinesOf(e)>>
        BY DEF LinesIn
  <2>3. Flat(<<e>>) = FlattenSeq(ps)
        BY <2>1, <2>2, FlatOne DEF Flat
  <2> QED BY <1>4, <1>5, <1>7, <2>3
<1> QED BY <1>6, <1>7

(* Text after what comes before it in the order, and a table.              *)
LEMMA TextAdded ==
    ASSUME NEW Ord, NEW V, NEW X, NEW U, NEW out \in Seq(Segment(V, U)), Pairs(Ord, Flat(out)),
           NEW text \in Seq([kind : {"text"}, content : Seq(Paragraph(X))]), Pairs(Ord, Flat(text)),
           \A x \in V, y \in X : <<x, y>> \in Ord
    PROVE  /\ out \o text \in Seq(Segment(V \cup X, U))
           /\ Pairs(Ord, Flat(out \o text))
<1> DEFINE T == V \cup X
           E == Element(T, U)
           a == Flat(out)
           b == Flat(text)
           TextsOfX == [kind : {"text"}, content : Seq(Paragraph(X))]
<1>1. Segment(V, U) \subseteq Segment(T, U) /\ TextsOfX \subseteq Segment(T, U)
      BY SegmentMonotone
<1>2. Segment(V, U) \subseteq Element(V, U) /\ TextsOfX \subseteq Element(X, U) /\ Segment(T, U) \subseteq E
      BY DEF Segment, Element
<1>3. out \in Seq(Segment(V, U)) /\ text \in Seq(TextsOfX)
      OBVIOUS
<1> HIDE DEF T, E, TextsOfX
<1>4. out \in Seq(Segment(T, U)) /\ text \in Seq(Segment(T, U))
      BY <1>1, <1>3, SeqMonotone
<1>5. out \in Seq(Element(V, U)) /\ text \in Seq(Element(X, U))
      BY <1>2, <1>3, SeqMonotone
<1>6. a \in Seq(V) /\ b \in Seq(X)
      BY <1>5, FlatElements
<1>7. out \o text \in Seq(Segment(T, U))
      BY <1>4, Concatenated
<1>8. out \in Seq(E) /\ text \in Seq(E)
      BY <1>2, <1>4, SeqMonotone
<1>9. Flat(out \o text) = a \o b /\ a \in Seq(T) /\ b \in Seq(T)
      BY <1>8, FlatElements DEF E
<1>10. Pairs(Ord, a) /\ Pairs(Ord, b)
       OBVIOUS
<1> HIDE DEF a, b
<1>11. \A x \in Range(a), y \in Range(b) : <<x, y>> \in Ord
       BY <1>6, ConcatRange
<1>12. Pairs(Ord, a \o b)
       BY <1>9, <1>10, <1>11, PairsConcat
<1> QED BY <1>7, <1>9, <1>12 DEF T

LEMMA TableAdded ==
    ASSUME NEW Ord, NEW V, NEW U, NEW out \in Seq(Segment(V, U)), Pairs(Ord, Flat(out)), NEW t \in U
    PROVE  /\ out \o <<TableElement(t)>> \in Seq(Segment(V, U))
           /\ Pairs(Ord, Flat(out \o <<TableElement(t)>>))
<1> DEFINE e == TableElement(t)
           one == <<e>>
           S == Segment(V, U)
           E == Element(V, U)
           a == Flat(out)
<1>1. e \in S /\ LinesOf(e) = <<>> /\ S \subseteq E
      BY DEF Segment, Element, TableElement, LinesOf
<1>2. out \in Seq(S)
      OBVIOUS
<1> HIDE DEF e, S, E
<1>3. one \in Seq(S) /\ out \o one = Append(out, e)
      BY <1>1, <1>2
<1> HIDE DEF one
<1>4. out \o one \in Seq(S)
      BY <1>2, <1>3, Concatenated
<1>5. out \in Seq(E) /\ e \in E
      BY <1>1, <1>2, SeqMonotone
<1>6. a \in Seq(V) /\ Flat(Append(out, e)) = a \o LinesOf(e)
      BY <1>5, FlatElement DEF E
<1>7. Pairs(Ord, a)
      OBVIOUS
<1> HIDE DEF a
<1>8. a \o <<>> = a
      BY <1>6, Joins
<1>9. Pairs(Ord, Flat(out \o one))
      BY <1>1, <1>3, <1>6, <1>7, <1>8
<1> QED BY <1>4, <1>9 DEF one, e, S

(* Splitting a page at its tables leaves its lines in their order.         *)
LEMMA PageSplitInOrder ==
    ASSUME NEW Ord, NEW i, TablesApart(TablesOf(i)), NEW B, NEW objs \in Seq(B), Pairs(Ord, Texts(objs))
    PROVE  Pairs(Ord, Flat(SplitPageByTables(i, objs)))
<1> DEFINE U == TablesOf(i)
           T == {o.text : o \in B}
           prose == Outside(U, objs)
           ts == TableOrder(U)
           all == SplitPageByTables(i, objs)
           R == RunPairs(Ord, B)
           m == Len(ts)
           LinesBefore(k) == {prose[j].text : j \in 1 .. k - 1}
<1>1. prose \in Seq(B) /\ Pairs(R, prose) /\ ts \in Seq(U)
  <2>1. Pairs(R, objs)
        BY TextPairs
  <2> HIDE DEF R
  <2> QED BY <2>1, OutsideKeeps, OutsideInOrder, TableOrderSorts
<1>2. PICK h : TableRun(h, all, prose, ts, T, U)
  <2>1. \A o \in B : o.text \in T
        OBVIOUS
  <2> HIDE DEF prose, ts, U, T
  <2>2. prose = Outside(TablesOf(i), objs) /\ ts = TableOrder(TablesOf(i))
        BY DEF prose, ts, U
  <2> QED BY <1>1, <2>1, <2>2, TableFold
<1> HIDE DEF prose, ts, all, U, T, R
<1>3. /\ Len(prose) \in Nat /\ DOMAIN prose = 1 .. Len(prose) /\ m \in Nat
      /\ \A k \in 1 .. m : ts[k] \in U
      BY <1>1
<1>4. \A j, k \in 1 .. Len(prose) : j < k => <<prose[j].text, prose[k].text>> \in Ord
      BY <1>1, <1>3 DEF Pairs, R, RunPairs
<1>5. /\ \A k \in 0 .. m : h[k].idx \in 1 .. Len(prose) + 1
      /\ h[0] = [idx |-> 1, out |-> <<>>]
      /\ \A k \in 1 .. m : h[k] = TableStep(prose, h[k - 1], ts[k])
      /\ all = h[m].out \o TextSegment(prose, h[m].idx, Len(prose))
      BY <1>2 DEF TableRun, Splitting
(* The lines from one place of the page to another come after the earlier. *)
<1>6. ASSUME NEW from \in 1 .. Len(prose) + 1, NEW to \in from - 1 .. Len(prose),
             NEW out \in Seq(Segment(LinesBefore(from), U)), Pairs(Ord, Flat(out))
      PROVE  /\ out \o TextSegment(prose, from, to) \in Seq(Segment(LinesBefore(to + 1), U))
             /\ Pairs(Ord, Flat(out \o TextSegment(prose, from, to)))
  <2> DEFINE V == LinesBefore(from)
             X == {prose[j].text : j \in from .. to}
             text == TextSegment(prose, from, to)
  <2>1. text \in Seq([kind : {"text"}, content : Seq(Paragraph(X))])
        BY <1>1, TextSegmentFrom
  <2>2. Pairs(Ord, Flat(text))
        BY <1>1, TextSegmentInOrder DEF R
  <2>3. \A x \in V, y \in X : <<x, y>> \in Ord
    <3>1. \A j \in 1 .. from - 1, k \in from .. to : j \in 1 .. Len(prose) /\ k \in 1 .. Len(prose) /\ j < k
          BY <1>3
    <3> QED BY <1>4, <3>1
  <2>4. V \cup X = LinesBefore(to + 1)
    <3>1. \A j : j \in 1 .. (to + 1) - 1 <=> j \in 1 .. from - 1 \/ j \in from .. to
          BY <1>3
    <3> QED BY <3>1
  <2>5. out \in Seq(Segment(V, U)) /\ Pairs(Ord, Flat(out))
        BY <1>6
  <2> HIDE DEF V, X, text, LinesBefore
  <2>6. out \o text \in Seq(Segment(V \cup X, U)) /\ Pairs(Ord, Flat(out \o text))
        BY <2>1, <2>2, <2>3, <2>5, TextAdded
  <2> QED BY <2>4, <2>6 DEF text
<1> DEFINE P(k) == h[k].out \in Seq(Segment(LinesBefore(h[k].idx), U)) /\ Pairs(Ord, Flat(h[k].out))
           G == {k \in 0 .. m : P(k)}
<1>7. P(0)
  <2>1. <<>> \in Seq(Segment(LinesBefore(h[0].idx), U))
    <3> HIDE DEF LinesBefore
    <3> QED OBVIOUS
  <2>2. Pairs(Ord, Flat(<<>>))
        BY FlatNoElements DEF Pairs
  <2> HIDE DEF LinesBefore
  <2> QED BY <1>5, <2>1, <2>2
<1>8. ASSUME NEW k \in 1 .. m, P(k - 1)
      PROVE  P(k)
  <2> DEFINE out  == h[k - 1].out
             from == h[k - 1].idx
             t    == ts[k]
             to   == UpTo(prose, from, Top(t))
             mid  == out \o TextSegment(prose, from, to)
  <2>1. from \in 1 .. Len(prose) + 1 /\ t \in U /\ out \in Seq(Segment(LinesBefore(from), U)) /\ Pairs(Ord, Flat(out))
    <3>1. k - 1 \in 0 .. m
          BY <1>3
    <3> HIDE DEF LinesBefore
    <3> QED BY <1>3, <1>5, <1>8, <3>1
  <2>2. h[k].idx = to + 1 /\ h[k].out = mid \o <<TableElement(t)>>
    <3>1. h[k] = TableStep(prose, h[k - 1], t)
          BY <1>5
    <3>2. TableStep(prose, h[k - 1], t) = [idx |-> to + 1, out |-> mid \o <<TableElement(t)>>]
      <4> HIDE DEF t
      <4> QED BY DEF TableStep
    <3> HIDE DEF mid, to, t
    <3> QED BY <3>1, <3>2
  <2> HIDE DEF out, from, t
  <2>3. to \in from - 1 .. Len(prose)
        BY <1>1, <2>1, UpToBounds
  <2> HIDE DEF to
  <2>4. mid \in Seq(Segment(LinesBefore(to + 1), U)) /\ Pairs(Ord, Flat(mid))
    <3> HIDE DEF LinesBefore
    <3> QED BY <1>6, <2>1, <2>3
  <2> HIDE DEF mid, LinesBefore
  <2>5. /\ mid \o <<TableElement(t)>> \in Seq(Segment(LinesBefore(to + 1), U))
        /\ Pairs(Ord, Flat(mid \o <<TableElement(t)>>))
        BY <2>1, <2>4, TableAdded
  <2> QED BY <2>2, <2>5
<1> HIDE DEF P
<1>9. 0 \in G /\ \A k \in 1 .. m : k - 1 \in G => k \in G
      BY <1>3, <1>7, <1>8
<1> HIDE DEF G
<1>10. \A k \in 0 .. m : k \in G
       BY <1>3, <1>9, UpToInduction
<1>11. m \in 0 .. m
       BY <1>3
<1> DEFINE from == h[m].idx
           out  == h[m].out
           to   == Len(prose)
<1>12. from \in 1 .. Len(prose) + 1 /\ out \in Seq(Segment(LinesBefore(from), U)) /\ Pairs(Ord, Flat(out))
  <2>1. P(m)
        BY <1>10, <1>11 DEF G
  <2> HIDE DEF LinesBefore
  <2> QED BY <1>5, <1>11, <2>1 DEF P
<1>13. to \in from - 1 .. Len(prose)
  <2> HIDE DEF from
  <2> QED BY <1>3, <1>12
<1>14. Pairs(Ord, Flat(out \o TextSegment(prose, from, to)))
  <2> HIDE DEF LinesBefore, out, from, to
  <2> QED BY <1>6, <1>12, <1>13
<1> QED BY <1>5, <1>14 DEF all

----------------------------------------------------------------------------
(* The columns of a page.                                                  *)
(* The order a page is read in, as ReadingOrder has it: a line before      *)
(* another.                                                                *)
OnLeft(objs, r) == 2 * r.x1 <= Middle(objs)
Parted(objs, r, s) == \E w \in Spanning(objs) : ~(r.y <= w.y <=> s.y <= w.y) \/ w \in {r, s}
ReadBefore(objs, r, s) ==
    IF TwoColumns(objs) /\ ~Parted(objs, r, s) /\ ~(OnLeft(objs, r) <=> OnLeft(objs, s)) THEN OnLeft(objs, r)
    ELSE Above(r, s)

AsRead(objs) == {q \in objs \X objs : ~ReadBefore(objs, q[2], q[1])}

ColumnsApart(objs) ==
    TwoColumns(objs) => \A r \in objs : /\ 2 * r.x1 <= Middle(objs) => 2 * r.x0 < Middle(objs)
                                        /\ \A w \in Spanning(objs) : r.y = w.y => r = w

LEMMA AboveOrders ==
    ASSUME NEW objs, RunsOK(objs)
    PROVE  /\ \A r, s \in objs : Above(r, s) => ~Above(s, r)
           /\ \A r, s, t \in objs : Above(r, s) /\ Above(s, t) => Above(r, t)
           /\ \A r, s \in objs : r # s => Above(r, s) \/ Above(s, r)
           /\ \A r \in objs : ~Above(r, r)
           /\ \A r, s \in objs : Above(r, s) => r.y <= s.y
           /\ \A r, s \in objs : r.y # s.y => (Above(r, s) <=> ~(s.y <= r.y))
<1>1. \A r \in objs : r.x0 \in Int /\ r.x1 \in Int /\ r.y \in Int
      BY DEF RunsOK
<1>2. \A r, s \in objs : r # s => Above(r, s) \/ Above(s, r)
      BY DEF RunsOK
<1>3. \A r, s, t \in objs : Above(r, s) /\ Above(s, t) => Above(r, t)
      BY <1>1 DEF Above
<1>4. \A r, s \in objs : Above(r, s) => ~Above(s, r)
      BY <1>1 DEF Above
<1>5. \A r, s \in objs : r.y # s.y => (Above(r, s) <=> ~(s.y <= r.y))
      BY <1>1 DEF Above
<1>6. \A r, s \in objs : Above(r, s) => r.y <= s.y
      BY <1>1 DEF Above
<1> QED BY <1>2, <1>3, <1>4, <1>5, <1>6

(* Full-width lines part those of different bands, and no others.          *)
LEMMA BandsParted ==
    ASSUME NEW objs, RunsOK(objs), ColumnsApart(objs), TwoColumns(objs), NEW x \in objs, NEW y \in objs,
           x \notin Spanning(objs), y \notin Spanning(objs)
    PROVE  /\ Parted(objs, x, y) <=> \E w \in Spanning(objs) : ~(Above(w, x) <=> Above(w, y))
           /\ Parted(objs, y, x) <=> \E w \in Spanning(objs) : ~(Above(w, x) <=> Above(w, y))
<1>1. \A w \in Spanning(objs) : w \in objs /\ w # x /\ w # y
      BY DEF Spanning
<1>2. \A w \in Spanning(objs) : x.y # w.y /\ y.y # w.y
      BY <1>1 DEF ColumnsApart
<1>3. \A w \in Spanning(objs) : (Above(w, x) <=> ~(x.y <= w.y)) /\ (Above(w, y) <=> ~(y.y <= w.y))
      BY <1>1, <1>2, AboveOrders
<1>4. /\ \A w \in Spanning(objs) : ~(x.y <= w.y <=> y.y <= w.y) <=> ~(Above(w, x) <=> Above(w, y))
      /\ \A w \in Spanning(objs) : ~(y.y <= w.y <=> x.y <= w.y) <=> ~(Above(w, x) <=> Above(w, y))
      /\ \A w \in Spanning(objs) : w \notin {x, y} /\ w \notin {y, x}
      BY <1>1, <1>3
<1> QED BY <1>4 DEF Parted

LEMMA WideParts ==
    ASSUME NEW objs, NEW x, NEW y, x \in Spanning(objs) \/ y \in Spanning(objs)
    PROVE  ReadBefore(objs, y, x) <=> Above(y, x)
BY DEF ReadBefore, Parted

(* A column of a band is read from top to bottom.                          *)
LEMMA ColumnInOrder ==
    ASSUME NEW objs, RunsOK(objs), NEW col \in SUBSET objs,
           \A x, y \in col : OnLeft(objs, x) <=> OnLeft(objs, y)
    PROVE  /\ TopDown(col) \in Seq(objs) /\ TopDown(col) \in Seq(col)
           /\ Pairs(AsRead(objs), TopDown(col))
<1> DEFINE s == TopDown(col)
<1>1. RunsOK(col)
      BY RunsOfPart
<1>2. s \in Seq(col) /\ \A j, k \in 1 .. Len(s) : j < k => Above(s[j], s[k])
      BY <1>1, TopDownSorts
<1> HIDE DEF s
<1>3. s \in Seq(objs)
      BY <1>2, SeqMonotone
<1>4. DOMAIN s = 1 .. Len(s) /\ \A j \in 1 .. Len(s) : s[j] \in col /\ s[j] \in objs
      BY <1>2
<1>5. \A x, y \in col : Above(x, y) => <<x, y>> \in AsRead(objs)
  <2>1. \A x, y \in col : Above(x, y) => ~Above(y, x)
        BY AboveOrders
  <2> QED BY <2>1 DEF AsRead, ReadBefore
<1> QED BY <1>2, <1>3, <1>4, <1>5 DEF Pairs, s

ReadUpTo(objs, seen, acc) ==
    \A x : Among(x, acc) => \E p \in seen : x = p \/ x \in BandOf(p, objs)

LEMMA ReadStepInOrder ==
    ASSUME NEW objs, RunsOK(objs), ColumnsApart(objs), TwoColumns(objs),
           NEW seen \in SUBSET objs, NEW o \in objs, \A p \in seen : Above(p, o),
           NEW acc \in Seq(objs), Pairs(AsRead(objs), acc), ReadUpTo(objs, seen, acc)
    PROVE  /\ Pairs(AsRead(objs), ReadStep(objs, acc, o))
           /\ ReadUpTo(objs, seen \cup {o}, ReadStep(objs, acc, o))
<1> DEFINE band == BandOf(o, objs)
           next == ReadStep(objs, acc, o)
<1>1. \A x \in Range(acc) : x \in objs /\ \E p \in seen : x = p \/ x \in BandOf(p, objs)
  <2>1. \A x \in Range(acc) : x \in objs /\ Among(x, acc)
        BY DEF Among, Range
  <2> QED BY <2>1 DEF ReadUpTo
<1>2. CASE o \in Spanning(objs)
  <2> DEFINE one == <<o>>
  <2>1. next = acc \o one /\ one \in Seq(objs) /\ Range(one) = {o} /\ Pairs(AsRead(objs), one)
        BY <1>2 DEF ReadStep, Range, Pairs
  <2> HIDE DEF one, next
  <2>2. \A x \in Range(acc) : <<x, o>> \in AsRead(objs)
    <3> SUFFICES ASSUME NEW x \in Range(acc)
                 PROVE  <<x, o>> \in AsRead(objs)
        OBVIOUS
    <3>1. x \in objs
          BY <1>1
    <3>2. ~Above(o, x)
      <4>1. PICK p \in seen : x = p \/ x \in BandOf(p, objs)
            BY <1>1
      <4>2. ~Above(o, p)
            BY <4>1, AboveOrders
      <4> QED BY <1>2, <4>1, <4>2 DEF BandOf
    <3>3. ReadBefore(objs, o, x) <=> Above(o, x)
          BY <1>2, WideParts
    <3> QED BY <3>1, <3>2, <3>3 DEF AsRead
  <2>3. Pairs(AsRead(objs), next)
        BY <2>1, <2>2, PairsConcat
  <2>4. \A x : Among(x, next) => Among(x, acc) \/ x = o
    <3>1. \A x : Among(x, one) => x = o
          BY DEF Among, one
    <3> QED BY <2>1, <3>1, ConcatAmong
  <2> QED BY <2>3, <2>4 DEF ReadUpTo, next
<1>3. CASE o \notin Spanning(objs) /\ \E i \in DOMAIN acc : acc[i] \in band
  <2>1. next = acc
        BY <1>3 DEF ReadStep
  <2> QED BY <2>1 DEF ReadUpTo
<1>4. CASE o \notin Spanning(objs) /\ ~ \E i \in DOMAIN acc : acc[i] \in band
  <2> DEFINE L == LeftOf(band, objs)
             R == RightOf(band, objs)
             left  == TopDown(L)
             right == TopDown(R)
             both  == left \o right
  <2>1. next = (acc \o left) \o right
        BY <1>4 DEF ReadStep
  <2>2. \A x \in band : x \in objs /\ x \notin Spanning(objs)
        BY DEF BandOf
  <2>3. L \in SUBSET objs /\ R \in SUBSET objs /\ L \subseteq band /\ R \subseteq band
        BY <2>2 DEF LeftOf, RightOf
  <2>4. (\A x \in L : OnLeft(objs, x)) /\ (\A x \in R : ~OnLeft(objs, x))
    <3>1. \A x \in L : 2 * x.x1 <= Middle(objs)
          BY DEF LeftOf
    <3>2. \A x \in R : 2 * x.x0 >= Middle(objs) /\ x.x0 \in Int /\ Middle(objs) \in Int
          BY <2>3, MiddleIsInt DEF RightOf, RunsOK
    <3>3. \A x \in R : ~(2 * x.x0 < Middle(objs))
      <4> HIDE DEF R
      <4> QED BY <3>2
    <3> HIDE DEF L, R, band
    <3> QED BY <2>3, <3>1, <3>3 DEF OnLeft, ColumnsApart
  <2> HIDE DEF L, R
  <2>5. /\ left \in Seq(objs) /\ left \in Seq(L) /\ Pairs(AsRead(objs), left)
        /\ right \in Seq(objs) /\ right \in Seq(R) /\ Pairs(AsRead(objs), right)
    <3>1. /\ \A x, y \in L : OnLeft(objs, x) <=> OnLeft(objs, y)
          /\ \A x, y \in R : OnLeft(objs, x) <=> OnLeft(objs, y)
          BY <2>4
    <3> QED BY <2>3, <3>1, ColumnInOrder
  <2> HIDE DEF left, right, band
  <2>6. \A x, y \in band : ~Parted(objs, y, x)
    <3>1. \A x, y \in band : \A w \in Spanning(objs) : Above(w, x) <=> Above(w, y)
          BY DEF band, BandOf
    <3> QED BY <2>2, <3>1, BandsParted
  <2>7. \A x \in L, y \in R : <<x, y>> \in AsRead(objs)
    <3> SUFFICES ASSUME NEW x \in L, NEW y \in R
                 PROVE  <<x, y>> \in AsRead(objs)
        OBVIOUS
    <3>1. x \in objs /\ y \in objs /\ ~Parted(objs, y, x) /\ OnLeft(objs, x) /\ ~OnLeft(objs, y)
          BY <2>3, <2>4, <2>6
    <3>2. ~ReadBefore(objs, y, x)
          BY <3>1 DEF ReadBefore
    <3> QED BY <3>1, <3>2 DEF AsRead
  <2>8. Range(left) \subseteq L /\ Range(right) \subseteq R
        BY <2>5, ConcatRange
  <2>9. Pairs(AsRead(objs), both) /\ both \in Seq(objs) /\ Range(both) \subseteq band
    <3>1. both \in Seq(objs) /\ Range(both) = Range(left) \cup Range(right)
          BY <2>5, Concatenated, ConcatRange
    <3>2. \A x \in Range(left), y \in Range(right) : <<x, y>> \in AsRead(objs)
          BY <2>7, <2>8
    <3> QED BY <2>3, <2>5, <2>8, <3>1, <3>2, PairsConcat
(* What was read before is in bands above.                                 *)
  <2>10. \A x \in Range(acc), y \in band : <<x, y>> \in AsRead(objs)
    <3> SUFFICES ASSUME NEW x \in Range(acc), NEW y \in band
                 PROVE  <<x, y>> \in AsRead(objs)
        OBVIOUS
    <3>1. x \in objs /\ y \in objs /\ y \notin Spanning(objs)
          BY <1>1, <2>2
    <3>2. PICK p \in seen : x = p \/ x \in BandOf(p, objs)
          BY <1>1
    <3>3. p \in objs /\ Above(p, o)
          BY <3>2
    <3>4. \A w \in Spanning(objs) : w \in objs /\ (Above(w, y) <=> Above(w, o)) /\ (Above(w, x) <=> Above(w, p))
      <4>1. \A w \in Spanning(objs) : Above(w, y) <=> Above(w, o)
            BY DEF band, BandOf
      <4>2. \A w \in Spanning(objs) : Above(w, x) <=> Above(w, p)
            BY <3>2 DEF BandOf
      <4> QED BY <4>1, <4>2 DEF Spanning
    <3>5. CASE x \in Spanning(objs)
      <4>1. x = p
            BY <3>2, <3>5 DEF BandOf
      <4>2. Above(x, y)
            BY <3>3, <3>4, <3>5, <4>1
      <4>3. ~ReadBefore(objs, y, x)
            BY <3>1, <3>5, <4>2, WideParts, AboveOrders
      <4> QED BY <3>1, <4>3 DEF AsRead
    <3>6. CASE x \notin Spanning(objs)
      <4>1. x \notin band
            BY <1>4 DEF Range
      <4>2. PICK w \in Spanning(objs) : ~(Above(w, x) <=> Above(w, o))
            BY <3>1, <3>6, <4>1 DEF band, BandOf
      <4>3. Above(w, p) => Above(w, o)
            BY <3>3, <3>4, AboveOrders
      <4>4. ~Above(w, x) /\ Above(w, y) /\ w # x
        <5>1. ~Above(w, p) /\ Above(w, o)
              BY <3>4, <4>2, <4>3
        <5> QED BY <3>4, <3>6, <5>1
      <4>5. Above(x, w)
            BY <3>1, <3>4, <4>4, AboveOrders
      <4>6. Above(x, y)
            BY <3>1, <3>4, <4>4, <4>5, AboveOrders
      <4>7. Parted(objs, y, x)
            BY <3>1, <3>6, <4>4, BandsParted
      <4>8. ~ReadBefore(objs, y, x)
        <5>1. ~Above(y, x)
              BY <3>1, <4>6, AboveOrders
        <5> QED BY <4>7, <5>1 DEF ReadBefore
      <4> QED BY <3>1, <4>8 DEF AsRead
    <3> QED BY <3>5, <3>6
  <2>11. next = acc \o both
    <3>1. left \in Seq(objs) /\ right \in Seq(objs)
          BY <2>5
    <3> HIDE DEF next, both
    <3>2. SameJoined(acc, left, right)
          BY <3>1, Regroup
    <3> QED BY <2>1, <3>2 DEF both, SameJoined
  <2> HIDE DEF both, next
  <2>12. Pairs(AsRead(objs), next)
    <3>1. \A x \in Range(acc), y \in Range(both) : <<x, y>> \in AsRead(objs)
          BY <2>9, <2>10
    <3> QED BY <2>9, <2>11, <3>1, PairsConcat
  <2>13. \A x : Among(x, next) => Among(x, acc) \/ x \in band
    <3>1. \A x : Among(x, both) => x \in band
          BY <2>9 DEF Among, Range
    <3> QED BY <2>9, <2>11, <3>1, ConcatAmong
  <2> QED BY <2>12, <2>13 DEF ReadUpTo, next, band
<1> QED BY <1>2, <1>3, <1>4

(* _order_page_text_objects reads the lines of a page in that order.       *)
LEMMA OrderInOrder ==
    ASSUME NEW objs, RunsOK(objs), ColumnsApart(objs)
    PROVE  Pairs(AsRead(objs), OrderPageTextObjects(objs))
<1> DEFINE t == TopDown(objs)
           m == Len(t)
<1>1. t \in Seq(objs) /\ \A j, k \in 1 .. m : j < k => Above(t[j], t[k])
      BY TopDownSorts
<1>2. m \in Nat /\ DOMAIN t = 1 .. m /\ \A k \in 1 .. m : t[k] \in objs
  <2> HIDE DEF t
  <2> QED BY <1>1
<1>3. CASE ~TwoColumns(objs)
  <2>1. OrderPageTextObjects(objs) = t
        BY <1>3 DEF OrderPageTextObjects
  <2>2. \A r, s \in objs : Above(r, s) => <<r, s>> \in AsRead(objs)
        BY <1>3, AboveOrders DEF AsRead, ReadBefore
  <2> HIDE DEF t
  <2> QED BY <1>1, <1>2, <2>1, <2>2 DEF Pairs
<1>4. CASE TwoColumns(objs)
  <2>1. t = TopDown(objs)
        OBVIOUS
  <2> HIDE DEF t
  <2>2. PICK h \in [0 .. m -> Seq(objs)] :
                /\ h[0] = <<>> /\ OrderPageTextObjects(objs) = h[m]
                /\ \A k \in 1 .. m : h[k] = ReadStep(objs, h[k - 1], t[k])
        BY <1>1, <1>4, <2>1, ReadFold
  <2> HIDE DEF m
  <2> DEFINE Seen(k) == {t[j] : j \in 1 .. k}
             P(k) == Pairs(AsRead(objs), h[k]) /\ ReadUpTo(objs, Seen(k), h[k])
             G == {k \in 0 .. m : P(k)}
  <2>3. P(0)
        BY <2>2 DEF Pairs, ReadUpTo, Among
  <2>4. ASSUME NEW k \in 1 .. m, P(k - 1)
        PROVE  P(k)
    <3> DEFINE acc == h[k - 1]
               o == t[k]
               seen == Seen(k - 1)
    <3>1. acc \in Seq(objs) /\ h[k] = ReadStep(objs, acc, o) /\ o \in objs
      <4>1. k - 1 \in 0 .. m
            BY <1>2
      <4> QED BY <1>2, <2>2, <4>1
    <3>2. seen \in SUBSET objs /\ \A p \in seen : Above(p, o)
      <4>1. \A j \in 1 .. k - 1 : j \in 1 .. m /\ j < k
            BY <1>2
      <4> QED BY <1>1, <1>2, <4>1 DEF m
    <3>3. seen \cup {o} = Seen(k)
      <4>1. \A j : j \in 1 .. k <=> j \in 1 .. k - 1 \/ j = k
            BY <1>2
      <4> QED BY <4>1
    <3>4. Pairs(AsRead(objs), acc) /\ ReadUpTo(objs, seen, acc)
          BY <2>4
    <3> HIDE DEF acc, o, seen, Seen
    <3>5. Pairs(AsRead(objs), ReadStep(objs, acc, o)) /\ ReadUpTo(objs, seen \cup {o}, ReadStep(objs, acc, o))
          BY <1>4, <3>1, <3>2, <3>4, ReadStepInOrder
    <3> QED BY <3>1, <3>3, <3>5
  <2> HIDE DEF P
  <2>5. 0 \in G /\ \A k \in 1 .. m : k - 1 \in G => k \in G
        BY <1>2, <2>3, <2>4
  <2> HIDE DEF G
  <2>6. \A k \in 0 .. m : k \in G
        BY <1>2, <2>5, UpToInduction
  <2>7. m \in 0 .. m
        BY <1>2
  <2> QED BY <2>2, <2>6, <2>7 DEF G, P
<1> QED BY <1>3, <1>4

----------------------------------------------------------------------------
(* What is read of a sequence of lines, part after part.                   *)
(* A sequence stands in another after its first p members.                 *)
StandsAt(B, E, p) == \A k \in 1 .. Len(B) : p + k \in DOMAIN E /\ E[p + k] = B[k]

LEMMA ConcatStands ==
    ASSUME NEW T, NEW s \in Seq(T), NEW t \in Seq(T)
    PROVE  /\ StandsAt(s, s \o t, 0) /\ StandsAt(t, s \o t, Len(s))
           /\ Len(s \o t) = Len(s) + Len(t) /\ Len(s) \in Nat /\ Len(t) \in Nat
BY Concatenated DEF StandsAt

LEMMA StandsInside ==
    ASSUME NEW B, NEW C, NEW E, NEW p \in Nat, NEW q \in Nat, Len(B) \in Nat, DOMAIN C = 1 .. Len(C), Len(C) \in Nat,
           StandsAt(B, C, q), StandsAt(C, E, p)
    PROVE  StandsAt(B, E, p + q)
<1> SUFFICES ASSUME NEW k \in 1 .. Len(B)
             PROVE  (p + q) + k \in DOMAIN E /\ E[(p + q) + k] = B[k]
    BY DEF StandsAt
<1>1. q + k \in 1 .. Len(C) /\ C[q + k] = B[k]
      BY DEF StandsAt
<1>2. p + (q + k) \in DOMAIN E /\ E[p + (q + k)] = C[q + k]
      BY <1>1 DEF StandsAt
<1>3. p + (q + k) = (p + q) + k
      OBVIOUS
<1> QED BY <1>1, <1>2, <1>3

(* A part of a sequence from its start on.                                 *)
LEMMA StartCut ==
    ASSUME NEW S, NEW s \in Seq(S), NEW from \in Nat, NEW to \in Nat, from <= to, to <= Len(s)
    PROVE  /\ SubSeq(s, 1, from) \in Seq(S) /\ SubSeq(s, from + 1, to) \in Seq(S)
           /\ SubSeq(s, 1, to) \in Seq(S)
           /\ SubSeq(s, 1, to) = SubSeq(s, 1, from) \o SubSeq(s, from + 1, to)
<1> DEFINE a == SubSeq(s, 1, from)
           b == SubSeq(s, from + 1, to)
           c == SubSeq(s, 1, to)
<1>1. /\ a \in Seq(S) /\ Len(a) = from /\ \A j \in 1 .. from : a[j] = s[j]
      BY SMT
<1>2. /\ b \in Seq(S) /\ Len(b) = to - from /\ \A j \in 1 .. to - from : b[j] = s[from + j]
      BY SMT
<1>3. c \in Seq(S) /\ Len(c) = to
      BY SMT
<1>4. \A j \in 1 .. to : c[j] = s[j]
      BY SMT
<1> HIDE DEF a, b, c
<1> DEFINE d == a \o b
<1>5. d \in Seq(S) /\ Len(d) = to
  <2>1. a \in Seq(S) /\ b \in Seq(S) /\ Len(a) = from /\ Len(b) = to - from
        BY <1>1, <1>2
  <2>2. d \in Seq(S) /\ Len(d) = Len(a) + Len(b)
        BY <2>1, Concatenated
  <2> HIDE DEF d
  <2> QED BY <2>1, <2>2
<1>6. /\ \A j \in 1 .. from : d[j] = s[j]
      /\ \A j \in 1 .. to - from : d[from + j] = s[from + j]
  <2>1. /\ \A j \in 1 .. Len(a) : d[j] = a[j]
        /\ \A j \in 1 .. Len(b) : d[Len(a) + j] = b[j]
    <3>1. a \in Seq(S) /\ b \in Seq(S)
          BY <1>1, <1>2
    <3> QED BY <3>1, Concatenated
  <2> HIDE DEF d
  <2>2. \A j \in 1 .. from : d[j] = s[j]
        BY <1>1, <2>1
  <2>3. \A j \in 1 .. to - from : d[from + j] = s[from + j]
        BY <1>1, <1>2, <2>1
  <2> QED BY <2>2, <2>3
<1> HIDE DEF d
<1>7. \A j \in 1 .. to : d[j] = s[j]
  <2> SUFFICES ASSUME NEW j \in 1 .. to, j \notin 1 .. from
               PROVE  d[j] = s[j]
      BY <1>6
  <2>1. j - from \in 1 .. to - from /\ from + (j - from) = j
        OBVIOUS
  <2> QED BY <1>6, <2>1
<1>8. d = c
  <2>1. ASSUME NEW j \in 1 .. to
        PROVE  d[j] = c[j]
        BY <1>4, <1>7
  <2>2. \A j \in 1 .. Len(c) : d[j] = c[j]
        BY <1>3, <2>1
  <2> QED BY <1>3, <1>5, <2>2, SameMembers
<1> QED BY <1>1, <1>2, <1>3, <1>8 DEF a, b, c, d

LEMMA Halves ==
    ASSUME NEW S, NEW s \in Seq(S), NEW k \in 0 .. Len(s)
    PROVE  /\ SubSeq(s, 1, k) \in Seq(S) /\ SubSeq(s, k + 1, Len(s)) \in Seq(S)
           /\ s = SubSeq(s, 1, k) \o SubSeq(s, k + 1, Len(s))
<1> DEFINE m == Len(s)
<1>1. SubSeq(s, 1, m) = s
      BY PrefixesGrow
<1>2. m \in Nat /\ k \in Nat /\ k <= m /\ m <= Len(s)
      OBVIOUS
<1> HIDE DEF m
<1>3. /\ SubSeq(s, 1, k) \in Seq(S) /\ SubSeq(s, k + 1, m) \in Seq(S)
      /\ SubSeq(s, 1, m) = SubSeq(s, 1, k) \o SubSeq(s, k + 1, m)
      BY <1>2, StartCut
<1> QED BY <1>1, <1>3 DEF m

(* An element stands among the others with its lines.                      *)
LinesBefore(es, k) == Len(Flat(SubSeq(es, 1, k)))

LEMMA AppendStands ==
    ASSUME NEW T, NEW U, NEW b \in Seq(Element(T, U)), NEW e \in Element(T, U)
    PROVE  /\ StandsAt(LinesOf(e), Flat(Append(b, e)), Len(Flat(b)))
           /\ Len(Flat(Append(b, e))) = Len(Flat(b)) + Len(LinesOf(e))
           /\ Len(Flat(b)) \in Nat /\ Len(LinesOf(e)) \in Nat
           /\ Append(b, e) \in Seq(Element(T, U)) /\ Flat(Append(b, e)) \in Seq(T)
<1>1. /\ LinesOf(e) \in Seq(T) /\ Flat(b) \in Seq(T)
      /\ Append(b, e) \in Seq(Element(T, U)) /\ Flat(Append(b, e)) = Flat(b) \o LinesOf(e)
      BY FlatElement
<1>2. Flat(Append(b, e)) \in Seq(T)
      BY <1>1, Joins
<1> QED BY <1>1, <1>2, ConcatStands

LEMMA PrefixStands ==
    ASSUME NEW T, NEW U, NEW b \in Seq(Element(T, U)), NEW c \in Seq(Element(T, U))
    PROVE  /\ StandsAt(Flat(b), Flat(b \o c), 0)
           /\ Flat(b) \in Seq(T) /\ Flat(b \o c) \in Seq(T)
<1>1. Flat(b) \in Seq(T) /\ Flat(c) \in Seq(T) /\ Flat(b \o c) = Flat(b) \o Flat(c)
      BY FlatElements
<1>2. Flat(b \o c) \in Seq(T)
      BY <1>1, Joins
<1> QED BY <1>1, <1>2, ConcatStands

LEMMA ElementStands ==
    ASSUME NEW T, NEW U, NEW es \in Seq(Element(T, U)), NEW k \in 1 .. Len(es)
    PROVE  /\ StandsAt(LinesOf(es[k]), Flat(es), LinesBefore(es, k - 1))
           /\ LinesBefore(es, k) = LinesBefore(es, k - 1) + Len(LinesOf(es[k]))
           /\ LinesBefore(es, k - 1) \in Nat /\ Len(LinesOf(es[k])) \in Nat /\ Flat(es) \in Seq(T)
           /\ LinesOf(es[k]) \in Seq(T)
<1> DEFINE V == Element(T, U)
           b == SubSeq(es, 1, k - 1)
           c == SubSeq(es, k + 1, Len(es))
           a == SubSeq(es, 1, k)
           e == es[k]
<1>1. /\ e \in V /\ b \in Seq(V) /\ a \in Seq(V) /\ c \in Seq(V) /\ a = Append(b, e) /\ es = a \o c
  <2> HIDE DEF V
  <2>1. es \in Seq(V) /\ k \in 0 .. Len(es)
        BY DEF V
  <2>2. e \in V /\ b \in Seq(V) /\ a = Append(b, e)
        BY <2>1, PrefixesGrow
  <2>3. a \in Seq(V) /\ c \in Seq(V) /\ es = a \o c
        BY <2>1, Halves
  <2> QED BY <2>1, <2>2, <2>3
<1> HIDE DEF a, b, c, e, V
<1>2. /\ StandsAt(LinesOf(e), Flat(a), Len(Flat(b)))
      /\ Len(Flat(a)) = Len(Flat(b)) + Len(LinesOf(e))
      /\ Len(Flat(b)) \in Nat /\ Len(LinesOf(e)) \in Nat
  <2>1. b \in Seq(Element(T, U)) /\ e \in Element(T, U)
        BY <1>1 DEF V
  <2>2. StandsAt(LinesOf(e), Flat(Append(b, e)), Len(Flat(b)))
      /\ Len(Flat(Append(b, e))) = Len(Flat(b)) + Len(LinesOf(e))
      /\ Len(Flat(b)) \in Nat /\ Len(LinesOf(e)) \in Nat
        BY <2>1, AppendStands
  <2> QED BY <1>1, <2>2
<1>3. StandsAt(Flat(a), Flat(es), 0) /\ Flat(a) \in Seq(T) /\ Flat(es) \in Seq(T)
  <2>1. a \in Seq(Element(T, U)) /\ c \in Seq(Element(T, U))
        BY <1>1 DEF V
  <2>2. StandsAt(Flat(a), Flat(a \o c), 0) /\ Flat(a) \in Seq(T) /\ Flat(a \o c) \in Seq(T)
        BY <2>1, PrefixStands
  <2> QED BY <1>1, <2>2
<1>4. StandsAt(LinesOf(e), Flat(es), Len(Flat(b)))
  <2> DEFINE p == 0
             q == Len(Flat(b))
  <2>1. p \in Nat /\ q \in Nat /\ p + q = q /\ DOMAIN Flat(a) = 1 .. Len(Flat(a)) /\ Len(Flat(a)) \in Nat
        BY <1>2, <1>3
  <2>2. StandsAt(LinesOf(e), Flat(a), q) /\ StandsAt(Flat(a), Flat(es), p)
        BY <1>2, <1>3
  <2> HIDE DEF p, q
  <2> QED BY <1>2, <2>1, <2>2, StandsInside DEF q
<1>5. LinesOf(e) \in Seq(T)
  <2>1. e \in Element(T, U)
        BY <1>1 DEF V
  <2> QED BY <2>1, LinesOfElement
<1> QED BY <1>2, <1>3, <1>4, <1>5 DEF LinesBefore, a, b, e

LEMMA ParagraphsJoin ==
    ASSUME NEW T, NEW b \in Seq(Paragraph(T)), NEW m \in Seq(Paragraph(T))
    PROVE  /\ StandsAt(FlattenSeq(b), FlattenSeq(b \o m), 0)
           /\ StandsAt(FlattenSeq(m), FlattenSeq(b \o m), Len(FlattenSeq(b)))
           /\ Len(FlattenSeq(b \o m)) = Len(FlattenSeq(b)) + Len(FlattenSeq(m))
           /\ Len(FlattenSeq(b)) \in Nat /\ Len(FlattenSeq(m)) \in Nat
           /\ FlattenSeq(b) \in Seq(T) /\ FlattenSeq(m) \in Seq(T) /\ FlattenSeq(b \o m) \in Seq(T)
<1>1. FlattenSeq(b) \in Seq(T) /\ FlattenSeq(m) \in Seq(T) /\ FlattenSeq(b \o m) = FlattenSeq(b) \o FlattenSeq(m)
      BY ParagraphsFlat
<1>2. FlattenSeq(b \o m) \in Seq(T)
      BY <1>1, Joins
<1> QED BY <1>1, <1>2, ConcatStands

(* Paragraphs stand among those of their element with their lines.         *)
LEMMA ParagraphsStand ==
    ASSUME NEW T, NEW ps \in Seq(Paragraph(T)), NEW from \in Nat, NEW to \in Nat, from <= to, to <= Len(ps)
    PROVE  LET width(k) == Len(FlattenSeq(SubSeq(ps, 1, k)))
               middle   == FlattenSeq(SubSeq(ps, from + 1, to))
           IN  /\ StandsAt(middle, FlattenSeq(ps), width(from)) /\ width(to) = width(from) + Len(middle)
               /\ width(from) \in Nat /\ Len(middle) \in Nat /\ middle \in Seq(T) /\ FlattenSeq(ps) \in Seq(T)
<1> DEFINE V == Paragraph(T)
           b == SubSeq(ps, 1, from)
           m == SubSeq(ps, from + 1, to)
           c == SubSeq(ps, to + 1, Len(ps))
           f == SubSeq(ps, 1, to)
<1>1. b \in Seq(V) /\ m \in Seq(V) /\ c \in Seq(V) /\ f \in Seq(V) /\ f = b \o m /\ ps = f \o c
  <2> HIDE DEF V
  <2>1. ps \in Seq(V) /\ to \in 0 .. Len(ps)
        BY DEF V
  <2>2. b \in Seq(V) /\ m \in Seq(V) /\ f \in Seq(V) /\ f = b \o m
        BY <2>1, StartCut
  <2>3. c \in Seq(V) /\ ps = f \o c
        BY <2>1, Halves
  <2> QED BY <2>1, <2>2, <2>3
<1> HIDE DEF b, m, c, f, V
<1>2. /\ StandsAt(FlattenSeq(m), FlattenSeq(f), Len(FlattenSeq(b)))
      /\ Len(FlattenSeq(f)) = Len(FlattenSeq(b)) + Len(FlattenSeq(m))
      /\ Len(FlattenSeq(b)) \in Nat /\ Len(FlattenSeq(m)) \in Nat /\ FlattenSeq(m) \in Seq(T)
  <2>1. b \in Seq(Paragraph(T)) /\ m \in Seq(Paragraph(T))
        BY <1>1 DEF V
  <2>2. /\ StandsAt(FlattenSeq(m), FlattenSeq(b \o m), Len(FlattenSeq(b)))
        /\ Len(FlattenSeq(b \o m)) = Len(FlattenSeq(b)) + Len(FlattenSeq(m))
        /\ Len(FlattenSeq(b)) \in Nat /\ Len(FlattenSeq(m)) \in Nat /\ FlattenSeq(m) \in Seq(T)
        BY <2>1, ParagraphsJoin
  <2> QED BY <1>1, <2>2
<1>3. StandsAt(FlattenSeq(f), FlattenSeq(ps), 0) /\ FlattenSeq(f) \in Seq(T) /\ FlattenSeq(ps) \in Seq(T)
  <2>1. f \in Seq(Paragraph(T)) /\ c \in Seq(Paragraph(T))
        BY <1>1 DEF V
  <2>2. /\ StandsAt(FlattenSeq(f), FlattenSeq(f \o c), 0)
        /\ FlattenSeq(f) \in Seq(T) /\ FlattenSeq(f \o c) \in Seq(T)
        BY <2>1, ParagraphsJoin
  <2> QED BY <1>1, <2>2
<1>4. StandsAt(FlattenSeq(m), FlattenSeq(ps), Len(FlattenSeq(b)))
  <2> DEFINE p == 0
             q == Len(FlattenSeq(b))
  <2>1. p \in Nat /\ q \in Nat /\ p + q = q /\ DOMAIN FlattenSeq(f) = 1 .. Len(FlattenSeq(f)) /\ Len(FlattenSeq(f)) \in Nat
        BY <1>2, <1>3
  <2>2. StandsAt(FlattenSeq(m), FlattenSeq(f), q) /\ StandsAt(FlattenSeq(f), FlattenSeq(ps), p)
        BY <1>2, <1>3
  <2> HIDE DEF p, q
  <2> QED BY <1>2, <2>1, <2>2, StandsInside DEF q
<1> QED BY <1>2, <1>3, <1>4 DEF b, m, f

(* The chunks repeat lines where groups overlap: what has to be read before*)
(* a line has been read before its first and every later occurrence.       *)
Closed(Ord, L, E) == \A j \in DOMAIN L : \A y \in Range(E) : <<L[j], y>> \notin Ord => \E k \in 1 .. j - 1 : L[k] = y

(* Of the lines E the first p, at least, have been read into L.            *)
ReadTo(Ord, T, L, E, p) ==
    /\ L \in Seq(T) /\ E \in Seq(T) /\ p \in Nat
    /\ Closed(Ord, L, E) /\ Range(L) \subseteq Range(E)
    /\ \A k \in DOMAIN E : k <= p => E[k] \in Range(L)

Ordered(Ord, E) == Pairs(Ord, E) /\ \A x \in Range(E) : <<x, x>> \in Ord

LEMMA ShiftedBelow ==
    ASSUME NEW l \in Nat, NEW q \in Nat, NEW e \in Nat, NEW n \in Nat, NEW b \in 1 .. n, NEW j, j = l + b, e < q + b, q < e
    PROVE  e - q \in 1 .. n /\ e = q + (e - q) /\ l + (e - q) \in 1 .. j - 1
OBVIOUS

(* M is L, then B.                                                         *)
Continues(M, L, B) ==
    /\ DOMAIN M = 1 .. Len(L) + Len(B) /\ \A k \in 1 .. Len(L) : M[k] = L[k]
    /\ \A k \in 1 .. Len(B) : M[Len(L) + k] = B[k]

LEMMA MoreClosed ==
    ASSUME NEW Ord, NEW T, NEW L, NEW E, NEW p, ReadTo(Ord, T, L, E, p), Ordered(Ord, E), NEW B \in Seq(T),
           NEW q \in 0 .. p, StandsAt(B, E, q),
           NEW M, Continues(M, L, B)
    PROVE  Closed(Ord, M, E)
<1> DEFINE l == Len(L)
<1>1. /\ l \in Nat /\ DOMAIN L = 1 .. l /\ DOMAIN E = 1 .. Len(E) /\ Len(E) \in Nat /\ Len(B) \in Nat /\ p \in Nat
      /\ q \in Nat /\ q <= p
      BY DEF ReadTo
<1>2. /\ DOMAIN M = 1 .. l + Len(B) /\ \A k \in 1 .. l : M[k] = L[k]
      /\ \A k \in 1 .. Len(B) : M[l + k] = B[k]
      BY DEF Continues
<1> HIDE DEF l
<1>3. /\ E \in Seq(T) /\ L \in Seq(T)
      /\ \A k \in 1 .. Len(B) : q + k \in DOMAIN E /\ E[q + k] = B[k]
      BY DEF ReadTo, StandsAt
<1>4. \A j, k \in DOMAIN E : j <= k => <<E[j], E[k]>> \in Ord
      BY <1>1 DEF Ordered, Pairs, Range
<1> SUFFICES ASSUME NEW j \in DOMAIN M, NEW e \in DOMAIN E, <<M[j], E[e]>> \notin Ord
             PROVE  \E k \in 1 .. j - 1 : M[k] = E[e]
    BY DEF Closed, Range
<1>5. CASE j \in 1 .. l
  <2>1. E[e] \in Range(E) /\ j \in DOMAIN L /\ M[j] = L[j]
        BY <1>1, <1>2, <1>5 DEF Range
  <2>2. PICK k \in 1 .. j - 1 : L[k] = E[e]
        BY <2>1 DEF Closed, ReadTo
  <2>3. k \in 1 .. l
        BY <1>1, <1>5
  <2> QED BY <1>2, <2>2, <2>3
<1>6. CASE j \notin 1 .. l
  <2> DEFINE b == j - l
  <2>1. b \in 1 .. Len(B) /\ j = l + b
        BY <1>1, <1>2, <1>6
  <2> HIDE DEF b
  <2>2. M[j] = E[q + b] /\ q + b \in DOMAIN E
        BY <1>2, <1>3, <2>1
  <2>3. ~(q + b <= e)
        BY <1>4, <2>2
  <2>4. e < q + b /\ e \in 1 .. Len(E)
        BY <1>1, <2>1, <2>3
  <2>5. CASE e <= q
    <3>1. E[e] \in Range(L)
          BY <1>1, <2>4, <2>5 DEF ReadTo
    <3>2. PICK k \in DOMAIN L : L[k] = E[e]
          BY <3>1 DEF Range
    <3>3. k \in 1 .. l /\ k \in 1 .. j - 1
          BY <1>1, <2>1, <3>2
    <3> QED BY <1>2, <3>2, <3>3
  <2>6. CASE ~(e <= q)
    <3> DEFINE c == e - q
    <3>1. /\ l \in Nat /\ q \in Nat /\ e \in Nat /\ Len(B) \in Nat /\ b \in 1 .. Len(B) /\ j = l + b
          /\ e < q + b /\ q < e
          BY <1>1, <2>1, <2>4, <2>6
    <3>2. c \in 1 .. Len(B) /\ e = q + c /\ l + c \in 1 .. j - 1
          BY <3>1, ShiftedBelow
    <3> HIDE DEF c
    <3> QED BY <1>2, <1>3, <3>2
  <2> QED BY <2>5, <2>6
<1> QED BY <1>5, <1>6

(* Lines that stand where reading may go on are read next.                 *)
LEMMA ReadOn ==
    ASSUME NEW Ord, NEW T, NEW L, NEW E, NEW p, ReadTo(Ord, T, L, E, p), Ordered(Ord, E), NEW B \in Seq(T),
           NEW q \in 0 .. p, StandsAt(B, E, q)
    PROVE  ReadTo(Ord, T, L \o B, E, q + Len(B))
<1> DEFINE M == L \o B
<1>1. L \in Seq(T) /\ E \in Seq(T) /\ p \in Nat /\ Range(L) \subseteq Range(E) /\ B \in Seq(T)
      BY DEF ReadTo
<1>2. /\ M \in Seq(T) /\ DOMAIN M = 1 .. Len(L) + Len(B) /\ Len(L) \in Nat /\ Len(B) \in Nat
      /\ \A k \in 1 .. Len(L) : M[k] = L[k]
      /\ \A k \in 1 .. Len(B) : M[Len(L) + k] = B[k]
  <2>1. L \in Seq(T) /\ B \in Seq(T)
        BY <1>1
  <2> QED BY <2>1, Concatenated
<1>3. Range(M) = Range(L) \cup Range(B)
  <2>1. L \in Seq(T) /\ B \in Seq(T)
        BY <1>1
  <2> QED BY <2>1, ConcatRange
<1> HIDE DEF M
<1>4. Closed(Ord, M, E)
  <2>1. Continues(M, L, B)
        BY <1>2 DEF Continues
  <2> QED BY <2>1, MoreClosed
<1>5. \A k \in 1 .. Len(B) : q + k \in DOMAIN E /\ E[q + k] = B[k]
      BY DEF StandsAt
<1>6. Range(M) \subseteq Range(E)
  <2>1. ASSUME NEW x \in Range(B) PROVE x \in Range(E)
    <3>1. PICK k \in 1 .. Len(B) : x = B[k]
          BY <1>1 DEF Range
    <3> QED BY <1>5, <3>1 DEF Range
  <2> QED BY <1>1, <1>3, <2>1
<1>7. ASSUME NEW k \in DOMAIN E, k <= q + Len(B) PROVE E[k] \in Range(M)
  <2>1. k \in Nat /\ q \in Nat
        BY <1>1
  <2>2. CASE k <= q
    <3>1. k <= p
          BY <1>1, <2>1, <2>2
    <3>2. E[k] \in Range(L)
          BY <3>1 DEF ReadTo
    <3> QED BY <1>3, <3>2
  <2>3. CASE ~(k <= q)
    <3> DEFINE c == k - q
    <3>1. c \in 1 .. Len(B) /\ k = q + c
          BY <1>2, <1>7, <2>1, <2>3
    <3> HIDE DEF c
    <3>2. E[k] = B[c] /\ c \in DOMAIN B
          BY <1>1, <1>5, <3>1
    <3> QED BY <1>3, <3>2 DEF Range
  <2> QED BY <2>2, <2>3
<1>8. M \in Seq(T) /\ E \in Seq(T) /\ q + Len(B) \in Nat
  <2>1. q \in Nat
        BY <1>1
  <2> QED BY <1>1, <1>2, <2>1
<1>9. ReadTo(Ord, T, M, E, q + Len(B))
      BY <1>4, <1>6, <1>7, <1>8 DEF ReadTo
<1> QED BY <1>9 DEF M

LEMMA NothingToRead ==
    ASSUME NEW Ord, NEW T, NEW E \in Seq(T)
    PROVE  ReadTo(Ord, T, <<>>, E, 0)
BY DEF ReadTo, Closed, Range

LEMMA NoneBefore ==
    ASSUME NEW es
    PROVE  LinesBefore(es, 0) = 0
<1>1. SubSeq(es, 1, 0) = <<>>
      OBVIOUS
<1>2. Len(<<>>) = 0
      OBVIOUS
<1> QED BY <1>1, <1>2, FlatNoElements DEF LinesBefore

Width(ps, k) == Len(FlattenSeq(SubSeq(ps, 1, k)))

(* A part of an element that starts where reading may go on.               *)
LEMMA PartReadOn ==
    ASSUME NEW Ord, NEW T, NEW L, NEW E, NEW p \in Nat, NEW r \in Nat, ReadTo(Ord, T, L, E, p + r), Ordered(Ord, E),
           NEW ps \in Seq(Paragraph(T)), StandsAt(FlattenSeq(ps), E, p),
           NEW from \in Nat, NEW to \in Nat, from <= to, to <= Len(ps), Width(ps, from) <= r
    PROVE  ReadTo(Ord, T, L \o FlattenSeq(SubSeq(ps, from + 1, to)), E, p + Width(ps, to))
<1> DEFINE B == FlattenSeq(SubSeq(ps, from + 1, to))
           C == FlattenSeq(ps)
           v == Width(ps, from)
<1>1. /\ StandsAt(B, C, v) /\ Width(ps, to) = v + Len(B)
      /\ v \in Nat /\ Len(B) \in Nat /\ B \in Seq(T) /\ C \in Seq(T)
      BY ParagraphsStand DEF Width
<1>2. StandsAt(C, E, p) /\ v <= r
      OBVIOUS
<1> HIDE DEF B, C, v
<1>3. DOMAIN C = 1 .. Len(C) /\ Len(C) \in Nat
      BY <1>1
<1>4. StandsAt(B, E, p + v)
      BY <1>1, <1>2, <1>3, StandsInside
<1> DEFINE q == p + v
           b == p + r
<1>5. q \in 0 .. b /\ q + Len(B) = p + (v + Len(B))
      BY <1>1, <1>2
<1>6. ReadTo(Ord, T, L, E, b) /\ Ordered(Ord, E) /\ StandsAt(B, E, q) /\ B \in Seq(T)
      BY <1>1, <1>4
<1> HIDE DEF q, b
<1>7. ReadTo(Ord, T, L \o B, E, q + Len(B))
      BY <1>5, <1>6, ReadOn
<1> QED BY <1>1, <1>5, <1>7 DEF B

LEMMA WidthGrows ==
    ASSUME NEW T, NEW ps \in Seq(Paragraph(T)), NEW from \in Nat, NEW to \in Nat, from <= to, to <= Len(ps)
    PROVE  Width(ps, from) \in Nat /\ Width(ps, to) \in Nat /\ Width(ps, from) <= Width(ps, to)
<1> DEFINE v == Width(ps, from)
           m == Len(FlattenSeq(SubSeq(ps, from + 1, to)))
<1>1. Width(ps, to) = v + m /\ v \in Nat /\ m \in Nat
      BY ParagraphsStand DEF Width
<1> HIDE DEF v, m
<1>2. v <= v + m /\ v + m \in Nat
      BY <1>1
<1> QED BY <1>1, <1>2 DEF v

LEMMA WholeWidth ==
    ASSUME NEW T, NEW ps \in Seq(Paragraph(T))
    PROVE  Width(ps, 0) = 0 /\ Width(ps, Len(ps)) = Len(FlattenSeq(ps)) /\ Len(FlattenSeq(ps)) \in Nat
<1> DEFINE V == Paragraph(T)
<1>1. SubSeq(ps, 1, 0) = <<>> /\ SubSeq(ps, 1, Len(ps)) = ps
  <2>1. ps \in Seq(V)
        OBVIOUS
  <2> HIDE DEF V
  <2> QED BY <2>1, PrefixesGrow
<1>2. FlattenSeq(ps) \in Seq(T)
      BY ParagraphsFlat
<1>3. Len(<<>>) = 0
      OBVIOUS
<1>4. Width(ps, 0) = 0
      BY <1>1, <1>3, FlatNone DEF Width
<1>5. Width(ps, Len(ps)) = Len(FlattenSeq(ps))
      BY <1>1 DEF Width
<1>6. Len(FlattenSeq(ps)) \in Nat
      BY <1>2
<1> QED BY <1>4, <1>5, <1>6
=============================================================================
