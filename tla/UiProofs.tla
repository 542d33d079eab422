------------------------------ MODULE UiProofs ------------------------------
(***************************************************************************)
(* Proofs about Ui, for every width of the screen and of the reader, every *)
(* number of lines it shows, every countdown and all texts.                *)
(*                                                                         *)
(* The invariants are inductive together with the ranges of the numbers,   *)
(* but for LinesHoldText: that is a fact about Split, by induction over    *)
(* the characters of the text, and the reader keeps what Split made.       *)
(***************************************************************************)
EXTENDS Ui, RecursionProofs

-----------------------------------------------------------------------------
(* What Split makes of a text *)

\* AddCharacter on what is written to the lines, one not written to being empty.
AddText(ls, c) ==
    LET broken == IF c = NewLine \/ Len(Last(ls)) >= WIDTH - 1 THEN Append(ls, <<>>) ELSE ls
    IN IF c = NewLine THEN broken ELSE [broken EXCEPT ![Len(broken)] = Append(@, c)]

\* held is what is written to the lines ls.
Shows(C, ls, held) ==
    /\ ls \in Seq(Seq(C) \cup {Unset}) /\ held \in Seq(Seq(C))
    /\ Len(ls) = Len(held)
    /\ \A k \in 1 .. Len(ls) : ls[k] # <<>> /\ held[k] = Written(ls[k])

\* ls are lines of characters of C, and joined are those before the last with
\* what they were cut at, of the text u.
Cut(C, ls, joined, u) ==
    /\ ls \in Seq(Seq(C)) /\ Len(ls) > 0
    /\ joined \in Seq(Seq(C)) /\ Len(joined) = Len(ls) - 1
    /\ u = FlattenSeq(joined) \o ls[Len(ls)]
    /\ \A k \in 1 .. Len(ls) : Len(ls[k]) <= WIDTH - 1
    /\ \A k \in 1 .. Len(ls) - 1 :
          \/ joined[k] = ls[k] \o <<NewLine>>
          \/ joined[k] = ls[k] /\ Len(ls[k]) = WIDTH - 1

\* A line that is ended: the line, what is joined, and a new last line.
LEMMA CutEnds ==
    ASSUME NEW C, NewLine \in C, NEW ls, NEW joined, NEW u \in Seq(C), Cut(C, ls, joined, u),
           NEW last \in Seq(C), Len(last) <= WIDTH - 1, NEW end \in {<<>>, <<NewLine>>},
           end = <<>> => Len(ls[Len(ls)]) = WIDTH - 1
    PROVE  Cut(C, Append(ls, last), Append(joined, ls[Len(ls)] \o end), (u \o end) \o last)
<1> DEFINE n == Len(ls)
           line == ls[n]
           whole == line \o end
           newls == Append(ls, last)
           newjoined == Append(joined, whole)
<1>1. /\ ls \in Seq(Seq(C)) /\ n \in Nat \ {0} /\ line \in Seq(C) /\ end \in Seq(C)
      /\ joined \in Seq(Seq(C)) /\ Len(joined) = n - 1
  <2>1. ls \in Seq(Seq(C)) /\ Len(ls) > 0 /\ joined \in Seq(Seq(C)) /\ Len(joined) = n - 1
    BY DEF Cut
  <2>2. n \in Nat \ {0} /\ n \in 1 .. Len(ls)
    BY <2>1
  <2>3. line \in Seq(C)
    BY <2>1, <2>2, ElementOfSeq
  <2>4. end \in Seq(C)
    <3>1. <<NewLine>> \in Seq(C)
      OBVIOUS
    <3>2. QED
      BY <3>1, EmptySeq
  <2>5. QED
    BY <2>1, <2>2, <2>3, <2>4
<1>2. whole \in Seq(C)
  BY <1>1, ConcatProperties
<1>3. /\ newls \in Seq(Seq(C)) /\ Len(newls) = n + 1 /\ newls[n + 1] = last
      /\ \A k \in 1 .. n : newls[k] = ls[k]
  BY <1>1, AppendProperties
<1>4. /\ newjoined \in Seq(Seq(C)) /\ Len(newjoined) = n /\ newjoined[n] = whole
      /\ \A k \in 1 .. n - 1 : newjoined[k] = joined[k]
  <2> HIDE DEF n, whole
  <2>1. (n - 1) + 1 = n
    BY <1>1
  <2>2. QED
    BY <1>1, <1>2, <2>1, AppendProperties
<1>5. (u \o end) \o last = FlattenSeq(newjoined) \o last
  <2>1. FlattenSeq(joined) \in Seq(C)
    BY <1>1, FlattenType
  <2>2. u = FlattenSeq(joined) \o line
    BY DEF Cut
  <2>3. FlattenSeq(newjoined) = FlattenSeq(joined) \o whole
    <3> HIDE DEF whole
    <3>1. QED
      BY <1>1, <1>2, FlattenAppend
  <2>4. (FlattenSeq(joined) \o line) \o end = FlattenSeq(joined) \o whole
    <3> DEFINE head == FlattenSeq(joined)
    <3>1. head \in Seq(C) /\ line \in Seq(C) /\ end \in Seq(C)
      BY <1>1, <2>1
    <3>2. PICK h, l : h = head /\ l = line
      OBVIOUS
    <3> HIDE DEF line, head
    <3>3. h \in Seq(C) /\ l \in Seq(C) /\ end \in Seq(C)
      BY <3>1, <3>2
    <3>4. (h \o l) \o end = h \o (l \o end)
      BY ONLY <3>3, SMTT(30)
    <3>5. QED
      BY <3>2, <3>4 DEF head
  <2>5. QED
    BY <2>2, <2>3, <2>4
<1>6. \A k \in 1 .. n + 1 : Len(newls[k]) <= WIDTH - 1
  <2>1. \A k \in 1 .. n + 1 : k \in 1 .. n \/ k = n + 1
    BY <1>1
  <2>2. \A k \in 1 .. n : Len(ls[k]) <= WIDTH - 1
    BY DEF Cut
  <2> HIDE DEF newls
  <2>3. QED
    BY <1>3, <2>1, <2>2
<1>7. ASSUME NEW k \in 1 .. n
      PROVE  \/ newjoined[k] = newls[k] \o <<NewLine>>
             \/ newjoined[k] = newls[k] /\ Len(newls[k]) = WIDTH - 1
  <2>1. CASE k = n
    <3>1. newls[k] = line /\ newjoined[k] = line \o end
      BY <1>1, <1>3, <1>4, <2>1
    <3>2. CASE end = <<>>
      <4>1. line \o <<>> = line
        BY <1>1, ConcatEmptySeq
      <4>2. QED
        BY <3>1, <3>2, <4>1
    <3>3. QED
      BY <3>1, <3>2
  <2>2. CASE k # n
    <3>1. k \in 1 .. n - 1
      BY <1>1, <2>2
    <3>2. newls[k] = ls[k] /\ newjoined[k] = joined[k]
      BY <1>3, <1>4, <3>1
    <3>3. QED
      BY <3>1, <3>2 DEF Cut
  <2>3. QED
    BY <2>1, <2>2
<1>8. QED
  <2> HIDE DEF newls, newjoined
  <2>1. Len(newls) > 0 /\ Len(newjoined) = Len(newls) - 1 /\ Len(newls) - 1 = n
    BY <1>1, <1>3, <1>4
  <2>2. Cut(C, newls, newjoined, (u \o end) \o last)
    BY <1>3, <1>4, <1>5, <1>6, <1>7, <2>1 DEF Cut
  <2>3. QED
    BY <2>2 DEF newls, newjoined

\* A last line that has room for a character more.
LEMMA CutGrows ==
    ASSUME NEW C, NEW c \in C, NEW ls, NEW joined, NEW u \in Seq(C), Cut(C, ls, joined, u),
           Len(ls[Len(ls)]) < WIDTH - 1
    PROVE  Cut(C, [ls EXCEPT ![Len(ls)] = Append(@, c)], joined, Append(u, c))
<1> DEFINE n == Len(ls)
           line == ls[n]
           longer == Append(line, c)
           newls == [ls EXCEPT ![n] = longer]
           head == FlattenSeq(joined)
<1>1. /\ ls \in Seq(Seq(C)) /\ n \in Nat \ {0} /\ n \in 1 .. n /\ line \in Seq(C)
      /\ joined \in Seq(Seq(C)) /\ Len(joined) = n - 1
  <2>1. ls \in Seq(Seq(C)) /\ Len(ls) > 0 /\ joined \in Seq(Seq(C)) /\ Len(joined) = n - 1
    BY DEF Cut
  <2>2. n \in Nat \ {0} /\ n \in 1 .. Len(ls)
    BY <2>1
  <2>3. line \in Seq(C)
    BY <2>1, <2>2, ElementOfSeq
  <2>4. QED
    BY <2>1, <2>2, <2>3
<1>2. longer \in Seq(C) /\ Len(longer) = Len(line) + 1 /\ longer = line \o <<c>> /\ Len(line) \in Nat
  BY <1>1, AppendProperties, AppendIsConcat
<1>3. /\ newls \in Seq(Seq(C)) /\ Len(newls) = n /\ newls[n] = longer
      /\ \A k \in 1 .. n : k # n => newls[k] = ls[k]
  <2> HIDE DEF longer
  <2>1. QED
    BY <1>1, <1>2, ExceptSeq
<1>4. Append(u, c) = head \o longer
  <2>1. head \in Seq(C)
    BY <1>1, FlattenType
  <2>2. u = head \o line
    BY DEF Cut
  <2>3. Append(u, c) = u \o <<c>>
    BY AppendIsConcat
  <2>4. <<c>> \in Seq(C)
    OBVIOUS
  <2>5. (head \o line) \o <<c>> = head \o (line \o <<c>>)
    <3> DEFINE one == <<c>>
    <3>1. head \in Seq(C) /\ line \in Seq(C) /\ one \in Seq(C)
      BY <1>1, <2>1, <2>4
    <3>2. PICK h, l, o : h = head /\ l = line /\ o = one
      OBVIOUS
    <3> HIDE DEF head, line, one
    <3>3. h \in Seq(C) /\ l \in Seq(C) /\ o \in Seq(C)
      BY <3>1, <3>2
    <3>4. (h \o l) \o o = h \o (l \o o)
      BY ONLY <3>3, SMTT(30)
    <3>5. QED
      BY <3>2, <3>4 DEF one
  <2>6. QED
    BY <2>2, <2>3, <2>5, <1>2
<1>5. \A k \in 1 .. n : Len(newls[k]) <= WIDTH - 1
  <2>1. \A k \in 1 .. n : Len(ls[k]) <= WIDTH - 1
    BY DEF Cut
  <2>2. Len(longer) <= WIDTH - 1
    BY <1>2, ScreenAssumption
  <2> HIDE DEF newls, longer
  <2>3. QED
    BY <1>3, <2>1, <2>2
<1>6. ASSUME NEW k \in 1 .. n - 1
      PROVE  newls[k] = ls[k]
  BY <1>1, <1>3
<1>7. QED
  <2>1. \A k \in 1 .. n - 1 : \/ joined[k] = ls[k] \o <<NewLine>>
                              \/ joined[k] = ls[k] /\ Len(ls[k]) = WIDTH - 1
    BY DEF Cut
  <2> HIDE DEF newls
  <2>2. Cut(C, newls, joined, Append(u, c))
    BY <1>1, <1>3, <1>4, <1>5, <1>6, <2>1 DEF Cut
  <2>3. QED
    BY <2>2 DEF newls

\* AddText adds a character.
LEMMA AddTextCuts ==
    ASSUME NEW C, NewLine \in C, NEW c \in C, NEW ls, NEW joined, NEW u \in Seq(C),
           Cut(C, ls, joined, u)
    PROVE  \E j : Cut(C, AddText(ls, c), j, Append(u, c))
<1> DEFINE n == Len(ls)
           line == ls[n]
<1>1. ls \in Seq(Seq(C)) /\ n \in Nat \ {0} /\ n \in 1 .. n /\ line \in Seq(C) /\ Last(ls) = line
  <2>1. ls \in Seq(Seq(C)) /\ Len(ls) > 0
    BY DEF Cut
  <2>2. n \in Nat \ {0} /\ n \in 1 .. Len(ls)
    BY <2>1
  <2>3. QED
    BY <2>1, <2>2, ElementOfSeq DEF Last
<1>2. <<>> \in Seq(C) /\ <<c>> \in Seq(C) /\ Append(u, c) = u \o <<c>> /\ Len(<<>>) = 0 /\ Len(<<c>>) = 1
  BY AppendIsConcat, EmptySeq
<1>3. Len(line) \in Nat /\ Len(line) <= WIDTH - 1 /\ 1 <= WIDTH - 1
  BY <1>1, ScreenAssumption DEF Cut
<1>4. CASE c = NewLine
  <2>1. AddText(ls, c) = Append(ls, <<>>)
    BY <1>4 DEF AddText
  <2>2. Cut(C, Append(ls, <<>>), Append(joined, line \o <<NewLine>>), (u \o <<NewLine>>) \o <<>>)
    <3> DEFINE end == <<NewLine>>
               last == <<>>
    <3>1. end \in {<<>>, <<NewLine>>} /\ end # <<>> /\ last \in Seq(C) /\ Len(last) <= WIDTH - 1
      BY <1>2, <1>3, ScreenAssumption
    <3> HIDE DEF end, last
    <3>2. Cut(C, Append(ls, last), Append(joined, ls[Len(ls)] \o end), (u \o end) \o last)
      BY <3>1, CutEnds
    <3>3. QED
      BY <3>2 DEF end, last
  <2>3. (u \o <<c>>) \o <<>> = Append(u, c)
    BY <1>2, ConcatProperties, ConcatEmptySeq
  <2>4. QED
    BY <2>1, <2>2, <2>3, <1>4
<1>5. CASE c # NewLine /\ Len(line) >= WIDTH - 1
  <2>1. AddText(ls, c) = Append(ls, <<c>>)
    <3> DEFINE broken == Append(ls, <<>>)
    <3>1. AddText(ls, c) = [broken EXCEPT ![Len(broken)] = Append(@, c)]
      BY <1>1, <1>5 DEF AddText
    <3>2. /\ broken \in Seq(Seq(C)) /\ Len(broken) = n + 1 /\ broken[n + 1] = <<>>
          /\ \A k \in 1 .. n : broken[k] = ls[k]
      BY <1>1, <1>2, AppendProperties
    <3>3. Append(broken[n + 1], c) = <<c>>
      <4>1. Append(<<>>, c) = <<c>>
        OBVIOUS
      <4> HIDE DEF broken
      <4>2. QED
        BY <3>2, <4>1
    <3>4. /\ Append(ls, <<c>>) \in Seq(Seq(C)) /\ Len(Append(ls, <<c>>)) = n + 1
          /\ Append(ls, <<c>>)[n + 1] = <<c>> /\ \A k \in 1 .. n : Append(ls, <<c>>)[k] = ls[k]
      BY <1>1, <1>2, AppendProperties
    <3> DEFINE changed == [broken EXCEPT ![n + 1] = <<c>>]
    <3>5. /\ changed \in Seq(Seq(C)) /\ Len(changed) = n + 1
          /\ \A k \in 1 .. n + 1 : changed[k] = IF k = n + 1 THEN <<c>> ELSE broken[k]
      <4> HIDE DEF broken
      <4>1. n + 1 \in 1 .. Len(broken)
        BY <1>1, <3>2
      <4>2. QED
        BY <1>2, <3>2, <4>1, ExceptSeq
    <3>6. changed = Append(ls, <<c>>)
      <4> DEFINE added == Append(ls, <<c>>)
      <4>1. \A k \in 1 .. n + 1 : changed[k] = added[k]
        <5> HIDE DEF broken, changed
        <5>1. \A k \in 1 .. n + 1 : k = n + 1 \/ k \in 1 .. n
          BY <1>1
        <5>2. QED
          BY <3>2, <3>4, <3>5, <5>1
      <4> HIDE DEF changed, added
      <4>2. QED
        BY <3>4, <3>5, <4>1, SeqEqual DEF added
    <3>7. [broken EXCEPT ![Len(broken)] = Append(@, c)] = changed
      BY <3>2, <3>3
    <3>8. QED
      BY <3>1, <3>6, <3>7
  <2>2. Len(line) = WIDTH - 1
    BY <1>3, <1>5, ScreenAssumption
  <2>3. Cut(C, Append(ls, <<c>>), Append(joined, line \o <<>>), (u \o <<>>) \o <<c>>)
    BY <1>2, <1>3, <2>2, CutEnds
  <2>4. (u \o <<>>) \o <<c>> = Append(u, c)
    BY <1>2, ConcatEmptySeq
  <2>5. QED
    BY <2>1, <2>3, <2>4
<1>6. CASE c # NewLine /\ Len(line) < WIDTH - 1
  <2>1. AddText(ls, c) = [ls EXCEPT ![Len(ls)] = Append(@, c)]
    <3>1. ~(c = NewLine \/ Len(Last(ls)) >= WIDTH - 1)
      BY <1>1, <1>3, <1>6, ScreenAssumption
    <3> HIDE DEF n, line
    <3>2. QED
      BY <3>1 DEF AddText
  <2>2. Len(ls[Len(ls)]) < WIDTH - 1
    BY <1>6
  <2>3. Cut(C, [ls EXCEPT ![Len(ls)] = Append(@, c)], joined, Append(u, c))
    BY <2>2, CutGrows
  <2>4. QED
    BY <2>1, <2>3
<1>7. QED
  BY <1>3, <1>4, <1>5, <1>6, ScreenAssumption

\* A new line.
LEMMA ShowsAppend ==
    ASSUME NEW C, NEW ls, NEW held, Shows(C, ls, held), Unset \notin Seq(C)
    PROVE  Shows(C, Append(ls, Unset), Append(held, <<>>))
<1> DEFINE L == Seq(C) \cup {Unset}
           n == Len(ls)
           newls == Append(ls, Unset)
           newheld == Append(held, <<>>)
<1>1. ls \in Seq(L) /\ held \in Seq(Seq(C)) /\ n \in Nat /\ Len(held) = n
  BY DEF Shows
<1>2. <<>> \in Seq(C) /\ Unset \in L /\ Unset # <<>>
  BY EmptySeq
<1>3. newls \in Seq(L) /\ Len(newls) = n + 1 /\ newls[n + 1] = Unset /\ \A k \in 1 .. n : newls[k] = ls[k]
  <2> HIDE DEF L
  <2>1. QED
    BY <1>1, <1>2, AppendProperties
<1>4. /\ newheld \in Seq(Seq(C)) /\ Len(newheld) = n + 1 /\ newheld[n + 1] = <<>>
      /\ \A k \in 1 .. n : newheld[k] = held[k]
  BY <1>1, <1>2, AppendProperties
<1>5. \A k \in 1 .. n + 1 : k \in 1 .. n \/ k = n + 1
  BY <1>1
<1>6. \A k \in 1 .. n : ls[k] # <<>> /\ held[k] = Written(ls[k])
  BY DEF Shows
<1>7. Written(Unset) = <<>>
  BY DEF Written
<1>8. \A k \in 1 .. n + 1 : newls[k] # <<>> /\ newheld[k] = Written(newls[k])
  <2> HIDE DEF newls, newheld
  <2>1. QED
    BY <1>2, <1>3, <1>4, <1>5, <1>6, <1>7
<1>9. QED
  <2> HIDE DEF newls, newheld
  <2>1. Shows(C, newls, newheld)
    BY <1>3, <1>4, <1>8 DEF Shows
  <2>2. QED
    BY <2>1 DEF newls, newheld

\* A line that is written to.
LEMMA ShowsExcept ==
    ASSUME NEW C, NEW ls, NEW held, Shows(C, ls, held), Unset \notin Seq(C),
           NEW m \in 1 .. Len(ls), NEW line \in Seq(C), line # <<>>
    PROVE  Shows(C, [ls EXCEPT ![m] = line], [held EXCEPT ![m] = line])
<1> DEFINE L == Seq(C) \cup {Unset}
           n == Len(ls)
           newls == [ls EXCEPT ![m] = line]
           newheld == [held EXCEPT ![m] = line]
<1>1. ls \in Seq(L) /\ held \in Seq(Seq(C)) /\ n \in Nat /\ Len(held) = n /\ line \in L
  BY DEF Shows
<1>2. newls \in Seq(L) /\ Len(newls) = n /\ \A k \in 1 .. n : newls[k] = IF k = m THEN line ELSE ls[k]
  <2> HIDE DEF L
  <2>1. QED
    BY <1>1, ExceptSeq
<1>3. /\ newheld \in Seq(Seq(C)) /\ Len(newheld) = n
      /\ \A k \in 1 .. n : newheld[k] = IF k = m THEN line ELSE held[k]
  BY <1>1, ExceptSeq
<1>4. \A k \in 1 .. n : ls[k] # <<>> /\ held[k] = Written(ls[k])
  BY DEF Shows
<1>5. Written(line) = line
  BY DEF Written
<1>6. \A k \in 1 .. n : newls[k] # <<>> /\ newheld[k] = Written(newls[k])
  <2> HIDE DEF newls, newheld
  <2>1. QED
    BY <1>2, <1>3, <1>4, <1>5
<1>7. QED
  <2> HIDE DEF newls, newheld
  <2>1. Shows(C, newls, newheld)
    BY <1>2, <1>3, <1>6 DEF Shows
  <2>2. QED
    BY <2>1 DEF newls, newheld

\* AddCharacter adds to what is written as AddText does.
LEMMA AddCharacterShows ==
    ASSUME NEW C, NewLine \in C, Unset \notin Seq(C), NEW c \in C, NEW ls, NEW held,
           Shows(C, ls, held), Len(held) > 0
    PROVE  Shows(C, AddCharacter(ls, c), AddText(held, c))
<1> DEFINE n == Len(ls)
           full == c = NewLine \/ Len(held[n]) >= WIDTH - 1
           broken == IF full THEN Append(ls, Unset) ELSE ls
           heldbroken == IF full THEN Append(held, <<>>) ELSE held
           m == Len(broken)
<1>1. n \in Nat \ {0} /\ n = Len(held) /\ n \in 1 .. n
  BY DEF Shows
<1>2. Last(held) = held[n] /\ Written(Last(ls)) = held[n]
  BY <1>1 DEF Shows, Last
<1>3. /\ AddCharacter(ls, c) = IF c = NewLine THEN broken
                               ELSE [broken EXCEPT ![Len(broken)] = Append(Written(@), c)]
      /\ AddText(held, c) = IF c = NewLine THEN heldbroken
                            ELSE [heldbroken EXCEPT ![Len(heldbroken)] = Append(@, c)]
  BY <1>2 DEF AddCharacter, AddText
<1>4. Shows(C, broken, heldbroken)
  BY ShowsAppend
<1>5. CASE c = NewLine
  BY <1>3, <1>4, <1>5
<1>6. CASE c # NewLine
  <2>1. Len(heldbroken) = m /\ m \in Nat /\ heldbroken \in Seq(Seq(C))
    <3> HIDE DEF broken, heldbroken
    <3>1. QED
      BY <1>4 DEF Shows
  <2>2. m \in 1 .. m
    <3>1. CASE full
      <4>1. held \in Seq(Seq(C)) /\ <<>> \in Seq(C)
        BY EmptySeq DEF Shows
      <4>2. Len(Append(held, <<>>)) = n + 1
        BY <1>1, <4>1, AppendProperties
      <4>3. QED
        BY <1>1, <2>1, <3>1, <4>2
    <3>2. CASE ~full
      BY <1>1, <3>2
    <3>3. QED
      BY <3>1, <3>2
  <2>3. heldbroken[m] = Written(broken[m]) /\ heldbroken[m] \in Seq(C)
    <3> HIDE DEF broken, heldbroken
    <3>1. heldbroken[m] = Written(broken[m])
      BY <1>4, <2>2 DEF Shows
    <3>2. heldbroken[m] \in Seq(C)
      BY <2>1, <2>2, ElementOfSeq
    <3>3. QED
      BY <3>1, <3>2
  <2> DEFINE line == Append(heldbroken[m], c)
  <2>4. line \in Seq(C) /\ line # <<>>
    <3>1. PICK l : l = heldbroken[m]
      OBVIOUS
    <3>2. l \in Seq(C)
      BY <2>3, <3>1
    <3>3. Append(l, c) \in Seq(C) /\ Append(l, c) # <<>>
      BY ONLY <3>2, c \in C, AppendProperties
    <3> HIDE DEF heldbroken, m
    <3>4. QED
      BY <3>1, <3>3
  <2>5. /\ AddCharacter(ls, c) = [broken EXCEPT ![m] = line]
        /\ AddText(held, c) = [heldbroken EXCEPT ![m] = line]
    <3> HIDE DEF broken, heldbroken
    <3>1. QED
      BY <1>3, <1>6, <2>1, <2>3
  <2>6. QED
    <3>1. PICK b, h, l, k : b = broken /\ h = heldbroken /\ l = line /\ k = m
      OBVIOUS
    <3> HIDE DEF broken, heldbroken, line, m
    <3>2. Shows(C, b, h) /\ k \in 1 .. Len(b) /\ l \in Seq(C) /\ l # <<>> /\ Unset \notin Seq(C)
      BY <1>4, <2>2, <2>4, <3>1 DEF m
    <3>3. Shows(C, [b EXCEPT ![k] = l], [h EXCEPT ![k] = l])
      BY ONLY <3>2, ShowsExcept
    <3>4. QED
      BY <2>5, <3>1, <3>3
<1>7. QED
  BY <1>5, <1>6

\* What is written to the lines ls is the text u, cut.
Cuts(C, ls, u) == \E held, joined : Shows(C, ls, held) /\ Cut(C, held, joined, u)

\* AddCharacter adds a character.
LEMMA AddCharacterCuts ==
    ASSUME NEW C, NewLine \in C, Unset \notin Seq(C), NEW c \in C, NEW ls, NEW u \in Seq(C),
           Cuts(C, ls, u)
    PROVE  Cuts(C, AddCharacter(ls, c), Append(u, c))
<1>1. PICK held, joined : Shows(C, ls, held) /\ Cut(C, held, joined, u)
  BY DEF Cuts
<1>2. \E j : Cut(C, AddText(held, c), j, Append(u, c))
  BY <1>1, AddTextCuts
<1>3. Len(held) > 0
  BY <1>1 DEF Cut
<1>4. Shows(C, AddCharacter(ls, c), AddText(held, c))
  BY <1>1, <1>3, AddCharacterShows
<1>5. QED
  BY <1>2, <1>4 DEF Cuts

\* The lines of the reader are the text, cut.
LEMMA SplitCuts ==
    ASSUME NEW C, NewLine \in C, Unset \notin Seq(C), NEW t \in Seq(C)
    PROVE  Cuts(C, Split(t), t)
<1> DEFINE m == Len(t)
           V == {ls \in Seq(Seq(C) \cup {Unset}) : \E u \in Seq(C) : Cuts(C, ls, u)}
           start == <<Unset>>
           step == [n \in Nat |-> [ls \in V |-> IF n \in 1 .. m THEN AddCharacter(ls, t[n]) ELSE ls]]
           Body(f) == [n \in 0 .. m |-> IF n = 0 THEN start ELSE AddCharacter(f[n - 1], t[n])]
           split[n \in 0 .. m] == IF n = 0 THEN <<Unset>> ELSE AddCharacter(split[n - 1], t[n])
<1>1. m \in Nat /\ \A n \in 1 .. m : t[n] \in C
  OBVIOUS
<1>2. Cuts(C, start, <<>>)
  <2> DEFINE held == <<<<>>>>
  <2>1. <<>> \in Seq(C) /\ <<>> \in Seq(Seq(C)) /\ Len(<<>>) = 0
    BY EmptySeq
  <2>2. held \in Seq(Seq(C)) /\ Len(held) = 1 /\ held[1] = <<>>
    BY <2>1
  <2>3. FlattenSeq(<<>>) = <<>>
    BY <2>1, FlattenType
  <2>4. <<>> \o <<>> = <<>>
    BY <2>1, ConcatEmptySeq
  <2>5. \A k \in 1 .. 1 : held[k] = <<>>
    BY <2>2
  <2>6. 0 <= WIDTH - 1
    BY ScreenAssumption
  <2>7. Cut(C, held, <<>>, <<>>)
    <3> HIDE DEF held
    <3>1. QED
      BY <2>1, <2>2, <2>3, <2>4, <2>5, <2>6 DEF Cut
  <2>8. Shows(C, start, held)
    <3>1. start \in Seq(Seq(C) \cup {Unset}) /\ Len(start) = 1 /\ start[1] = Unset
      OBVIOUS
    <3>2. Unset # <<>> /\ Written(Unset) = <<>>
      BY <2>1 DEF Written
    <3>3. \A k \in 1 .. 1 : k = 1
      OBVIOUS
    <3> HIDE DEF start, held
    <3>4. QED
      BY <2>2, <3>1, <3>2, <3>3 DEF Shows
  <2>9. QED
    <3> HIDE DEF start, held
    <3>1. QED
      BY <2>7, <2>8 DEF Cuts
<1>3. start \in V
  <2>1. <<>> \in Seq(C) /\ start \in Seq(Seq(C) \cup {Unset})
    BY EmptySeq
  <2> HIDE DEF start
  <2>2. QED
    BY <1>2, <2>1
<1>4. ASSUME NEW n \in 1 .. m, NEW ls \in V
      PROVE  AddCharacter(ls, t[n]) \in V
  <2>1. PICK u \in Seq(C) : Cuts(C, ls, u)
    OBVIOUS
  <2>2. t[n] \in C
    BY <1>1
  <2>3. Cuts(C, AddCharacter(ls, t[n]), Append(u, t[n]))
    BY <2>1, <2>2, AddCharacterCuts
  <2>4. AddCharacter(ls, t[n]) \in Seq(Seq(C) \cup {Unset})
    BY <2>3 DEF Cuts, Shows
  <2>5. Append(u, t[n]) \in Seq(C)
    BY <2>2, AppendProperties
  <2>6. QED
    BY <2>3, <2>4, <2>5
<1>5. PICK f \in [0 .. m -> V] : Follows(f, m, start, step)
  <2>1. step \in [Nat -> [V -> V]]
    <3> HIDE DEF V
    <3>1. QED
      BY <1>4
  <2> HIDE DEF V, start, step, m
  <2>2. QED
    BY <1>1, <1>3, <2>1, Recursion
<1>6. /\ f[0] = start
      /\ \A n \in 1 .. m : f[n] = AddCharacter(f[n - 1], t[n]) /\ f[n - 1] \in V
  <2>1. ASSUME NEW n \in 1 .. m
        PROVE  f[n] = AddCharacter(f[n - 1], t[n]) /\ f[n - 1] \in V
    <3>1. n - 1 \in 0 .. m /\ n \in Nat
      BY <1>1
    <3> HIDE DEF V
    <3>2. f[n - 1] \in V
      BY <1>5, <3>1
    <3>3. step[n][f[n - 1]] = AddCharacter(f[n - 1], t[n])
      BY <3>1, <3>2
    <3>4. f[n] = step[n][f[n - 1]]
      <4> HIDE DEF step
      <4>1. QED
        BY <1>5 DEF Follows
    <3>5. QED
      BY <3>2, <3>3, <3>4
  <2> HIDE DEF V, step, start
  <2>2. QED
    BY <1>5, <2>1 DEF Follows
<1>7. split = f
  <2>1. f = Body(f)
    <3>1. f = [n \in 0 .. m |-> f[n]]
      <4> HIDE DEF V
      <4>1. QED
        BY <1>5
    <3>2. \A n \in 0 .. m : n = 0 \/ n \in 1 .. m
      BY <1>1
    <3>3. \A n \in 0 .. m : f[n] = IF n = 0 THEN start ELSE AddCharacter(f[n - 1], t[n])
      <4> HIDE DEF V, start
      <4>1. QED
        BY <1>6, <3>2
    <3>4. QED
      <4> HIDE DEF V, start
      <4>1. QED
        BY <3>1, <3>3
  <2>2. ASSUME NEW g, g = Body(g)
        PROVE  g = f
    <3> HIDE DEF start, V
    <3>1. g = [n \in 0 .. m |-> g[n]] /\ f = [n \in 0 .. m |-> f[n]]
      BY <2>2, <1>5
    <3>2. g[0] = start
      BY <2>2, <1>1
    <3>3. \A n \in 1 .. m : g[n] = AddCharacter(g[n - 1], t[n])
      <4>1. \A n \in 1 .. m : n \in 0 .. m /\ n # 0
        BY <1>1
      <4>2. QED
        BY <2>2, <4>1
    <3>4. \A n \in 1 .. m : g[n - 1] = f[n - 1] => g[n] = f[n]
      BY <1>6, <3>3
    <3>5. Alike(g, f, m)
      <4> HIDE DEF Body, m
      <4>1. QED
        BY <1>6, <3>1, <3>2, <3>4 DEF Alike
    <3> HIDE DEF Body, m
    <3>6. QED
      BY <1>1, <3>5, Agreement
  <2>3. split = CHOOSE g : g = Body(g)
    OBVIOUS
  <2> HIDE DEF Body, split
  <2>4. QED
    BY <2>1, <2>2, <2>3
<1> DEFINE P == {n \in Nat : n \in 0 .. m => Cuts(C, f[n], SubSeq(t, 1, n))}
<1>8. \A n \in Nat : n \in P
  <2>1. 0 \in P
    <3>1. SubSeq(t, 1, 0) = <<>>
      BY SubSeqEmpty
    <3>2. QED
      BY <1>2, <1>6, <3>1
  <2>2. ASSUME NEW n \in Nat, n \in P
        PROVE  n + 1 \in P
    <3>1. SUFFICES ASSUME n + 1 \in 0 .. m
                   PROVE  Cuts(C, f[n + 1], SubSeq(t, 1, n + 1))
      OBVIOUS
    <3>2. n \in 0 .. m /\ n + 1 \in 1 .. m /\ (n + 1) - 1 = n /\ 1 \in 1 .. m
      BY <1>1, <3>1
    <3>3. Cuts(C, f[n], SubSeq(t, 1, n))
      BY <2>2, <3>2
    <3>4. f[n + 1] = AddCharacter(f[n], t[n + 1])
      BY <1>6, <3>2
    <3>5. SubSeq(t, 1, n) \in Seq(C) /\ t[n + 1] \in C
      BY <1>1, <3>2, SubSeqProperties
    <3>6. SubSeq(t, 1, n + 1) = Append(SubSeq(t, 1, n), t[n + 1])
      <4>1. SubSeq(t, 1, n + 1) = SubSeq(t, 1, n) \o <<t[n + 1]>>
        BY <3>2, SubSeqRecursiveSecond
      <4>2. QED
        BY <3>5, <4>1, AppendIsConcat
    <3>7. Cuts(C, AddCharacter(f[n], t[n + 1]), Append(SubSeq(t, 1, n), t[n + 1]))
      BY <3>3, <3>5, AddCharacterCuts
    <3>8. QED
      BY <3>4, <3>6, <3>7
  <2>3. QED
    <3> HIDE DEF P
    <3>1. QED
      BY <2>1, <2>2, Induction
<1>9. Cuts(C, f[m], t)
  <2>1. SubSeq(t, 1, m) = t
    BY SubSeqFull
  <2>2. m \in Nat /\ m \in 0 .. m
    BY <1>1
  <2>3. QED
    BY <1>8, <2>1, <2>2
<1>10. Split(t) = split[m]
  BY DEF Split
<1>11. QED
  BY <1>7, <1>9, <1>10

-----------------------------------------------------------------------------
(* The inductive invariant *)

\* The ranges of the variables.
TypeOK ==
    /\ current_tab \in Tabs
    /\ since \in 0 .. Timeout
    /\ onscreen \in Nat
    /\ mouse \in BOOLEAN /\ old_mask \in BOOLEAN /\ echo \in BOOLEAN /\ cursor \in BOOLEAN
    /\ Len(lines) \in Nat
    /\ top_line \in Int

\* But for the dialogs that take the time early, both clocks of a result go
\* together.
Timed == stage \in Results => dialog \in PathDialogs \/ onscreen = since

\* The terminal in the menu and in each stage of a dialog.
Terminal ==
    /\ Menu => stage = "menu" /\ mouse = TRUE /\ echo = FALSE
    /\ dialog \notin {"none", "down"} => old_mask = TRUE
    /\ Up => \/ echo = FALSE
             \/ stage = "input"
             \/ dialog = "write" /\ stage = "no_directory"
    /\ Up => \/ cursor = FALSE
             \/ Menu
             \/ dialog \in Wordless
             \/ stage = "input"
             \/ dialog = "write" /\ stage # "result"

\* The reader of a file has the lines of its text.
Reading == stage = "view" /\ dialog = "read" => text \in Texts /\ lines = Split(text)

\* The inductive invariant.
UInv == TypeOK /\ Terminal /\ WithinPages /\ Timed /\ Reading

\* The program starts in the menu.
LEMMA InitUInv == Init => UInv
<1> SUFFICES ASSUME Init
             PROVE  UInv
  OBVIOUS
<1>1. Len(<<>>) = 0
  OBVIOUS
<1>2. TypeOK
  <2>1. /\ mouse \in BOOLEAN /\ old_mask \in BOOLEAN /\ echo \in BOOLEAN /\ cursor \in BOOLEAN
    BY DEF Init
  <2>2. /\ current_tab \in Tabs /\ since \in 0 .. Timeout /\ onscreen \in Nat
        /\ Len(lines) \in Nat /\ top_line \in Int
    BY <1>1, ScreenAssumption DEF Init, Tabs, TAB_COUNT
  <2>3. QED
    BY <2>1, <2>2 DEF TypeOK
<1>3. Terminal
  BY DEF Init, Terminal
<1>4. QED
  BY <1>2, <1>3 DEF Init, UInv, WithinPages, Timed, Reading, Results

\* The lines of a file hold its text, cut.
LEMMA TextCuts ==
    ASSUME NEW t \in Texts
    PROVE  Cuts(Range(t) \cup {NewLine}, Split(t), t)
<1> DEFINE C == Range(t) \cup {NewLine}
<1>1. t \in Seq(Range(t)) /\ Unset \notin Seq(C)
  BY TextAssumption
<1>2. t \in Seq(C)
  BY <1>1, SeqMonotonic
<1>3. NewLine \in C
  OBVIOUS
<1> HIDE DEF C
<1>4. Cuts(C, Split(t), t)
  BY <1>1, <1>2, <1>3, SplitCuts
<1>5. QED
  BY <1>4 DEF C

\* Split makes lines.
LEMMA SplitType ==
    ASSUME NEW t \in Texts
    PROVE  Len(Split(t)) \in Nat \ {0}
<1> DEFINE C == Range(t) \cup {NewLine}
<1>1. Cuts(C, Split(t), t)
  BY TextCuts
<1> HIDE DEF C
<1>2. PICK held, joined : Shows(C, Split(t), held) /\ Cut(C, held, joined, t)
  BY <1>1 DEF Cuts
<1>3. QED
  BY <1>2 DEF Cut, Shows

\* Nothing is lost between the lines.
LEMMA LinesFollow == TypeOK /\ Reading => LinesHoldText
<1> SUFFICES ASSUME text \in Texts, lines = Split(text)
             PROVE  /\ \A k \in 1 .. line_count : lines[k] # <<>> /\ Len(Written(lines[k])) <= WIDTH
                    /\ \E cut \in [1 .. line_count - 1 -> {<<>>, <<NewLine>>}] :
                          /\ text = FlattenSeq([k \in 1 .. line_count |->
                                        IF k = line_count THEN Written(lines[k])
                                        ELSE Written(lines[k]) \o cut[k]])
                          /\ \A k \in 1 .. line_count - 1 :
                                cut[k] = <<>> => Len(Written(lines[k])) = WIDTH - 1
  BY DEF Reading, LinesHoldText
<1> DEFINE C == Range(text) \cup {NewLine}
           n == line_count
<1>0. Cuts(C, lines, text)
  BY TextCuts
<1> HIDE DEF C
<1>1. PICK held, joined : Shows(C, lines, held) /\ Cut(C, held, joined, text)
  BY <1>0 DEF Cuts
<1> DEFINE last == held[n]
<1>2. /\ held \in Seq(Seq(C)) /\ n \in Nat \ {0} /\ n = Len(held) /\ last \in Seq(C)
      /\ joined \in Seq(Seq(C)) /\ Len(joined) = n - 1
  <2>1. held \in Seq(Seq(C)) /\ Len(held) > 0 /\ joined \in Seq(Seq(C)) /\ Len(joined) = Len(held) - 1
    BY <1>1 DEF Cut
  <2>2. n = Len(held) /\ n \in Nat \ {0} /\ n \in 1 .. Len(held)
    BY <1>1, <2>1 DEF line_count, Shows
  <2>3. last \in Seq(C)
    BY <2>1, <2>2, ElementOfSeq
  <2>4. QED
    BY <2>1, <2>2, <2>3
<1>3. \A k \in 1 .. n : Len(held[k]) \in Nat /\ Len(held[k]) <= WIDTH - 1 /\ held[k] \in Seq(C)
  BY <1>1, <1>2 DEF Cut
<1>10. \A k \in 1 .. n : lines[k] # <<>> /\ Written(lines[k]) = held[k]
  BY <1>1 DEF Shows, line_count
<1> DEFINE cut == [k \in 1 .. n - 1 |-> IF joined[k] = held[k] \o <<NewLine>> THEN <<NewLine>> ELSE <<>>]
           parts == [k \in 1 .. n |-> IF k = n THEN held[k] ELSE held[k] \o cut[k]]
<1>4. ASSUME NEW k \in 1 .. n - 1
      PROVE  /\ joined[k] = held[k] \o cut[k]
             /\ cut[k] = <<>> => Len(held[k]) = WIDTH - 1
  <2>1. \/ joined[k] = held[k] \o <<NewLine>>
        \/ joined[k] = held[k] /\ Len(held[k]) = WIDTH - 1
    BY <1>1, <1>2 DEF Cut
  <2>2. held[k] \o <<>> = held[k]
    <3>1. k \in 1 .. n
      BY <1>2
    <3>2. held[k] \in Seq(C)
      BY <1>3, <3>1
    <3>3. QED
      BY <3>2, ConcatEmptySeq
  <2>3. <<NewLine>> # <<>>
    OBVIOUS
  <2>4. CASE joined[k] = held[k] \o <<NewLine>>
    BY <2>3, <2>4
  <2>5. CASE joined[k] # held[k] \o <<NewLine>>
    <3>1. cut[k] = <<>> /\ joined[k] = held[k] /\ Len(held[k]) = WIDTH - 1
      BY <2>1, <2>5
    <3>2. QED
      BY <3>1, <2>2
  <2>6. QED
    BY <2>4, <2>5
<1>5. cut \in [1 .. n - 1 -> {<<>>, <<NewLine>>}]
  OBVIOUS
<1>6. text = FlattenSeq(parts)
  <2>1. FlattenSeq(Append(joined, last)) = FlattenSeq(joined) \o last
    <3> HIDE DEF last
    <3>1. QED
      BY <1>2, FlattenAppend
  <2>2. text = FlattenSeq(joined) \o last
    BY <1>1, <1>2 DEF Cut
  <2> DEFINE all == Append(joined, last)
  <2>3. /\ all \in Seq(Seq(C)) /\ Len(all) = n /\ all[n] = last
        /\ \A k \in 1 .. n - 1 : all[k] = joined[k]
    <3> DEFINE m == Len(joined)
    <3>1. m \in Nat /\ m = n - 1 /\ m + 1 = n
      BY <1>2
    <3>2. /\ all \in Seq(Seq(C)) /\ Len(all) = m + 1 /\ all[m + 1] = last
          /\ \A k \in 1 .. m : all[k] = joined[k]
      <4> HIDE DEF last
      <4>1. joined \in Seq(Seq(C)) /\ last \in Seq(C)
        BY <1>2
      <4>2. QED
        BY ONLY <4>1, AppendProperties
    <3> HIDE DEF m, all, last
    <3>3. QED
      BY <3>1, <3>2
  <2>4. \A k \in 1 .. n : all[k] = parts[k]
    <3>1. \A k \in 1 .. n : k = n \/ k \in 1 .. n - 1
      BY <1>2
    <3> HIDE DEF all, cut
    <3>2. \A k \in 1 .. n - 1 : k # n /\ k \in 1 .. n
      BY <1>2
    <3>3. \A k \in 1 .. n - 1 : parts[k] = held[k] \o cut[k]
      BY <3>2
    <3>4. parts[n] = last
      BY <1>2
    <3> HIDE DEF parts, last
    <3>5. QED
      BY <1>4, <2>3, <3>1, <3>3, <3>4
  <2>5. all = parts
    <3>1. all = [k \in 1 .. n |-> all[k]]
      <4> HIDE DEF all
      <4>1. QED
        BY <2>3
    <3>2. parts = [k \in 1 .. n |-> parts[k]]
      OBVIOUS
    <3> HIDE DEF all, parts
    <3>3. QED
      BY <2>4, <3>1, <3>2
  <2>6. QED
    BY <2>1, <2>2, <2>5
<1>7. \A k \in 1 .. n : Len(held[k]) <= WIDTH
  BY <1>3, ScreenAssumption
<1>8. \A k \in 1 .. n - 1 : k \in 1 .. n
  BY <1>2
<1>9. QED
  <2>1. parts = [k \in 1 .. n |-> IF k = n THEN Written(lines[k]) ELSE Written(lines[k]) \o cut[k]]
    <3> HIDE DEF cut
    <3>1. QED
      BY <1>10
  <2>2. \A k \in 1 .. n - 1 : cut[k] = <<>> => Len(Written(lines[k])) = WIDTH - 1
    <3> HIDE DEF cut
    <3>1. QED
      BY <1>4, <1>8, <1>10
  <2>3. \A k \in 1 .. n : lines[k] # <<>> /\ Len(Written(lines[k])) <= WIDTH
    BY <1>7, <1>10
  <2> HIDE DEF cut, parts
  <2>4. text = FlattenSeq([k \in 1 .. n |-> IF k = n THEN Written(lines[k])
                                           ELSE Written(lines[k]) \o cut[k]])
    BY <1>6, <2>1
  <2> HIDE DEF n
  <2>5. QED
    BY <1>5, <2>2, <2>3, <2>4 DEF n

-----------------------------------------------------------------------------
(* Every step keeps it *)

\* The zones are those of dialogs.
LEMMA ZoneDialogs ==
    \A t \in Tabs : \A z \in Zones(t) : z.dialog \notin {"none", "down"}
  BY DEF Tabs, TAB_COUNT, Zones, FilesZones, NetworkZones, ToolsZones, Zone

\* The numbers of the tabs are kept by the arrow keys.
LEMMA KeyUInv ==
    ASSUME UInv, Key
    PROVE  UInv'
<1>1. current_tab' \in Tabs
  BY DEF UInv, TypeOK, Key, SwitchTab, Tabs, TAB_COUNT
<1>2. UNCHANGED <<dialog, stage, since, onscreen, terminal, reader>>
  BY DEF Key, SwitchTab
<1>3. QED
  BY <1>1, <1>2 DEF UInv, TypeOK, Terminal, Up, Menu, WithinPages, line_count, Timed,
                    Reading, reader, terminal

\* A click on the bar.
LEMMA ClickTabUInv ==
    ASSUME UInv, NEW x, ClickTab(x)
    PROVE  UInv'
<1>1. current_tab' \in Tabs
  BY DEF ClickTab, SwitchTab
<1>2. UNCHANGED <<dialog, stage, since, onscreen, terminal, reader>>
  BY DEF ClickTab, SwitchTab
<1>3. QED
  BY <1>1, <1>2 DEF UInv, TypeOK, Terminal, Up, Menu, WithinPages, line_count, Timed,
                    Reading, reader, terminal

\* What every return has in common, and where one leaves the cursor or the
\* echo as it is.
LEMMA ReturnFacts ==
    ASSUME Counted \/ Answered \/ PrintReturn \/ ReadReturn
    PROVE  /\ dialog \notin {"none", "down"}
           /\ stage \in Messages \cup Results \cup {"view"}
           /\ mouse' = old_mask /\ Back
           /\ \/ echo' = FALSE
              \/ echo' = echo /\ ~(dialog = "write" /\ stage = "no_directory")
           /\ \/ cursor' = FALSE
              \/ cursor' = cursor /\ (dialog # "write" \/ stage \in Results)
<1>1. CASE Counted
  BY <1>1 DEF Counted, CreateFileReturn, DeleteFileReturn, CreateDirReturn, DeleteDirReturn,
              WriteReturn, SendReturn, RequestsReturn, CheckReturn, DefragmentReturn,
              PlainReturn, MouseBack, Results
<1>2. CASE PrintReturn \/ ReadNoDirectory \/ ReadNoFile \/ ReadNotFile \/ ReadReturn
  BY <1>2 DEF PrintReturn, ReadNoDirectory, ReadNoFile, ReadNotFile, ReadReturn, PlainReturn,
              MouseBack, Messages
<1>3. CASE WriteNoDirectory \/ WriteNoFile \/ WriteNotFile \/ WriteNoBlock
  BY <1>3 DEF WriteNoDirectory, WriteNoFile, WriteNotFile, WriteNoBlock, MouseBack, Typed, Messages
<1>4. QED
  BY <1>1, <1>2, <1>3 DEF Answered

\* What leads back to the menu.
LEMMA ReturnUInv ==
    ASSUME UInv, Counted \/ Answered \/ PrintReturn \/ ReadReturn
    PROVE  UInv'
<1>1. /\ dialog \notin {"none", "down"}
      /\ stage \in Messages \cup Results \cup {"view"}
      /\ mouse' = old_mask /\ Back
      /\ \/ echo' = FALSE
         \/ echo' = echo /\ ~(dialog = "write" /\ stage = "no_directory")
      /\ (cursor' = FALSE \/ cursor' = cursor)
  BY ReturnFacts
<1>2. /\ dialog' = "none" /\ stage' = "menu" /\ lines' = <<>> /\ top_line' = 0
      /\ onscreen' = 0 /\ since' = 0 /\ current_tab' = current_tab /\ old_mask' = FALSE
  BY <1>1 DEF Back, Stamp
<1>3. Len(<<>>) = 0
  OBVIOUS
<1>4. mouse' = TRUE
  BY <1>1 DEF UInv, Terminal, TypeOK
<1>5. echo' = FALSE
  <2>1. dialog # "down" /\ stage # "input"
    BY <1>1 DEF Messages, Results
  <2>2. CASE echo' = echo /\ ~(dialog = "write" /\ stage = "no_directory")
    BY <2>1, <2>2 DEF UInv, Terminal, TypeOK, Up
  <2>3. QED
    BY <1>1, <2>2
<1>6. cursor' \in BOOLEAN
  BY <1>1 DEF UInv, TypeOK
<1>7. TypeOK'
  <2>1. current_tab' \in Tabs /\ 0 \in 0 .. Timeout
    BY <1>2, ScreenAssumption DEF UInv, TypeOK
  <2>2. mouse' \in BOOLEAN /\ old_mask' \in BOOLEAN /\ echo' \in BOOLEAN
    BY <1>2, <1>4, <1>5
  <2>3. QED
    BY <1>2, <1>3, <1>6, <2>1, <2>2 DEF TypeOK
<1>8. Terminal'
  BY <1>2, <1>4, <1>5 DEF Terminal, Menu
<1>9. QED
  BY <1>2, <1>7, <1>8 DEF UInv, WithinPages, Timed, Reading, Results

\* A click on a button.
LEMMA ClickUInv ==
    ASSUME UInv, NEW x, NEW y, Click(x, y)
    PROVE  UInv'
<1>1. PICK z \in Zones(current_tab) : Opens(z.dialog)
  BY DEF Click
<1>2. z.dialog \notin {"none", "down"}
  BY ZoneDialogs DEF UInv, TypeOK
<1>3. /\ dialog' = z.dialog /\ mouse' = FALSE /\ old_mask' = mouse
      /\ \/ dialog' \in Wordless /\ stage' = "work" /\ echo' = echo /\ cursor' = cursor
         \/ stage' = "input" /\ echo' = TRUE /\ cursor' = TRUE
      /\ onscreen' = 0 /\ since' = 0 /\ UNCHANGED <<current_tab, lines, top_line, text>>
  BY <1>1 DEF Opens, Stamp, reader
<1>4. Menu /\ mouse = TRUE /\ echo = FALSE /\ cursor \in BOOLEAN
  BY DEF Click, UInv, Terminal, TypeOK
<1>5. TypeOK'
  <2>1. lines' = lines /\ top_line' = top_line /\ current_tab' = current_tab /\ TypeOK
    BY <1>3 DEF UInv
  <2>2. 0 \in 0 .. Timeout
    BY ScreenAssumption
  <2>3. /\ mouse' \in BOOLEAN /\ old_mask' \in BOOLEAN
        /\ echo' \in BOOLEAN /\ cursor' \in BOOLEAN
    BY <1>3, <1>4
  <2>4. QED
    BY <1>3, <2>1, <2>2, <2>3 DEF TypeOK
<1>6. Terminal'
  <2>1. old_mask' = TRUE /\ ~Menu'
    BY <1>2, <1>3, <1>4 DEF Menu
  <2>2. CASE stage' = "input"
    BY <2>1, <2>2 DEF Terminal
  <2>3. CASE dialog' \in Wordless /\ echo' = echo
    BY <1>4, <2>1, <2>3 DEF Terminal
  <2>4. QED
    BY <1>3, <2>2, <2>3
<1>7. stage' \notin Results \cup {"view"}
  BY <1>3 DEF Results
<1>8. QED
  BY <1>5, <1>6, <1>7 DEF UInv, WithinPages, Timed, Reading

\* The stages of a dialog before the reader, and time.
LEMMA StageUInv ==
    ASSUME UInv,
           PathDone \/ SendStart \/ WriteStart \/ WriteDone \/ LookupFails \/ WorkDone \/ Tick
    PROVE  UInv'
<1>1. UNCHANGED <<current_tab, dialog, mouse, old_mask, text, lines, top_line>>
  BY DEF PathDone, SendStart, WriteStart, WriteDone, LookupFails, WorkDone, Tick, Stage,
         terminal, reader
<1>2. stage' # "view" /\ stage # "menu" /\ stage' # "menu"
  BY DEF PathDone, SendStart, WriteStart, WriteDone, LookupFails, WorkDone, Tick, Stage, Results
<1>3. since' \in 0 .. Timeout /\ onscreen' \in Nat
  <2>1. since \in 0 .. Timeout /\ onscreen \in Nat /\ 0 \in 0 .. Timeout /\ Timeout \in Nat
    BY ScreenAssumption DEF UInv, TypeOK
  <2>2. CASE Tick
    BY <2>1, <2>2 DEF Tick
  <2>3. CASE ~Tick
    <3>1. since' \in {since, 0} /\ onscreen' \in {onscreen, 0}
      BY <2>3 DEF PathDone, SendStart, WriteStart, WriteDone, LookupFails, WorkDone, Stamp
    <3>2. QED
      BY <2>1, <3>1
  <2>4. QED
    BY <2>2, <2>3
<1>4. Timed'
  <2>1. CASE Tick
    <3>1. CASE stage \in Results
      <4>1. dialog \in PathDialogs \/ onscreen = since
        BY <3>1 DEF UInv, Timed
      <4>2. /\ since' = IF since < Timeout THEN since + 1 ELSE since
            /\ onscreen' = IF onscreen < Timeout THEN onscreen + 1 ELSE onscreen
        BY <2>1, <3>1 DEF Tick
      <4>3. QED
        BY <1>1, <4>1, <4>2 DEF Timed
    <3>2. CASE stage \notin Results
      BY <2>1, <3>2 DEF Timed, Tick
    <3>3. QED
      BY <3>1, <3>2
  <2>2. CASE PathDone
    BY <2>2 DEF PathDone, Timed, Stage
  <2>3. CASE SendStart \/ LookupFails
    BY <2>3 DEF SendStart, LookupFails, Timed, Stage, Results
  <2>4. CASE WriteStart
    BY <2>4 DEF WriteStart, Timed, Stage, Stamp, Results
  <2>5. CASE WriteDone \/ WorkDone
    BY <2>5 DEF WriteDone, WorkDone, Timed, Stamp
  <2>6. QED
    BY <2>1, <2>2, <2>3, <2>4, <2>5
<1>5. TypeOK'
  <2>1. echo' \in {echo, FALSE} /\ cursor' \in {cursor, FALSE}
    BY DEF PathDone, SendStart, WriteStart, WriteDone, LookupFails, WorkDone, Tick, Typed, terminal
  <2>2. echo' \in BOOLEAN /\ cursor' \in BOOLEAN
    BY <2>1 DEF UInv, TypeOK
  <2>3. QED
    BY <1>1, <1>3, <2>2 DEF UInv, TypeOK
<1>6. Terminal'
  <2>1. ~Menu /\ (dialog \notin {"none", "down"} => old_mask = TRUE)
    BY <1>2 DEF UInv, Terminal
  <2>2. CASE echo' = FALSE /\ cursor' = FALSE
    BY <1>1, <2>1, <2>2 DEF Terminal, Menu
  <2>3. CASE WriteStart
    <3>1. /\ dialog = "write" /\ stage' # "result" /\ cursor' = cursor
          /\ (echo' = FALSE \/ stage' = "no_directory")
      BY <2>3 DEF WriteStart, Stage
    <3>2. QED
      BY <1>1, <2>1, <3>1 DEF Terminal, Menu
  <2>4. CASE WorkDone
    <3>1. echo' = echo /\ cursor' = cursor /\ stage = "work" /\ stage' = "result" /\ dialog # "write"
      BY <2>4 DEF WorkDone, Stage
    <3>2. Up => echo = FALSE /\ (cursor = FALSE \/ dialog \in Wordless)
      BY <2>1, <3>1 DEF UInv, Terminal
    <3>3. QED
      BY <1>1, <2>1, <3>1, <3>2 DEF Terminal, Menu, Up
  <2>5. CASE Tick
    <3>1. echo' = echo /\ cursor' = cursor /\ stage' = stage
      BY <2>5 DEF Tick, terminal
    <3>2. QED
      BY <1>1, <3>1 DEF UInv, Terminal, Menu, Up
  <2>6. QED
    BY <2>2, <2>3, <2>4, <2>5 DEF PathDone, SendStart, WriteDone, LookupFails, Typed
<1>7. QED
  BY <1>2, <1>4, <1>5, <1>6 DEF UInv, WithinPages, Reading

\* What the reader is opened with.
LEMMA OpenUInv ==
    ASSUME UInv, (\E t \in Texts : ReadStart(t)) \/ (\E n \in 1 .. MaxEntries : PrintStart(n))
    PROVE  UInv'
<1>1. /\ UNCHANGED <<current_tab, dialog, mouse, old_mask, since, onscreen>>
      /\ stage = "input" /\ stage' = "view" /\ top_line' = 0 /\ echo' = FALSE /\ cursor' = FALSE
  BY DEF ReadStart, PrintStart, Stage, Typed
<1>2. Len(lines') \in Nat \ {0} /\ Reading'
  <2>1. CASE \E t \in Texts : ReadStart(t)
    <3>1. PICK t \in Texts : ReadStart(t)
      BY <2>1
    <3>2. text' = t /\ lines' = Split(t)
      BY <3>1 DEF ReadStart
    <3>3. QED
      BY <3>2, SplitType DEF Reading
  <2>2. CASE \E n \in 1 .. MaxEntries : PrintStart(n)
    <3>1. PICK n \in 1 .. MaxEntries : PrintStart(n)
      BY <2>2
    <3>2. dialog' # "read" /\ lines' = [k \in 1 .. n |-> <<k>>]
      BY <3>1 DEF PrintStart, Stage
    <3>3. n \in Nat \ {0}
      OBVIOUS
    <3>4. Len([k \in 1 .. n |-> <<k>>]) = n
      BY <3>3
    <3>5. QED
      BY <3>2, <3>3, <3>4 DEF Reading
  <2>3. QED
    BY <2>1, <2>2
<1>3. TypeOK'
  <2>1. echo' \in BOOLEAN /\ cursor' \in BOOLEAN
    BY <1>1
  <2>2. QED
    BY <1>1, <1>2, <2>1 DEF UInv, TypeOK
<1>4. WithinPages'
  BY <1>1, <1>2, ScreenAssumption DEF WithinPages, line_count
<1>5. Terminal'
  BY <1>1 DEF UInv, Terminal, Menu
<1>6. QED
  BY <1>1, <1>2, <1>3, <1>4, <1>5 DEF UInv, Timed, Results

\* The pages and lines of the reader.
LEMMA ScrollUInv ==
    ASSUME UInv, KeyUp \/ KeyDown \/ PageUp \/ PageDown \/ Home \/ End
    PROVE  UInv'
<1>1. PICK top \in Int : Scroll(top) /\ WithinPages'
  <2> DEFINE Near(top) == \/ top \in 0 .. line_count - Page
                          \/ line_count < Page /\ top \in line_count - Page .. 0
  <2>1. line_count \in Nat /\ top_line \in Int /\ Page \in Nat \ {0}
    BY ScreenAssumption DEF UInv, TypeOK, line_count
  <2>2. stage = "view" /\ Near(top_line)
    BY DEF UInv, WithinPages, KeyUp, KeyDown, PageUp, PageDown, Home, End, Scroll
  <2>3. PICK top \in Int : Scroll(top) /\ Near(top)
    <3>1. CASE KeyUp
      BY <2>1, <2>2, <3>1 DEF KeyUp
    <3>2. CASE KeyDown
      BY <2>1, <2>2, <3>2 DEF KeyDown
    <3>3. CASE PageUp
      BY <2>1, <2>2, <3>3 DEF PageUp
    <3>4. CASE PageDown
      BY <2>1, <2>2, <3>4 DEF PageDown
    <3>5. CASE Home
      BY <2>1, <2>2, <3>5 DEF Home
    <3>6. CASE End
      BY <2>1, <2>2, <3>6 DEF End
    <3>7. QED
      BY <3>1, <3>2, <3>3, <3>4, <3>5, <3>6
  <2>4. top_line' = top /\ lines' = lines
    BY <2>3 DEF Scroll
  <2>5. QED
    BY <2>3, <2>4 DEF WithinPages, line_count
<1>2. /\ top_line' = top /\ UNCHANGED <<current_tab, stage, since, onscreen, terminal, text, lines>>
      /\ dialog' = dialog \/ dialog' = "down"
      /\ stage = "view"
  BY <1>1 DEF Scroll
<1>3. TypeOK'
  BY <1>2 DEF UInv, TypeOK, terminal
<1>4. Terminal' /\ Timed' /\ Reading'
  <2>1. Terminal'
    BY <1>2 DEF UInv, Terminal, Up, Menu, terminal
  <2>2. Timed' /\ Reading'
    BY <1>2 DEF UInv, Timed, Reading, Results
  <2>3. QED
    BY <2>1, <2>2
<1>5. QED
  BY <1>1, <1>3, <1>4 DEF UInv

\* Every step keeps the invariant.
LEMMA NextUInv == UInv /\ [Next]_vars => UInv'
<1> SUFFICES ASSUME UInv, [Next]_vars
             PROVE  UInv'
  OBVIOUS
<1>1. CASE Key
  BY <1>1, KeyUInv
<1>2. CASE Quit
  <2>1. /\ dialog' = "down" /\ stage = "menu" /\ stage' = stage
        /\ UNCHANGED <<current_tab, since, onscreen, terminal, reader>>
    BY <1>2 DEF Quit, UInv, Terminal
  <2>2. TypeOK' /\ WithinPages' /\ Timed' /\ Reading'
    BY <2>1 DEF UInv, TypeOK, WithinPages, Timed, Reading, Results, reader, terminal
  <2>3. Terminal'
    BY <2>1 DEF Terminal, Menu, Up
  <2>4. QED
    BY <2>2, <2>3 DEF UInv
<1>3. CASE \E x \in 0 .. COLS - 1 : ClickTab(x) \/ \E y \in Rows : Click(x, y)
  BY <1>3, ClickTabUInv, ClickUInv
<1>4. CASE PathDone \/ SendStart \/ WriteStart \/ WriteDone \/ LookupFails \/ WorkDone \/ Tick
  BY <1>4, StageUInv
<1>5. CASE AnyKey \/ ResultClosed \/ ResultTimesOut \/ CloseReader
  BY <1>5, ReturnUInv DEF AnyKey, ResultClosed, ResultTimesOut, CloseReader
<1>6. CASE (\E t \in Texts : ReadStart(t)) \/ (\E n \in 1 .. MaxEntries : PrintStart(n))
  BY <1>6, OpenUInv
<1>7. CASE KeyUp \/ KeyDown \/ PageUp \/ PageDown \/ Home \/ End
  BY <1>7, ScrollUInv
<1>8. CASE UNCHANGED vars
  BY <1>8 DEF vars, reader, terminal, UInv, TypeOK, Terminal, Up, Menu, WithinPages, line_count,
              Timed, Reading
<1>9. QED
  BY <1>1, <1>2, <1>3, <1>4, <1>5, <1>6, <1>7, <1>8 DEF Next

-----------------------------------------------------------------------------
(* What follows *)

\* The inductive invariant holds.
LEMMA UInvInvariant == Spec => []UInv
<1>1. Init => UInv
  BY InitUInv
<1>2. UInv /\ [Next]_vars => UInv'
  BY NextUInv
<1>3. QED
  BY <1>1, <1>2, PTL DEF Spec

\* Every return of every dialog puts the terminal back, but for the cursor
\* that one of the write dialog leaves.
THEOREM TerminalIsGivenBack == Spec => TerminalGivenBack
<1> DEFINE Kept == \/ Menu \/ dialog \in Wordless
                   \/ dialog = "write" /\ stage = "failed"
           Given == Menu' => /\ mouse' /\ ~echo'
                             /\ cursor' => cursor /\ Kept
<1>1. UInv /\ [Next]_vars => [Given]_vars
  <2> SUFFICES ASSUME UInv, Next, Menu'
               PROVE  Given
    BY DEF vars
  <2>1. UInv'
    BY NextUInv
  <2>2. mouse' /\ ~echo'
    BY <2>1 DEF UInv, Terminal
  <2>3. cursor' => cursor /\ Kept
    <3>1. CASE Menu
      <4>1. UNCHANGED terminal
        <5>1. Menu => stage = "menu"
          BY DEF UInv, Terminal
        <5>2. CASE Key \/ Quit \/ \E x \in 0 .. COLS - 1 : ClickTab(x)
          BY <5>2 DEF Key, Quit, ClickTab, SwitchTab
        <5>3. ASSUME NEW x, NEW y, Click(x, y)
              PROVE  FALSE
          <6>1. PICK z \in Zones(current_tab) : Opens(z.dialog)
            BY <5>3 DEF Click
          <6>2. dialog' = z.dialog /\ z.dialog # "none"
            BY <6>1, ZoneDialogs DEF UInv, TypeOK, Opens
          <6>3. QED
            BY <6>2 DEF Menu
        <5>4. CASE PathDone \/ SendStart \/ WriteStart \/ WriteDone \/ LookupFails \/ WorkDone \/ Tick
          BY <3>1, <5>1, <5>4 DEF PathDone, SendStart, WriteStart, WriteDone, LookupFails, WorkDone,
                                  Tick, Results
        <5>5. CASE AnyKey \/ ResultClosed \/ ResultTimesOut \/ CloseReader
          BY <3>1, <5>5, ReturnFacts DEF AnyKey, ResultClosed, ResultTimesOut, CloseReader, Menu
        <5>6. CASE (\E t \in Texts : ReadStart(t)) \/ (\E n \in 1 .. MaxEntries : PrintStart(n))
          BY <3>1, <5>1, <5>6 DEF ReadStart, PrintStart
        <5>7. CASE KeyUp \/ KeyDown \/ PageUp \/ PageDown \/ Home \/ End
          BY <3>1, <5>1, <5>7 DEF KeyUp, KeyDown, PageUp, PageDown, Home, End, Scroll
        <5>8. QED
          BY <5>2, <5>3, <5>4, <5>5, <5>6, <5>7 DEF Next
      <4>2. QED
        BY <3>1, <4>1 DEF terminal
    <3>2. CASE ~Menu
      <4>1. Counted \/ Answered \/ PrintReturn \/ ReadReturn
        <5>1. CASE UNCHANGED dialog \/ dialog' = "down"
          BY <3>2, <5>1 DEF Menu
        <5>2. CASE dialog' # dialog /\ dialog' # "down"
          BY <3>2, <5>2 DEF Next, Key, Quit, ClickTab, Click, SwitchTab, PathDone, SendStart,
              WriteStart, WriteDone, LookupFails, WorkDone, Tick, Stage, AnyKey, ResultClosed,
              ResultTimesOut, CloseReader, ReadStart, PrintStart, KeyUp, KeyDown, PageUp,
              PageDown, Home, End, Scroll
        <5>3. QED
          BY <5>1, <5>2
      <4>2. /\ dialog \notin {"none", "down"}
            /\ stage \in Messages \cup Results \cup {"view"}
            /\ \/ cursor' = FALSE
               \/ cursor' = cursor /\ (dialog # "write" \/ stage \in Results)
        BY <4>1, ReturnFacts
      <4>3. stage # "input" /\ (stage \in Results => stage = "result" \/ stage = "failed")
        BY <4>2 DEF Messages, Results
      <4>4. QED
        BY <3>2, <4>2, <4>3 DEF UInv, Terminal, Up, TypeOK
    <3>3. QED
      BY <3>1, <3>2
  <2>4. QED
    BY <2>2, <2>3
<1>2. Spec => [][Next]_vars
  BY DEF Spec
<1>3. QED
  BY <1>1, <1>2, UInvInvariant, PTL DEF TerminalGivenBack

\* The reader stays on its pages.
THEOREM StaysOnPages == Spec => []WithinPages
<1>1. UInv => WithinPages
  BY DEF UInv
<1>2. QED
  BY <1>1, UInvInvariant, PTL

\* What the reader shows of a file is all of the file, in lines that fit.
THEOREM NothingLostInLines == Spec => []LinesHoldText
<1>1. UInv => LinesHoldText
  BY LinesFollow DEF UInv
<1>2. QED
  BY <1>1, UInvInvariant, PTL

\* No result goes before its time.
THEOREM ResultsStay == Spec => ShownInFull
<1>1. UInv => [ResultTimesOut => onscreen = Timeout \/ dialog \in PathDialogs]_vars
  <2> SUFFICES ASSUME UInv, ResultTimesOut
               PROVE  onscreen = Timeout \/ dialog \in PathDialogs
    OBVIOUS
  <2>1. stage \in Results /\ since >= Timeout
    BY DEF ResultTimesOut, Counted, CreateFileReturn, DeleteFileReturn, CreateDirReturn,
           DeleteDirReturn, WriteReturn, SendReturn, RequestsReturn, CheckReturn,
           DefragmentReturn, PlainReturn
  <2>2. since <= Timeout /\ (dialog \in PathDialogs \/ onscreen = since)
    BY <2>1 DEF UInv, TypeOK, Timed
  <2>3. since = Timeout
    BY <2>1, <2>2, ScreenAssumption DEF UInv, TypeOK
  <2>4. QED
    BY <2>2, <2>3
<1>2. QED
  BY <1>1, UInvInvariant, PTL DEF ShownInFull

\* A page up or down goes on where the last ended, or before.
THEOREM PagesMeet == Spec => NoLineSkipped
<1> DEFINE Meets == /\ top_line' <= top_line + Page
                    /\ top_line <= (IF top_line' < 0 THEN 0 ELSE top_line') + Page
<1>1. UInv => [PageUp \/ PageDown => Meets]_vars
  <2> SUFFICES ASSUME UInv, PageUp \/ PageDown
               PROVE  Meets
    OBVIOUS
  <2>1. line_count \in Nat /\ top_line \in Int /\ Page \in Nat \ {0}
    BY ScreenAssumption DEF UInv, TypeOK, line_count
  <2>2. \/ top_line \in 0 .. line_count - Page
        \/ line_count < Page /\ top_line \in line_count - Page .. 0
    BY DEF UInv, WithinPages, PageUp, PageDown, Scroll
  <2>3. CASE PageUp
    <3>1. top_line' = IF top_line - Page > 0 THEN top_line - Page ELSE 0
      BY <2>3 DEF PageUp, Scroll
    <3>2. QED
      BY <2>1, <2>2, <3>1
  <2>4. CASE PageDown
    <3>1. top_line' = IF top_line + Page < line_count - Page THEN top_line + Page
                      ELSE line_count - Page
      BY <2>4 DEF PageDown, Scroll
    <3>2. QED
      BY <2>1, <2>2, <3>1
  <2>5. QED
    BY <2>3, <2>4
<1>2. QED
  BY <1>1, UInvInvariant, PTL DEF NoLineSkipped

-----------------------------------------------------------------------------
(* Buttons and zones *)

\* In the cells of the button for d, on a row and from a column of tab t, no
\* other dialog is opened, and on its label d is, but for the button that has
\* no dialog.
Matches(t, d, row, column, label) ==
    \A x \in column .. column + label + 3 :
       /\ \A z \in Zones(t) : row \in z.rows /\ x \in z.columns => z.dialog = d
       /\ x \in column + 2 .. column + label + 1 /\ d # "clear" =>
             \E z \in Zones(t) : z.dialog = d /\ row \in z.rows /\ x \in z.columns

\* So where the clicks in the tab's zones are known.
LEMMA MatchesIf ==
    ASSUME NEW t, NEW d, NEW row \in Int, NEW column \in Int, NEW label \in Int, NEW zone,
           \A x \in column .. column + label + 3 : \A z \in Zones(t) :
              row \in z.rows /\ x \in z.columns => z.dialog = d,
           d # "clear" => zone \in Zones(t) /\ zone.dialog = d /\ row \in zone.rows,
           d # "clear" => \A x \in column + 2 .. column + label + 1 : x \in zone.columns
    PROVE  Matches(t, d, row, column, label)
  BY DEF Matches

\* The zones and buttons of the tab Files.
LEMMA FilesMatch ==
    ASSUME NEW b \in FilesButtons
    PROVE  Matches(0, b.dialog, b.row, b.column, b.label)
<1>1. Zones(0) = FilesZones
  BY DEF Zones
<1>2. ASSUME NEW z \in FilesZones, NEW x \in Int, NEW y \in Int, y \in z.rows, x \in z.columns
      PROVE  \/ z.dialog = "create_file" /\ y = 3 /\ 2 <= x /\ x <= 13
             \/ z.dialog = "delete_file" /\ y = 3 /\ 16 <= x /\ x <= 29
             \/ z.dialog = "create_directory" /\ y = 5 /\ 2 <= x /\ x <= 21
             \/ z.dialog = "delete_directory" /\ y = 5 /\ 24 <= x /\ x <= 42
             \/ z.dialog = "print_directory" /\ y = 7 /\ 2 <= x /\ x <= 20
             \/ z.dialog = "write" /\ y = 9 /\ 2 <= x /\ x <= 22
             \/ z.dialog = "read" /\ y = 9 /\ 26 <= x /\ x <= 49
  BY <1>2 DEF FilesZones, Zone
<1>3. \/ b = Button("create_file", 2, 3, 8)
      \/ b = Button("delete_file", 16, 3, 11)
      \/ b = Button("create_directory", 2, 5, 16)
      \/ b = Button("delete_directory", 24, 5, 16)
      \/ b = Button("print_directory", 2, 7, 15)
      \/ b = Button("write", 2, 9, 18)
      \/ b = Button("read", 26, 9, 19)
  BY DEF FilesButtons
<1>4. CASE b = Button("create_file", 2, 3, 8)
  <2> DEFINE zone == Zone("create_file", {3}, 2 .. 13)
  <2>1. zone \in FilesZones
    BY DEF FilesZones
  <2>2. /\ zone.dialog = "create_file" /\ 3 \in zone.rows
        /\ \A x \in 4 .. 11 : x \in zone.columns
    BY DEF Zone
  <2>3. \A x \in 2 .. 13 : \A z \in FilesZones : 3 \in z.rows /\ x \in z.columns => z.dialog = "create_file"
    BY <1>2
  <2>4. Matches(0, "create_file", 3, 2, 8)
    <3> HIDE DEF zone
    <3>1. 2 + 2 = 4 /\ 2 + 8 + 1 = 11 /\ 2 + 8 + 3 = 13
      OBVIOUS
    <3>2. QED
      BY <1>1, <2>1, <2>2, <2>3, <3>1, MatchesIf
  <2>5. b.dialog = "create_file" /\ b.column = 2 /\ b.row = 3 /\ b.label = 8
    BY <1>4 DEF Button
  <2>6. QED
    BY <2>4, <2>5
<1>5. CASE b = Button("delete_file", 16, 3, 11)
  <2> DEFINE zone == Zone("delete_file", {3}, 16 .. 29)
  <2>1. zone \in FilesZones
    BY DEF FilesZones
  <2>2. /\ zone.dialog = "delete_file" /\ 3 \in zone.rows
        /\ \A x \in 18 .. 28 : x \in zone.columns
    BY DEF Zone
  <2>3. \A x \in 16 .. 30 : \A z \in FilesZones : 3 \in z.rows /\ x \in z.columns => z.dialog = "delete_file"
    BY <1>2
  <2>4. Matches(0, "delete_file", 3, 16, 11)
    <3> HIDE DEF zone
    <3>1. 16 + 2 = 18 /\ 16 + 11 + 1 = 28 /\ 16 + 11 + 3 = 30
      OBVIOUS
    <3>2. QED
      BY <1>1, <2>1, <2>2, <2>3, <3>1, MatchesIf
  <2>5. b.dialog = "delete_file" /\ b.column = 16 /\ b.row = 3 /\ b.label = 11
    BY <1>5 DEF Button
  <2>6. QED
    BY <2>4, <2>5
<1>6. CASE b = Button("create_directory", 2, 5, 16)
  <2> DEFINE zone == Zone("create_directory", {5}, 2 .. 21)
  <2>1. zone \in FilesZones
    BY DEF FilesZones
  <2>2. /\ zone.dialog = "create_directory" /\ 5 \in zone.rows
        /\ \A x \in 4 .. 19 : x \in zone.columns
    BY DEF Zone
  <2>3. \A x \in 2 .. 21 : \A z \in FilesZones : 5 \in z.rows /\ x \in z.columns => z.dialog = "create_directory"
    BY <1>2
  <2>4. Matches(0, "create_directory", 5, 2, 16)
    <3> HIDE DEF zone
    <3>1. 2 + 2 = 4 /\ 2 + 16 + 1 = 19 /\ 2 + 16 + 3 = 21
      OBVIOUS
    <3>2. QED
      BY <1>1, <2>1, <2>2, <2>3, <3>1, MatchesIf
  <2>5. b.dialog = "create_directory" /\ b.column = 2 /\ b.row = 5 /\ b.label = 16
    BY <1>6 DEF Button
  <2>6. QED
    BY <2>4, <2>5
<1>7. CASE b = Button("delete_directory", 24, 5, 16)
  <2> DEFINE zone == Zone("delete_directory", {5}, 24 .. 42)
  <2>1. zone \in FilesZones
    BY DEF FilesZones
  <2>2. /\ zone.dialog = "delete_directory" /\ 5 \in zone.rows
        /\ \A x \in 26 .. 41 : x \in zone.columns
    BY DEF Zone
  <2>3. \A x \in 24 .. 43 : \A z \in FilesZones : 5 \in z.rows /\ x \in z.columns => z.dialog = "delete_directory"
    BY <1>2
  <2>4. Matches(0, "delete_directory", 5, 24, 16)
    <3> HIDE DEF zone
    <3>1. 24 + 2 = 26 /\ 24 + 16 + 1 = 41 /\ 24 + 16 + 3 = 43
      OBVIOUS
    <3>2. QED
      BY <1>1, <2>1, <2>2, <2>3, <3>1, MatchesIf
  <2>5. b.dialog = "delete_directory" /\ b.column = 24 /\ b.row = 5 /\ b.label = 16
    BY <1>7 DEF Button
  <2>6. QED
    BY <2>4, <2>5
<1>8. CASE b = Button("print_directory", 2, 7, 15)
  <2> DEFINE zone == Zone("print_directory", {7}, 2 .. 20)
  <2>1. zone \in FilesZones
    BY DEF FilesZones
  <2>2. /\ zone.dialog = "print_directory" /\ 7 \in zone.rows
        /\ \A x \in 4 .. 18 : x \in zone.columns
    BY DEF Zone
  <2>3. \A x \in 2 .. 20 : \A z \in FilesZones : 7 \in z.rows /\ x \in z.columns => z.dialog = "print_directory"
    BY <1>2
  <2>4. Matches(0, "print_directory", 7, 2, 15)
    <3> HIDE DEF zone
    <3>1. 2 + 2 = 4 /\ 2 + 15 + 1 = 18 /\ 2 + 15 + 3 = 20
      OBVIOUS
    <3>2. QED
      BY <1>1, <2>1, <2>2, <2>3, <3>1, MatchesIf
  <2>5. b.dialog = "print_directory" /\ b.column = 2 /\ b.row = 7 /\ b.label = 15
    BY <1>8 DEF Button
  <2>6. QED
    BY <2>4, <2>5
<1>9. CASE b = Button("write", 2, 9, 18)
  <2> DEFINE zone == Zone("write", {9}, 2 .. 22)
  <2>1. zone \in FilesZones
    BY DEF FilesZones
  <2>2. /\ zone.dialog = "write" /\ 9 \in zone.rows
        /\ \A x \in 4 .. 21 : x \in zone.columns
    BY DEF Zone
  <2>3. \A x \in 2 .. 23 : \A z \in FilesZones : 9 \in z.rows /\ x \in z.columns => z.dialog = "write"
    BY <1>2
  <2>4. Matches(0, "write", 9, 2, 18)
    <3> HIDE DEF zone
    <3>1. 2 + 2 = 4 /\ 2 + 18 + 1 = 21 /\ 2 + 18 + 3 = 23
      OBVIOUS
    <3>2. QED
      BY <1>1, <2>1, <2>2, <2>3, <3>1, MatchesIf
  <2>5. b.dialog = "write" /\ b.column = 2 /\ b.row = 9 /\ b.label = 18
    BY <1>9 DEF Button
  <2>6. QED
    BY <2>4, <2>5
<1>10. CASE b = Button("read", 26, 9, 19)
  <2> DEFINE zone == Zone("read", {9}, 26 .. 49)
  <2>1. zone \in FilesZones
    BY DEF FilesZones
  <2>2. /\ zone.dialog = "read" /\ 9 \in zone.rows
        /\ \A x \in 28 .. 46 : x \in zone.columns
    BY DEF Zone
  <2>3. \A x \in 26 .. 48 : \A z \in FilesZones : 9 \in z.rows /\ x \in z.columns => z.dialog = "read"
    BY <1>2
  <2>4. Matches(0, "read", 9, 26, 19)
    <3> HIDE DEF zone
    <3>1. 26 + 2 = 28 /\ 26 + 19 + 1 = 46 /\ 26 + 19 + 3 = 48
      OBVIOUS
    <3>2. QED
      BY <1>1, <2>1, <2>2, <2>3, <3>1, MatchesIf
  <2>5. b.dialog = "read" /\ b.column = 26 /\ b.row = 9 /\ b.label = 19
    BY <1>10 DEF Button
  <2>6. QED
    BY <2>4, <2>5
<1>11. QED
  BY <1>3, <1>4, <1>5, <1>6, <1>7, <1>8, <1>9, <1>10

\* The zones and buttons of the tab Network.
LEMMA NetworkMatch ==
    ASSUME NEW b \in NetworkButtons
    PROVE  Matches(1, b.dialog, b.row, b.column, b.label)
<1>1. Zones(1) = NetworkZones
  BY DEF Zones
<1>2. ASSUME NEW z \in NetworkZones, NEW x \in Int, NEW y \in Int, y \in z.rows, x \in z.columns
      PROVE  \/ z.dialog = "send" /\ y = 3 /\ 2 <= x /\ x <= 14
             \/ z.dialog = "requests" /\ 4 <= y /\ y <= 6 /\ 2 <= x /\ x <= 28
  BY <1>2 DEF NetworkZones, Zone
<1>3. \/ b = Button("send", 2, 3, 9)
      \/ b = Button("requests", 2, 5, 23)
  BY DEF NetworkButtons
<1>4. CASE b = Button("send", 2, 3, 9)
  <2> DEFINE zone == Zone("send", {3}, 2 .. 14)
  <2>1. zone \in NetworkZones
    BY DEF NetworkZones
  <2>2. /\ zone.dialog = "send" /\ 3 \in zone.rows
        /\ \A x \in 4 .. 12 : x \in zone.columns
    BY DEF Zone
  <2>3. \A x \in 2 .. 14 : \A z \in NetworkZones : 3 \in z.rows /\ x \in z.columns => z.dialog = "send"
    BY <1>2
  <2>4. Matches(1, "send", 3, 2, 9)
    <3> HIDE DEF zone
    <3>1. 2 + 2 = 4 /\ 2 + 9 + 1 = 12 /\ 2 + 9 + 3 = 14
      OBVIOUS
    <3>2. QED
      BY <1>1, <2>1, <2>2, <2>3, <3>1, MatchesIf
  <2>5. b.dialog = "send" /\ b.column = 2 /\ b.row = 3 /\ b.label = 9
    BY <1>4 DEF Button
  <2>6. QED
    BY <2>4, <2>5
<1>5. CASE b = Button("requests", 2, 5, 23)
  <2> DEFINE zone == Zone("requests", 4 .. 6, 2 .. 28)
  <2>1. zone \in NetworkZones
    BY DEF NetworkZones
  <2>2. /\ zone.dialog = "requests" /\ 5 \in zone.rows
        /\ \A x \in 4 .. 26 : x \in zone.columns
    BY DEF Zone
  <2>3. \A x \in 2 .. 28 : \A z \in NetworkZones : 5 \in z.rows /\ x \in z.columns => z.dialog = "requests"
    BY <1>2
  <2>4. Matches(1, "requests", 5, 2, 23)
    <3> HIDE DEF zone
    <3>1. 2 + 2 = 4 /\ 2 + 23 + 1 = 26 /\ 2 + 23 + 3 = 28
      OBVIOUS
    <3>2. QED
      BY <1>1, <2>1, <2>2, <2>3, <3>1, MatchesIf
  <2>5. b.dialog = "requests" /\ b.column = 2 /\ b.row = 5 /\ b.label = 23
    BY <1>5 DEF Button
  <2>6. QED
    BY <2>4, <2>5
<1>6. QED
  BY <1>3, <1>4, <1>5

\* The zones and buttons of the tab Tools.
LEMMA ToolsMatch ==
    ASSUME NEW b \in ToolsButtons
    PROVE  Matches(2, b.dialog, b.row, b.column, b.label)
<1>1. Zones(2) = ToolsZones
  BY DEF Zones
<1>2. ASSUME NEW z \in ToolsZones, NEW x \in Int, NEW y \in Int, y \in z.rows, x \in z.columns
      PROVE  \/ z.dialog = "check" /\ y = 3 /\ 2 <= x /\ x <= 31
             \/ z.dialog = "defragment" /\ y = 5 /\ 2 <= x /\ x <= 15
  BY <1>2 DEF ToolsZones, Zone
<1>3. \/ b = Button("check", 2, 3, 26)
      \/ b = Button("defragment", 2, 5, 10)
      \/ b = Button("clear", 2, 7, 15)
  BY DEF ToolsButtons
<1>4. CASE b = Button("check", 2, 3, 26)
  <2> DEFINE zone == Zone("check", {3}, 2 .. 31)
  <2>1. zone \in ToolsZones
    BY DEF ToolsZones
  <2>2. /\ zone.dialog = "check" /\ 3 \in zone.rows
        /\ \A x \in 4 .. 29 : x \in zone.columns
    BY DEF Zone
  <2>3. \A x \in 2 .. 31 : \A z \in ToolsZones : 3 \in z.rows /\ x \in z.columns => z.dialog = "check"
    BY <1>2
  <2>4. Matches(2, "check", 3, 2, 26)
    <3> HIDE DEF zone
    <3>1. 2 + 2 = 4 /\ 2 + 26 + 1 = 29 /\ 2 + 26 + 3 = 31
      OBVIOUS
    <3>2. QED
      BY <1>1, <2>1, <2>2, <2>3, <3>1, MatchesIf
  <2>5. b.dialog = "check" /\ b.column = 2 /\ b.row = 3 /\ b.label = 26
    BY <1>4 DEF Button
  <2>6. QED
    BY <2>4, <2>5
<1>5. CASE b = Button("defragment", 2, 5, 10)
  <2> DEFINE zone == Zone("defragment", {5}, 2 .. 15)
  <2>1. zone \in ToolsZones
    BY DEF ToolsZones
  <2>2. /\ zone.dialog = "defragment" /\ 5 \in zone.rows
        /\ \A x \in 4 .. 13 : x \in zone.columns
    BY DEF Zone
  <2>3. \A x \in 2 .. 15 : \A z \in ToolsZones : 5 \in z.rows /\ x \in z.columns => z.dialog = "defragment"
    BY <1>2
  <2>4. Matches(2, "defragment", 5, 2, 10)
    <3> HIDE DEF zone
    <3>1. 2 + 2 = 4 /\ 2 + 10 + 1 = 13 /\ 2 + 10 + 3 = 15
      OBVIOUS
    <3>2. QED
      BY <1>1, <2>1, <2>2, <2>3, <3>1, MatchesIf
  <2>5. b.dialog = "defragment" /\ b.column = 2 /\ b.row = 5 /\ b.label = 10
    BY <1>5 DEF Button
  <2>6. QED
    BY <2>4, <2>5
<1>6. CASE b = Button("clear", 2, 7, 15)
  <2> DEFINE zone == 0
  <2>3. \A x \in 2 .. 20 : \A z \in ToolsZones : 7 \in z.rows /\ x \in z.columns => z.dialog = "clear"
    BY <1>2
  <2>4. Matches(2, "clear", 7, 2, 15)
    <3> HIDE DEF zone
    <3>1. 2 + 2 = 4 /\ 2 + 15 + 1 = 18 /\ 2 + 15 + 3 = 20
      OBVIOUS
    <3>2. QED
      BY <1>1, <2>3, <3>1, MatchesIf
  <2>5. b.dialog = "clear" /\ b.column = 2 /\ b.row = 7 /\ b.label = 15
    BY <1>6 DEF Button
  <2>6. QED
    BY <2>4, <2>5
<1>7. QED
  BY <1>3, <1>4, <1>5, <1>6

\* The buttons of every tab.
LEMMA ButtonsMatch ==
    ASSUME NEW t \in Tabs, NEW b \in Buttons(t)
    PROVE  Matches(t, b.dialog, b.row, b.column, b.label)
<1>1. CASE t = 0
  BY <1>1, FilesMatch DEF Buttons
<1>2. CASE t = 1
  BY <1>2, NetworkMatch DEF Buttons
<1>3. CASE t = 2
  BY <1>3, ToolsMatch DEF Buttons
<1>4. CASE t = 3
  BY <1>4 DEF Buttons
<1>5. QED
  BY <1>1, <1>2, <1>3, <1>4 DEF Tabs, TAB_COUNT

\* A click on a button opens its dialog and no other.
THEOREM ClickedOpens == Spec => ClickOpensItsOwn
<1> DEFINE Own == \A x \in 0 .. COLS - 1, y \in Rows, b \in Buttons(current_tab) :
          x \in b.column .. b.column + b.label + 3 =>
             /\ y = b.row /\ Click(x, y) => dialog' = b.dialog
             /\ y = b.row /\ x \in b.column + 2 .. b.column + b.label + 1 /\ b.dialog # "clear" =>
                   \E z \in Zones(current_tab) :
                       z.dialog = b.dialog /\ y \in z.rows /\ x \in z.columns
<1>1. UInv => [Own]_vars
  <2> SUFFICES ASSUME UInv,
                      NEW x \in 0 .. COLS - 1, NEW y \in Rows, NEW b \in Buttons(current_tab),
                      x \in b.column .. b.column + b.label + 3, y = b.row
               PROVE  /\ Click(x, y) => dialog' = b.dialog
                      /\ x \in b.column + 2 .. b.column + b.label + 1 /\ b.dialog # "clear" =>
                            \E z \in Zones(current_tab) :
                                z.dialog = b.dialog /\ y \in z.rows /\ x \in z.columns
    OBVIOUS
  <2>1. Matches(current_tab, b.dialog, b.row, b.column, b.label)
    BY ButtonsMatch DEF UInv, TypeOK
  <2>2. ASSUME Click(x, y)
        PROVE  dialog' = b.dialog
    <3>1. PICK z \in Zones(current_tab) : y \in z.rows /\ x \in z.columns /\ dialog' = z.dialog
      BY <2>2 DEF Click, Opens
    <3>2. QED
      BY <2>1, <3>1 DEF Matches
  <2>3. QED
    BY <2>1, <2>2 DEF Matches
<1>2. QED
  BY <1>1, UInvInvariant, PTL DEF ClickOpensItsOwn
=============================================================================
