------------------------------ MODULE PaneIOProofs -----------------------------
(***************************************************************************)
(* Theorems about the way between a pane and its browser, for every content  *)
(* of panes and replies and all bounds.  What a fold or a recursion computes  *)
(* for all sequences is proved by induction: FoldFacts has the equations of a *)
(* fold for any operation, and each instance of it below is one operation.   *)
(***************************************************************************)
EXTENDS PaneIO, TLAPS

(***************************************************************************)
(* The framing of blocks.                                                  *)
(***************************************************************************)
(* The classifier is in a state feed() can leave it in. *)
ClassifierOK ==
    \/ clf = Outside
    \/ \E n \in Nat, f \in {0, 1} : clf = InsideBlock(n, f)

CountsOK == blocks \in Nat /\ block \in Nat

Framing == ClassifierOK /\ CountsOK /\ FramingHolds

LEMMA EmptyIsUtf8 == IsUtf8(<<>>)
BY DEF IsUtf8

LEMMA StatesDiffer ==
    /\ \A n, f : InsideBlock(n, f) # Outside
    /\ \A n, f : InsideBlock(n, f).at = "block"
    /\ \A n, f : InsideBlock(n, f).num = n
    /\ \A n, f : InsideBlock(n, f).flags = f
    /\ Outside.at = "outside"
BY DEF InsideBlock, Outside

(* Outside a block, only %begin changes the state. *)
LEMMA OutsideStays ==
    ASSUME NEW line, line.verb # "%begin"
    PROVE  Feed(Outside, line).state = Outside
<1>1. Feed(Outside, line) = ClassifyOutside(line)
  BY StatesDiffer DEF Feed
<1>2. ParseOutput(line).state = Outside
  BY DEF ParseOutput, Yields, Silent
<1>3. /\ Silent(Outside).state = Outside
      /\ \A ev : Yields(Outside, ev).state = Outside
  BY DEF Yields, Silent
<1>4. QED
  BY <1>1, <1>2, <1>3, SMTT(30) DEF ClassifyOutside

(* The begin guard opens the block it names. *)
LEMMA BeginOpens ==
    ASSUME NEW n \in Nat, NEW f \in {0, 1}
    PROVE  /\ Feed(Outside, Guard("%begin", n, f)).state = InsideBlock(n, f)
           /\ Feed(Outside, Guard("%begin", n, f)).out = <<Block("begin", n, f)>>
<1> DEFINE line == Guard("%begin", n, f)
<1>1. Feed(Outside, line) = ClassifyOutside(line)
  BY StatesDiffer DEF Feed
<1>2. /\ line.verb = "%begin" /\ line.args # <<>> /\ line.bytes = <<>>
      /\ line.header = <<n, f>> /\ line.header # <<>>
      /\ line.header[1] = n /\ line.header[2] = f
  BY DEF Guard, MkLine
<1>3. ~IsNote(line.verb, line.args)
  BY <1>2 DEF IsNote, WithWords, Bare, EitherWay
<1>4. ClassifyOutside(line) = Yields(InsideBlock(n, f), Block("begin", n, f))
  BY <1>2, <1>3, EmptyIsUtf8 DEF ClassifyOutside
<1>5. QED
  BY <1>1, <1>4 DEF Yields

(* Inside a block, only the guard with its number closes it. *)
LEMMA InsideStays ==
    ASSUME NEW n, NEW f, NEW line, ~Closes(InsideBlock(n, f), line)
    PROVE  /\ Feed(InsideBlock(n, f), line).state = InsideBlock(n, f)
           /\ Feed(InsideBlock(n, f), line).out = <<BlockLine(n, line)>>
BY StatesDiffer DEF Feed, ClassifyInside, Yields

LEMMA EndCloses ==
    ASSUME NEW n, NEW f, NEW verb \in {"%end", "%error"}
    PROVE  /\ Feed(InsideBlock(n, f), Guard(verb, n, f)).state = Outside
           /\ Feed(InsideBlock(n, f), Guard(verb, n, f)).out =
                 <<Block(IF verb = "%end" THEN "end" ELSE "error", n, f)>>
<1>1. Closes(InsideBlock(n, f), Guard(verb, n, f))
  BY EmptyIsUtf8, StatesDiffer DEF Closes, Guard, MkLine
<1>2. Guard(verb, n, f).verb = verb
  BY DEF Guard, MkLine
<1>3. QED
  BY <1>1, <1>2, StatesDiffer DEF Feed, ClassifyInside, Yields

(* No line of a body is the guard of its own block. *)
LEMMA BodyStays ==
    ASSUME NEW l \in BodyLines, NEW f
    PROVE  ~Closes(InsideBlock(block, f), l)
<1>1. CASE l \in Bodies
  BY <1>1, PaneIOAssumption DEF Closes
<1>2. CASE l \notin Bodies
  <2>1. PICK v \in {"%begin", "%end", "%error"}, n \in Numbers1 \ {block} :
                l = Guard(v, n, 1)
    BY <1>2 DEF BodyLines
  <2>2. l.header[1] = n
    BY <2>1 DEF Guard, MkLine
  <2>3. QED
    BY <2>2, StatesDiffer DEF Closes
<1>3. QED
  BY <1>1, <1>2

(* What there is of an open block. *)
LEMMA OpenBlock ==
    ASSUME Framing, block # 0
    PROVE  \E f \in {0, 1} : clf = InsideBlock(block, f)
BY StatesDiffer DEF Framing, ClassifierOK, FramingHolds, CountsOK

LEMMA FramingInit == Init => Framing
BY StatesDiffer DEF Init, Framing, ClassifierOK, CountsOK, FramingHolds

LEMMA FramingStep == Framing /\ [Next]_vars => Framing'
<1> SUFFICES ASSUME Framing, [Next]_vars PROVE Framing'
  OBVIOUS
<1> USE DEF CountsOK
(* A line tmux writes with no block open, and that opens none. *)
<1>1. ASSUME NEW line, NEW meant, line.verb # "%begin", block = 0, Writes(line, meant),
             UNCHANGED <<block, blocks>>
      PROVE  Framing'
  <2>1. clf' = Outside
    BY <1>1, OutsideStays DEF Framing, FramingHolds, Writes
  <2>2. QED
    BY <1>1, <2>1 DEF Framing, ClassifierOK, FramingHolds
(* A step that leaves framing alone. *)
<1>2. ASSUME UNCHANGED <<block, blocks, clf>>
      PROVE  Framing'
  BY <1>2 DEF Framing, ClassifierOK, FramingHolds
<1>3. block # 0 => \E f \in {0, 1} : clf = InsideBlock(block, f)
  BY OpenBlock
<1>4. CASE \E p \in Panes, w \in Shows : Shown(p, w)
  BY <1>2, <1>4 DEF Shown
<1>5. CASE \E p \in Panes : OutputLine(p)
  <2>1. PICK p \in Panes : OutputLine(p)
    BY <1>5
  <2>2. PICK n \in 1..Len(unsent[p]) :
            Writes(MkLine("%output", <<p, "payload">>, <<>>, Encoded(SubSeq(unsent[p], 1, n))),
                   <<Output(p, SubSeq(unsent[p], 1, n))>>)
    BY <2>1 DEF OutputLine
  <2>3. MkLine("%output", <<p, "payload">>, <<>>, Encoded(SubSeq(unsent[p], 1, n))).verb # "%begin"
    BY DEF MkLine
  <2>4. QED
    BY <1>1, <2>1, <2>2, <2>3 DEF OutputLine
<1>6. CASE \E p \in Panes : PaneChangedLine(p)
  <2>1. PICK p \in Panes : PaneChangedLine(p)
    BY <1>6
  <2>2. Notice("%window-pane-changed", <<"@1", p>>).verb # "%begin"
    BY DEF Notice, MkLine
  <2>3. QED
    BY <1>1, <2>1, <2>2 DEF PaneChangedLine
<1>7. CASE \E n \in Notices : NoticeLine(n)
  <2>1. PICK n \in Notices : NoticeLine(n)
    BY <1>7
  <2>2. n.verb # "%begin"
    BY PaneIOAssumption
  <2>3. QED
    BY <1>1, <2>1, <2>2 DEF NoticeLine
<1>8. CASE BeginLine
  <2>1. /\ block = 0 /\ block' = blocks + 1 /\ blocks' = blocks + 1
        /\ \E f \in {0, 1} : clf' = Feed(clf, Guard("%begin", block', f)).state
    BY <1>8 DEF BeginLine, Writes
  <2>2. PICK f \in {0, 1} : clf' = InsideBlock(block', f)
    BY <2>1, BeginOpens DEF Framing, FramingHolds
  <2>3. block' \in Nat /\ blocks' \in Nat /\ block' # 0
    BY <2>1 DEF Framing
  <2>4. QED
    BY <2>2, <2>3, StatesDiffer DEF Framing, ClassifierOK, FramingHolds
<1>9. CASE \E l \in BodyLines : BodyLine(l)
  <2>1. PICK l \in BodyLines : BodyLine(l)
    BY <1>9
  <2>2. PICK f \in {0, 1} : clf = InsideBlock(block, f)
    BY <1>3, <2>1 DEF BodyLine
  <2>3. ~Closes(InsideBlock(block, f), l)
    BY <2>1, BodyStays
  <2>4. clf' = clf
    BY <2>1, <2>2, <2>3, InsideStays DEF BodyLine, Writes
  <2>5. QED
    BY <1>2, <2>1, <2>4 DEF BodyLine
<1>10. CASE \E ok \in BOOLEAN : EndLine(ok)
  <2>1. PICK ok \in BOOLEAN : EndLine(ok)
    BY <1>10
  <2>2. PICK f \in {0, 1} : clf = InsideBlock(block, f)
    BY <1>3, <2>1 DEF EndLine
  <2>3. clf' = Outside
    BY <2>1, <2>2, EndCloses, StatesDiffer DEF EndLine, Writes
  <2>4. QED
    BY <2>1, <2>3 DEF EndLine, Framing, ClassifierOK, FramingHolds
<1>11. CASE \E k \in Keys : Stdin(k)
  BY <1>2, <1>11 DEF Stdin, tmuxVars
<1>12. CASE UNCHANGED vars
  BY <1>2, <1>12 DEF vars, tmuxVars
<1>13. QED
  BY <1>4, <1>5, <1>6, <1>7, <1>8, <1>9, <1>10, <1>11, <1>12 DEF Next

(* The classifier is inside a block exactly when tmux is, and inside the same  *)
(* one, whatever panes show and replies hold: only the guard that bears the    *)
(* block's own number closes it (parser.rs:181).                              *)
THEOREM FramingCorrect == Spec => []FramingHolds
<1>1. Framing => FramingHolds
  BY DEF Framing
<1>2. QED
  BY FramingInit, FramingStep, <1>1, PTL DEF Spec

(***************************************************************************)
(* tmux's encoding.  It is a fold, whose facts come from FoldFacts.         *)
(***************************************************************************)
EscapeOnto(s, b) == s \o Escape(b)
Enc == INSTANCE FoldFacts WITH Op <- EscapeOnto

LEMMA EncodedFolds ==
    /\ Encoded(<<>>) = <<>>
    /\ \A s \in Seq(Byte), b \in Byte : Encoded(Append(s, b)) = Encoded(s) \o Escape(b)
<1>1. \A s : Encoded(s) = Enc!Folded(<<>>, s)
  BY DEF Encoded, EscapeOnto, Enc!Folded, FoldLeft, MapThenFoldSet,
         Enc!MapThenFoldSet, Max, Enc!Max
<1>2. Enc!Folded(<<>>, <<>>) = <<>>
  BY Enc!FoldEmpty
<1>3. \A s \in Seq(Byte), b \in Byte :
          Enc!Folded(<<>>, Append(s, b)) = EscapeOnto(Enc!Folded(<<>>, s), b)
  BY Enc!FoldAppend
<1>4. QED
  BY <1>1, <1>2, <1>3 DEF EscapeOnto

(* The code of a byte: the byte, or a backslash and three digits. *)
Plain(b) == b >= 32 /\ b # Backslash

LEMMA EscapeFacts ==
    ASSUME NEW b \in Byte
    PROVE  /\ Escape(b) \in Seq(Byte)
           /\ Plain(b) => Escape(b) = <<b>> /\ Len(Escape(b)) = 1 /\ Escape(b)[1] = b
           /\ ~Plain(b) => /\ Len(Escape(b)) = 4 /\ Escape(b)[1] = Backslash
                           /\ \A k \in 1..3 : Escape(b)[1 + k] \in Octal
                           /\ (Escape(b)[2] - 48) * 64 + (Escape(b)[3] - 48) * 8
                                  + (Escape(b)[4] - 48) = b
                           /\ Escape(b) = <<Escape(b)[1], Escape(b)[2], Escape(b)[3], Escape(b)[4]>>
<1>1. CASE Plain(b)
  <2>1. Escape(b) = <<b>>
    BY <1>1 DEF Plain, Escape, Byte
  <2>2. <<b>> \in Seq(Byte) /\ Len(<<b>>) = 1 /\ <<b>>[1] = b
    OBVIOUS
  <2>3. QED
    BY <1>1, <2>1, <2>2
<1>2. CASE ~Plain(b)
  <2> DEFINE x == 48 + (b \div 64)
             y == 48 + ((b \div 8) % 8)
             z == 48 + (b % 8)
  <2>1. x \in 48..51 /\ y \in 48..55 /\ z \in 48..55
    BY DEF Byte
  <2>2. (x - 48) * 64 + (y - 48) * 8 + (z - 48) = b
    BY DEF Byte
  <2>3. Escape(b) = <<Backslash, x, y, z>>
    BY <1>2 DEF Escape, Plain, Byte
  <2> HIDE DEF x, y, z
  <2>4. /\ Escape(b) \in Seq(Byte) /\ Len(Escape(b)) = 4
        /\ Escape(b)[1] = Backslash /\ Escape(b)[2] = x /\ Escape(b)[3] = y /\ Escape(b)[4] = z
    BY <2>1, <2>3 DEF Byte, Backslash
  <2>5. \A k \in 1..3 : Escape(b)[1 + k] \in Octal
    BY <2>1, <2>4 DEF Octal
  <2>6. QED
    BY <1>2, <2>2, <2>3, <2>4, <2>5
<1>3. QED
  BY <1>1, <1>2

LEMMA EncodedType == \A s \in Seq(Byte) : Encoded(s) \in Seq(Byte)
<1> DEFINE T == {s \in Seq(Byte) : Encoded(s) \in Seq(Byte)}
<1>1. <<>> \in T
  <2>1. <<>> \in Seq(Byte)
    OBVIOUS
  <2>2. QED
    BY <2>1, EncodedFolds
<1>2. ASSUME NEW s \in Seq(Byte), NEW b \in Byte, s \in T
      PROVE  Append(s, b) \in T
  <2>1. Encoded(s) \o Escape(b) \in Seq(Byte)
    BY <1>2, EscapeFacts
  <2>2. Encoded(Append(s, b)) \in Seq(Byte)
    BY <2>1, EncodedFolds
  <2>3. Append(s, b) \in Seq(Byte)
    OBVIOUS
  <2>4. QED
    BY <2>2, <2>3
<1>3. \A s \in Seq(Byte) : s \in T
  <2> HIDE DEF T
  <2> QED BY <1>1, <1>2, Enc!SequencesByInduction
<1>4. QED
  BY <1>3

(***************************************************************************)
(* UTF-8 of what is encoded: the codes are ASCII where the bytes are.        *)
(***************************************************************************)
OpenEnd(s) == s # <<>> /\ s[Len(s)] \in Lead
Usable(b)  == b \in 0..255 \ (192..193 \cup 224..255)
Whole(s) ==
    /\ \A i \in DOMAIN s : Usable(s[i])
    /\ s # <<>> => s[1] \notin Tail2
    /\ \A i \in 1..Len(s) - 1 : s[i] \in Lead <=> s[i + 1] \in Tail2

LEMMA Utf8Parts ==
    ASSUME NEW s \in Seq(Byte)
    PROVE  IsUtf8(s) <=> Whole(s) /\ ~OpenEnd(s)
<1> DEFINE n == Len(s)
<1>1. n \in Nat /\ DOMAIN s = 1..n /\ (s # <<>> <=> n > 0)
  OBVIOUS
<1>2. IsUtf8(s) <=> \A i \in 1..n : /\ s[i] \in Lead => i < n /\ s[i + 1] \in Tail2
                                    /\ s[i] \in Tail2 => i > 1 /\ s[i - 1] \in Lead
                                    /\ Usable(s[i])
  BY <1>1 DEF IsUtf8, Usable
<1>3. Whole(s) <=> /\ \A i \in 1..n : Usable(s[i])
                   /\ n > 0 => s[1] \notin Tail2
                   /\ \A i \in 1..n - 1 : s[i] \in Lead <=> s[i + 1] \in Tail2
  BY <1>1 DEF Whole
<1>4. OpenEnd(s) <=> n > 0 /\ s[n] \in Lead
  BY <1>1 DEF OpenEnd
<1> HIDE DEF n
<1>5. ASSUME IsUtf8(s) PROVE Whole(s) /\ ~OpenEnd(s)
  <2>1. ~OpenEnd(s)
    BY <1>1, <1>2, <1>4, <1>5
  <2>2. n > 0 => s[1] \notin Tail2
    BY <1>1, <1>2, <1>5
  <2>3. \A i \in 1..n - 1 : s[i] \in Lead <=> s[i + 1] \in Tail2
    <3> SUFFICES ASSUME NEW i \in 1..n - 1 PROVE s[i] \in Lead <=> s[i + 1] \in Tail2
      OBVIOUS
    <3>1. i \in 1..n /\ i + 1 \in 1..n /\ (i + 1) - 1 = i
      BY <1>1
    <3>2. QED
      BY <1>2, <1>5, <3>1
  <2>4. QED
    BY <1>2, <1>3, <1>5, <2>1, <2>2, <2>3
<1>6. ASSUME Whole(s), ~OpenEnd(s) PROVE IsUtf8(s)
  <2> SUFFICES ASSUME NEW i \in 1..n
               PROVE  /\ s[i] \in Lead => i < n /\ s[i + 1] \in Tail2
                      /\ s[i] \in Tail2 => i > 1 /\ s[i - 1] \in Lead
                      /\ Usable(s[i])
    BY <1>2
  <2>1. s[i] \in Lead => i < n /\ s[i + 1] \in Tail2
    <3>1. i = n \/ i \in 1..n - 1
      BY <1>1
    <3>2. QED
      BY <1>1, <1>3, <1>4, <1>6, <3>1
  <2>2. s[i] \in Tail2 => i > 1 /\ s[i - 1] \in Lead
    <3>1. i = 1 \/ (i > 1 /\ i - 1 \in 1..n - 1 /\ (i - 1) + 1 = i)
      BY <1>1
    <3>2. QED
      BY <1>1, <1>3, <1>6, <3>1
  <2>3. QED
    BY <1>3, <1>6, <2>1, <2>2
<1>7. QED
  BY <1>5, <1>6

LEMMA WholeAppend ==
    ASSUME NEW s \in Seq(Byte), NEW b \in Byte
    PROVE  /\ Whole(Append(s, b)) <=> /\ Whole(s) /\ Usable(b)
                                      /\ OpenEnd(s) <=> b \in Tail2
           /\ OpenEnd(Append(s, b)) <=> b \in Lead
<1> DEFINE r == Append(s, b)
           n == Len(s)
<1>1. /\ n \in Nat /\ DOMAIN s = 1..n /\ DOMAIN r = 1..n + 1 /\ Len(r) = n + 1
      /\ \A i \in 1..n : r[i] = s[i]
      /\ r[n + 1] = b /\ r # <<>> /\ (s # <<>> <=> n > 0)
  OBVIOUS
<1>0. n = Len(s) /\ n + 1 - 1 = n
  OBVIOUS
<1>2. Whole(s) <=> /\ \A i \in 1..n : Usable(s[i])
                   /\ n > 0 => s[1] \notin Tail2
                   /\ \A i \in 1..n - 1 : s[i] \in Lead <=> s[i + 1] \in Tail2
  <2> HIDE DEF n, r
  <2>1. QED
    BY <1>1, <1>0 DEF Whole
<1>3. Whole(r) <=> /\ \A i \in 1..n + 1 : Usable(r[i])
                   /\ r[1] \notin Tail2
                   /\ \A i \in 1..n : r[i] \in Lead <=> r[i + 1] \in Tail2
  <2> HIDE DEF n, r
  <2>1. Len(r) - 1 = n
    BY <1>0, <1>1
  <2>2. QED
    BY <1>1, <2>1 DEF Whole
<1>4. /\ OpenEnd(s) <=> n > 0 /\ s[n] \in Lead
      /\ OpenEnd(r) <=> b \in Lead
  BY <1>1 DEF OpenEnd
<1> HIDE DEF r, n
<1>5. (\A i \in 1..n + 1 : Usable(r[i])) <=> (\A i \in 1..n : Usable(s[i])) /\ Usable(b)
  <2>1. \A i \in 1..n + 1 : i \in 1..n \/ i = n + 1
    BY <1>1
  <2>2. \A i \in 1..n : i \in 1..n + 1
    BY <1>1
  <2>3. n + 1 \in 1..n + 1
    BY <1>1
  <2>4. QED
    BY <1>1, <2>1, <2>2, <2>3
<1>6. /\ n = 0 => r[1] = b
      /\ n > 0 => r[1] = s[1]
  BY <1>1
<1>7. (\A i \in 1..n : r[i] \in Lead <=> r[i + 1] \in Tail2)
        <=> /\ \A i \in 1..n - 1 : s[i] \in Lead <=> s[i + 1] \in Tail2
            /\ n > 0 => (s[n] \in Lead <=> b \in Tail2)
  <2>1. \A i \in 1..n - 1 : i \in 1..n /\ i + 1 \in 1..n
    BY <1>1
  <2>2. \A i \in 1..n : i \in 1..n - 1 \/ (i = n /\ n > 0)
    BY <1>1
  <2>3. n > 0 => n \in 1..n
    BY <1>1
  <2>4. QED
    BY <1>1, <2>1, <2>2, <2>3
<1>8. QED
  <2>1. CASE n = 0
    BY <1>2, <1>3, <1>4, <1>5, <1>6, <1>7, <2>1 DEF r
  <2>2. CASE n > 0
    BY <1>2, <1>3, <1>4, <1>5, <1>6, <1>7, <2>2 DEF r
  <2>3. QED
    BY <1>1, <2>1, <2>2

LEMMA WholeAscii ==
    ASSUME NEW s \in Seq(Byte), NEW b \in 0..127
    PROVE  /\ Append(s, b) \in Seq(Byte)
           /\ Whole(Append(s, b)) <=> Whole(s) /\ ~OpenEnd(s)
           /\ ~OpenEnd(Append(s, b))
<1>1. b \in Byte /\ b \notin Tail2 /\ b \notin Lead /\ Usable(b)
  BY DEF Byte, Tail2, Lead, Usable
<1>2. QED
  BY <1>1, WholeAppend

LEMMA WholeCode ==
    ASSUME NEW s \in Seq(Byte), NEW b \in Byte, ~Plain(b)
    PROVE  /\ Whole(s \o Escape(b)) <=> Whole(s) /\ ~OpenEnd(s)
           /\ ~OpenEnd(s \o Escape(b))
<1>1. PICK w \in 0..127, x \in 0..127, y \in 0..127, z \in 0..127 : Escape(b) = <<w, x, y, z>>
  <2> DEFINE e == Escape(b)
  <2>1. /\ e = <<e[1], e[2], e[3], e[4]>> /\ e[1] = Backslash
        /\ \A k \in 1..3 : e[1 + k] \in Octal
    BY EscapeFacts
  <2>2. e[2] \in Octal /\ e[3] \in Octal /\ e[4] \in Octal
    <3>1. 1 + 1 = 2 /\ 1 + 2 = 3 /\ 1 + 3 = 4
      OBVIOUS
    <3> HIDE DEF e
    <3>2. QED
      BY <2>1, <3>1
  <2> HIDE DEF e
  <2>3. e[1] \in 0..127 /\ e[2] \in 0..127 /\ e[3] \in 0..127 /\ e[4] \in 0..127
    BY <2>1, <2>2 DEF Octal, Backslash
  <2>4. QED
    BY <2>1, <2>3, Zenon DEF e
<1> DEFINE s1 == Append(s, w)
           s2 == Append(s1, x)
           s3 == Append(s2, y)
           s4 == Append(s3, z)
<1>2. s \o <<w, x, y, z>> = s4
  <2>1. w \in Byte /\ x \in Byte /\ y \in Byte /\ z \in Byte
    BY DEF Byte
  <2>2. QED
    BY <2>1, SMTT(20)
<1>3. s1 \in Seq(Byte) /\ ~OpenEnd(s1) /\ (Whole(s1) <=> Whole(s) /\ ~OpenEnd(s))
  BY WholeAscii
<1> HIDE DEF s1
<1>4. s2 \in Seq(Byte) /\ ~OpenEnd(s2) /\ (Whole(s2) <=> Whole(s1))
  BY <1>3, WholeAscii
<1> HIDE DEF s2
<1>5. s3 \in Seq(Byte) /\ ~OpenEnd(s3) /\ (Whole(s3) <=> Whole(s2))
  BY <1>4, WholeAscii
<1> HIDE DEF s3
<1>6. ~OpenEnd(s4) /\ (Whole(s4) <=> Whole(s3))
  BY <1>5, WholeAscii
<1>7. QED
  BY <1>1, <1>2, <1>3, <1>4, <1>5, <1>6

(* A line of output is UTF-8, and so looked at, exactly when what it encodes    *)
(* is (parser.rs:57).                                                        *)
THEOREM EncodedUtf8 == \A s \in Seq(Byte) : IsUtf8(Encoded(s)) <=> IsUtf8(s)
<1> DEFINE Alike(e, s) == /\ Whole(e) <=> Whole(s)
                          /\ Whole(s) => (OpenEnd(e) <=> OpenEnd(s))
           T == {s \in Seq(Byte) : Alike(Encoded(s), s)}
<1>1. <<>> \in T
  BY EncodedFolds
<1>2. ASSUME NEW s \in Seq(Byte), NEW b \in Byte, s \in T
      PROVE  Append(s, b) \in T
  <2> DEFINE e == Encoded(s)
  <2>1. Append(s, b) \in Seq(Byte) /\ e \in Seq(Byte) /\ Alike(e, s)
    BY <1>2, EncodedType
  <2>2. Encoded(Append(s, b)) = e \o Escape(b)
    BY EncodedFolds
  <2> HIDE DEF e
  <2>3. Alike(e \o Escape(b), Append(s, b))
    <3>1. CASE Plain(b)
      <4>1. e \o Escape(b) = Append(e, b)
        <5>1. e \o <<b>> = Append(e, b)
          BY <2>1
        <5>2. QED
          BY <3>1, <5>1, EscapeFacts
      <4>2. /\ Whole(Append(s, b)) <=> /\ Whole(s) /\ Usable(b)
                                       /\ OpenEnd(s) <=> b \in Tail2
            /\ OpenEnd(Append(s, b)) <=> b \in Lead
        BY WholeAppend
      <4>3. /\ Whole(Append(e, b)) <=> /\ Whole(e) /\ Usable(b)
                                       /\ OpenEnd(e) <=> b \in Tail2
            /\ OpenEnd(Append(e, b)) <=> b \in Lead
        BY <2>1, WholeAppend
      <4>4. QED
        BY <2>1, <4>1, <4>2, <4>3
    <3>2. CASE ~Plain(b)
      <4>1. b \in 0..127
        BY <3>2 DEF Plain, Backslash, Byte
      <4>2. /\ Whole(Append(s, b)) <=> Whole(s) /\ ~OpenEnd(s)
            /\ ~OpenEnd(Append(s, b))
        BY <4>1, WholeAscii
      <4>3. /\ Whole(e \o Escape(b)) <=> Whole(e) /\ ~OpenEnd(e)
            /\ ~OpenEnd(e \o Escape(b))
        BY <2>1, <3>2, WholeCode
      <4>4. QED
        BY <2>1, <4>2, <4>3
    <3>3. QED
      BY <3>1, <3>2
  <2> HIDE DEF Alike
  <2>4. QED
    BY <2>1, <2>2, <2>3
<1>3. \A s \in Seq(Byte) : s \in T
  <2> HIDE DEF T
  <2> QED BY <1>1, <1>2, Enc!SequencesByInduction
<1>4. QED
  BY <1>3, EncodedType, Utf8Parts

(***************************************************************************)
(* decode, by what it makes of the payload from each position on.           *)
(***************************************************************************)
EscapedAt(in, i) == /\ in[i] = Backslash /\ i + 3 <= Len(in)
                    /\ \A k \in 1..3 : in[i + k] \in Octal
ByteAt(in, i)    == (in[i + 1] - 48) * 64 + (in[i + 2] - 48) * 8 + (in[i + 3] - 48)
Rest(f, in, i) ==
    IF i > Len(in) THEN <<>>
    ELSE IF EscapedAt(in, i) THEN <<ByteAt(in, i) % 256>> \o f[i + 4]
    ELSE <<in[i]>> \o f[i + 1]
Reads(f, in) == f = [i \in 1..Len(in) + 4 |-> Rest(f, in, i)]

LEMMA DecodeUnfolded ==
    ASSUME NEW in
    PROVE  Decode(in) = (CHOOSE f : Reads(f, in))[1]
BY DEF Decode, Reads, Rest, EscapedAt, ByteAt

LEMMA DecodeReads ==
    ASSUME NEW in, Len(in) \in Nat
    PROVE  \E f : /\ \A i \in 1..Len(in) + 4 : f[i] = Rest(f, in, i)
                  /\ Decode(in) = f[1]
<1> DEFINE n == Len(in)
           Upto(f, m) == f = [i \in n + 5 - m..n + 4 |-> Rest(f, in, i)]
           T == {m \in Nat : m <= n + 4 => \E f : Upto(f, m)}
<1>1. 0 \in T
  <2> DEFINE e == [i \in n + 5 - 0..n + 4 |-> <<>>]
  <2>1. n + 5 - 0..n + 4 = {}
    OBVIOUS
  <2>2. Upto(e, 0)
    BY <2>1
  <2>3. QED
    BY <2>2
<1>2. ASSUME NEW m \in Nat, m \in T PROVE m + 1 \in T
  <2> SUFFICES ASSUME m + 1 <= n + 4 PROVE \E f : Upto(f, m + 1)
    OBVIOUS
  <2>1. PICK g : Upto(g, m)
    BY <1>2
  <2> DEFINE D == n + 5 - (m + 1)..n + 4
             f == [i \in D |-> Rest(g, in, i)]
  <2>2. \A i \in n + 5 - m..n + 4 : i \in D /\ g[i] = Rest(g, in, i)
    <3>1. \A i \in n + 5 - m..n + 4 : g[i] = Rest(g, in, i)
      BY <2>1, Zenon
    <3>2. \A i \in n + 5 - m..n + 4 : i \in D
      OBVIOUS
    <3>3. QED
      BY <3>1, <3>2, Zenon
  <2>3. \A i \in n + 5 - m..n + 4 : f[i] = g[i]
    BY <2>2
  <2>4. ASSUME NEW i \in D PROVE Rest(g, in, i) = Rest(f, in, i)
    <3>1. i <= n => i + 4 \in n + 5 - m..n + 4 /\ i + 1 \in n + 5 - m..n + 4
      OBVIOUS
    <3> HIDE DEF f
    <3>2. i <= n => f[i + 4] = g[i + 4] /\ f[i + 1] = g[i + 1]
      BY <2>3, <3>1
    <3>3. i \in Int /\ n \in Nat
      OBVIOUS
    <3>4. QED
      BY <3>2, <3>3 DEF Rest
  <2>5. f = [i \in D |-> Rest(f, in, i)]
    BY <2>4
  <2> HIDE DEF f
  <2>6. Upto(f, m + 1)
    BY <2>5
  <2>7. QED
    BY <2>6
<1>3. \A m \in Nat : m \in T
  <2> HIDE DEF T
  <2> QED BY <1>1, <1>2, Enc!NumbersByInduction
<1>4. n + 4 \in T /\ n + 4 \in Nat /\ n + 5 - (n + 4) = 1
  BY <1>3
<1>5. \E f : Upto(f, n + 4)
  BY <1>4
<1>6. \E f : Reads(f, in)
  BY <1>4, <1>5 DEF Reads
<1> DEFINE f == CHOOSE g : Reads(g, in)
<1>7. Reads(f, in)
  BY <1>6
<1> HIDE DEF f
<1>8. \A i \in 1..Len(in) + 4 : f[i] = Rest(f, in, i)
  BY <1>7 DEF Reads
<1>9. Decode(in) = f[1]
  BY DecodeUnfolded DEF f
<1>10. QED
  BY <1>8, <1>9

(***************************************************************************)
(* Of a text, the code of each byte follows those of the bytes before it.   *)
(***************************************************************************)
Pre(s, k) == SubSeq(s, 1, k)

LEMMA PreFacts ==
    ASSUME NEW S, NEW s \in Seq(S)
    PROVE  /\ Pre(s, Len(s)) = s /\ Pre(s, 0) = <<>>
           /\ \A k \in 0..Len(s) : Pre(s, k) \in Seq(S)
           /\ \A k \in 0..Len(s) - 1 : Pre(s, k + 1) = Append(Pre(s, k), s[k + 1])
           /\ \A x \in S : \A k \in 0..Len(s) : Pre(Append(s, x), k) = Pre(s, k)
<1>1. Pre(s, Len(s)) = s /\ Pre(s, 0) = <<>>
  BY DEF Pre
<1>2. \A k \in 0..Len(s) : Pre(s, k) \in Seq(S)
  BY DEF Pre
<1>3. ASSUME NEW k \in 0..Len(s) - 1 PROVE Pre(s, k + 1) = Append(Pre(s, k), s[k + 1])
  BY DEF Pre
<1>4. ASSUME NEW x \in S, NEW k \in 0..Len(s) PROVE Pre(Append(s, x), k) = Pre(s, k)
  BY DEF Pre
<1>5. QED
  BY <1>1, <1>2, <1>3, <1>4

Begins(e, in) == Len(e) <= Len(in) /\ \A j \in 1..Len(e) : in[j] = e[j]

LEMMA BeginsLonger ==
    ASSUME NEW e \in Seq(Byte), NEW in \in Seq(Byte), NEW c \in Seq(Byte), Begins(e, in)
    PROVE  Begins(e, in \o c)
BY DEF Begins

LEMMA PrefixEncoded ==
    \A s \in Seq(Byte) : \A k \in 0..Len(s) : Begins(Encoded(Pre(s, k)), Encoded(s))
<1> DEFINE T == {s \in Seq(Byte) :
                    \A k \in 0..Len(s) : Begins(Encoded(Pre(s, k)), Encoded(s))}
<1>0. ASSUME NEW s \in Seq(Byte) PROVE Begins(Encoded(Pre(s, Len(s))), Encoded(s))
  <2>1. Encoded(s) \in Seq(Byte)
    BY EncodedType
  <2>2. QED
    BY <2>1, PreFacts DEF Begins
<1>1. <<>> \in T
  <2>1. <<>> \in Seq(Byte) /\ Len(<<>>) = 0 /\ \A k \in 0..0 : k = 0
    OBVIOUS
  <2>2. QED
    BY <2>1, <1>0
<1>2. ASSUME NEW s \in Seq(Byte), NEW b \in Byte, s \in T
      PROVE  Append(s, b) \in T
  <2>1. Append(s, b) \in Seq(Byte) /\ Len(Append(s, b)) = Len(s) + 1 /\ Len(s) \in Nat
    OBVIOUS
  <2>2. ASSUME NEW k \in 0..Len(s)
        PROVE  Begins(Encoded(Pre(Append(s, b), k)), Encoded(Append(s, b)))
    <3>1. Pre(Append(s, b), k) = Pre(s, k) /\ Pre(s, k) \in Seq(Byte)
      BY PreFacts
    <3>2. Begins(Encoded(Pre(s, k)), Encoded(s))
      BY <1>2
    <3>3. Encoded(Append(s, b)) = Encoded(s) \o Escape(b)
      BY EncodedFolds
    <3>4. /\ Encoded(Pre(s, k)) \in Seq(Byte) /\ Encoded(s) \in Seq(Byte)
          /\ Escape(b) \in Seq(Byte)
      BY <3>1, EncodedType, EscapeFacts
    <3>5. QED
      BY <3>1, <3>2, <3>3, <3>4, BeginsLonger
  <2>3. \A k \in 0..Len(s) + 1 : k \in 0..Len(s) \/ k = Len(s) + 1
    BY <2>1
  <2>4. QED
    BY <1>0, <2>1, <2>2, <2>3
<1>3. \A s \in Seq(Byte) : s \in T
  <2> HIDE DEF T
  <2> QED BY <1>1, <1>2, Enc!SequencesByInduction
<1>4. QED
  BY <1>3

(* Where the code of byte k + 1 stands. *)
At(s, k) == Len(Encoded(Pre(s, k)))

LEMMA CodeStands ==
    ASSUME NEW s \in Seq(Byte), NEW k \in 0..Len(s) - 1
    PROVE  /\ At(s, k) \in Nat /\ At(s, k + 1) = At(s, k) + Len(Escape(s[k + 1]))
           /\ At(s, k + 1) <= Len(Encoded(s))
           /\ s[k + 1] \in Byte
           /\ \A j \in 1..Len(Escape(s[k + 1])) :
                 Encoded(s)[At(s, k) + j] = Escape(s[k + 1])[j]
<1> DEFINE e == Encoded(Pre(s, k))
           c == Escape(s[k + 1])
           in == Encoded(s)
<1>1. k \in 0..Len(s) /\ k + 1 \in 0..Len(s) /\ s[k + 1] \in Byte
  OBVIOUS
<1>2. e \in Seq(Byte) /\ c \in Seq(Byte) /\ in \in Seq(Byte)
  BY <1>1, PreFacts, EncodedType, EscapeFacts
<1>3. Encoded(Pre(s, k + 1)) = e \o c
  <2>1. Pre(s, k + 1) = Append(Pre(s, k), s[k + 1]) /\ Pre(s, k) \in Seq(Byte)
    BY <1>1, PreFacts
  <2>2. QED
    BY <1>1, <2>1, EncodedFolds
<1>4. Begins(e \o c, in)
  BY <1>1, <1>3, PrefixEncoded
<1>5. At(s, k) = Len(e) /\ At(s, k + 1) = Len(e \o c)
  BY <1>3 DEF At
<1> HIDE DEF e, c, in
<1>6. /\ Len(e) \in Nat /\ Len(c) \in Nat /\ Len(e \o c) = Len(e) + Len(c)
      /\ \A j \in 1..Len(c) : (e \o c)[Len(e) + j] = c[j] /\ Len(e) + j \in 1..Len(e \o c)
  BY <1>2
<1>7. QED
  BY <1>1, <1>4, <1>5, <1>6 DEF Begins, c, in

(* decode() gives back what tmux encoded, byte by byte, for all payloads:     *)
(* also those that hold a backslash, or text that reads like an escape         *)
(* (escape.rs:21).                                                          *)
THEOREM DecodeEncoded == \A s \in Seq(Byte) : Decode(Encoded(s)) = s
<1> SUFFICES ASSUME NEW s \in Seq(Byte) PROVE Decode(Encoded(s)) = s
  OBVIOUS
<1> DEFINE in == Encoded(s)
           n == Len(s)
<1>1. in \in Seq(Byte) /\ Len(in) \in Nat /\ n \in Nat
  BY EncodedType
<1>2. PICK f : (\A i \in 1..Len(in) + 4 : f[i] = Rest(f, in, i)) /\ Decode(in) = f[1]
  BY <1>1, DecodeReads
<1> DEFINE T == {m \in Nat : m <= n => f[At(s, n - m) + 1] = SubSeq(s, n - m + 1, n)}
<1>3. 0 \in T
  <2>1. At(s, n) = Len(in) /\ n - 0 = n
    BY <1>1, PreFacts DEF At
  <2>2. SubSeq(s, n + 1, n) = <<>>
    BY <1>1
  <2> HIDE DEF in, n
  <2>3. f[Len(in) + 1] = <<>>
    <3>1. Len(in) + 1 \in 1..Len(in) + 4 /\ Len(in) + 1 > Len(in)
      BY <1>1
    <3>2. QED
      BY <1>2, <3>1 DEF Rest
  <2>4. QED
    BY <2>1, <2>2, <2>3
<1>4. ASSUME NEW m \in Nat, m \in T PROVE m + 1 \in T
  <2> SUFFICES ASSUME m + 1 <= n
               PROVE  f[At(s, n - (m + 1)) + 1] = SubSeq(s, n - (m + 1) + 1, n)
    OBVIOUS
  <2> DEFINE k == n - (m + 1)
             a == At(s, k)
             b == s[k + 1]
             c == Escape(b)
  <2>1. k \in 0..n - 1 /\ n - m = k + 1 /\ n - (m + 1) = k
    BY <1>1
  <2>2. /\ a \in Nat /\ At(s, k + 1) = a + Len(c)
        /\ At(s, k + 1) <= Len(in) /\ b \in Byte
        /\ \A j \in 1..Len(c) : in[a + j] = c[j]
    <3> HIDE DEF k
    <3>1. QED
      BY <2>1, CodeStands
  <2>3. f[At(s, k + 1) + 1] = SubSeq(s, k + 2, n)
    BY <1>1, <1>4, <2>1
  <2>4. SubSeq(s, k + 1, n) = <<b>> \o SubSeq(s, k + 2, n)
    BY <1>1, <2>1
  <2> SUFFICES f[a + 1] = <<b>> \o f[At(s, k + 1) + 1]
    BY <2>1, <2>3, <2>4
  <2> HIDE DEF a, b, k, in, n
  <2>5. CASE Plain(b)
    <3>1. Len(c) = 1 /\ c[1] = b /\ b # Backslash
      BY <2>2, <2>5, EscapeFacts DEF Plain
    <3> HIDE DEF c
    <3>2. in[a + 1] = b /\ At(s, k + 1) = a + 1
      BY <2>2, <3>1
    <3>3. a + 1 \in 1..Len(in) + 4 /\ ~(a + 1 > Len(in)) /\ ~EscapedAt(in, a + 1)
      BY <1>1, <2>2, <3>1, <3>2 DEF EscapedAt
    <3>4. QED
      BY <1>2, <3>2, <3>3 DEF Rest
  <2>6. CASE ~Plain(b)
    <3>1. /\ Len(c) = 4 /\ c[1] = Backslash /\ \A j \in 1..3 : c[1 + j] \in Octal
          /\ (c[2] - 48) * 64 + (c[3] - 48) * 8 + (c[4] - 48) = b
      BY <2>2, <2>6, EscapeFacts
    <3>2. c[2] \in Octal /\ c[3] \in Octal /\ c[4] \in Octal
      <4>1. 1 + 1 = 2 /\ 1 + 2 = 3 /\ 1 + 3 = 4
        OBVIOUS
      <4> HIDE DEF c
      <4>2. QED
        BY <3>1, <4>1
    <3> HIDE DEF c
    <3>3. /\ in[a + 1] = c[1] /\ in[(a + 1) + 1] = c[2]
          /\ in[(a + 1) + 2] = c[3] /\ in[(a + 1) + 3] = c[4]
      <4>1. (a + 1) + 1 = a + 2 /\ (a + 1) + 2 = a + 3 /\ (a + 1) + 3 = a + 4
        BY <2>2
      <4>2. in[a + 1] = c[1] /\ in[a + 2] = c[2] /\ in[a + 3] = c[3] /\ in[a + 4] = c[4]
        BY <2>2, <3>1
      <4>3. QED
        BY <4>1, <4>2
    <3>4. /\ (a + 1) + 3 <= Len(in) /\ At(s, k + 1) + 1 = (a + 1) + 4
          /\ a + 1 \in 1..Len(in) + 4 /\ ~(a + 1 > Len(in))
      <4>1. At(s, k + 1) = a + 4 /\ a \in Nat /\ At(s, k + 1) <= Len(in) /\ Len(in) \in Nat
        BY <1>1, <2>2, <3>1
      <4>2. QED
        BY <4>1
    <3>5. EscapedAt(in, a + 1)
      <4>1. in[a + 1] = Backslash
        BY <3>1, <3>3
      <4>2. \A j \in 1..3 : in[(a + 1) + j] \in Octal
        <5>1. \A j \in 1..3 : j = 1 \/ j = 2 \/ j = 3
          OBVIOUS
        <5>2. in[(a + 1) + 1] \in Octal /\ in[(a + 1) + 2] \in Octal /\ in[(a + 1) + 3] \in Octal
          BY <3>2, <3>3, Zenon
        <5>3. QED
          BY <5>1, <5>2, Zenon
      <4>3. QED
        BY <3>4, <4>1, <4>2, Zenon DEF EscapedAt
    <3>6. ByteAt(in, a + 1) = b
      BY <3>1, <3>3 DEF ByteAt
    <3>7. b % 256 = b
      BY <2>2 DEF Byte
    <3>8. QED
      BY <1>2, <3>4, <3>5, <3>6, <3>7 DEF Rest
  <2>7. QED
    BY <2>5, <2>6
<1>5. \A m \in Nat : m \in T
  <2> HIDE DEF T
  <2> QED BY <1>3, <1>4, Enc!NumbersByInduction
<1>6. n \in T
  BY <1>1, <1>5
<1>7. At(s, 0) = 0
  <2>1. Pre(s, 0) = <<>>
    BY PreFacts
  <2>2. QED
    BY <2>1, EncodedFolds DEF At
<1>8. n - n = 0 /\ SubSeq(s, 1, n) = s
  BY <1>1
<1>9. f[1] = s
  <2> HIDE DEF n
  <2> QED BY <1>1, <1>6, <1>7, <1>8
<1>10. QED
  BY <1>2, <1>9

(***************************************************************************)
(* The events of the lines tmux writes.                                     *)
(***************************************************************************)
(* A piece of output comes back as it was, or is lost when it cuts a           *)
(* character in two.                                                        *)
LEMMA OutputMeans ==
    ASSUME NEW p \in Panes, NEW piece \in Seq(Byte)
    PROVE  Feed(Outside, MkLine("%output", <<p, "payload">>, <<>>, Encoded(piece))).out =
              IF IsUtf8(piece) THEN <<Output(p, piece)>> ELSE <<>>
<1> DEFINE line == MkLine("%output", <<p, "payload">>, <<>>, Encoded(piece))
<1>1. /\ line.verb = "%output" /\ line.args = <<p, "payload">> /\ line.bytes = Encoded(piece)
      /\ line.args # <<>> /\ Len(line.args) = 2 /\ line.args[1] = p
  BY DEF MkLine
<1>2. Feed(Outside, line) = ClassifyOutside(line)
  BY StatesDiffer DEF Feed
<1>3. IsUtf8(line.bytes) <=> IsUtf8(piece)
  BY <1>1, EncodedUtf8
<1>4. Decode(line.bytes) = piece
  BY <1>1, DecodeEncoded
<1> HIDE DEF line
<1>5. ParseOutput(line).out = <<Output(p, piece)>>
  BY <1>1, <1>4 DEF ParseOutput, Yields
<1>6. ClassifyOutside(line) = IF IsUtf8(piece) THEN ParseOutput(line) ELSE Silent(Outside)
  BY <1>1, <1>3 DEF ClassifyOutside
<1>7. QED
  BY <1>2, <1>5, <1>6 DEF Silent, line

LEMMA NoticeMeans ==
    ASSUME NEW line, IsUtf8(line.bytes),
           line.verb \notin {"text", "%begin", "%output"},
           line.verb = "%window-pane-changed" => Len(line.args) # 1
    PROVE  Feed(Outside, line).out =
              IF IsNote(line.verb, line.args) THEN <<Note(line.verb, line.args)>>
              ELSE <<Ignored(line.verb)>>
<1>1. Feed(Outside, line) = ClassifyOutside(line)
  BY StatesDiffer DEF Feed
<1>2. ClassifyOutside(line) =
          IF IsNote(line.verb, line.args) THEN Yields(Outside, Note(line.verb, line.args))
          ELSE Yields(Outside, Ignored(line.verb))
  BY DEF ClassifyOutside
<1>3. QED
  BY <1>1, <1>2 DEF Yields

LEMMA PaneChangedMeans ==
    ASSUME NEW p
    PROVE  Feed(Outside, Notice("%window-pane-changed", <<"@1", p>>)).out =
              <<Note("%window-pane-changed", <<"@1", p>>)>>
<1> DEFINE words == <<"@1", p>>
           line  == Notice("%window-pane-changed", words)
<1>1. /\ line.verb = "%window-pane-changed" /\ line.args = words /\ line.bytes = <<>>
      /\ Len(words) = 2
  BY DEF Notice, MkLine
<1>2. IsNote("%window-pane-changed", words)
  BY <1>1 DEF IsNote
<1> HIDE DEF line, words
<1>3. IsUtf8(line.bytes)
  BY <1>1, EmptyIsUtf8
<1>4. Feed(Outside, line).out =
          IF IsNote(line.verb, line.args) THEN <<Note(line.verb, line.args)>>
          ELSE <<Ignored(line.verb)>>
  BY <1>1, <1>3, NoticeMeans
<1>5. QED
  BY <1>1, <1>2, <1>4 DEF line, words

(* What waits to be written is bytes, and each line so far was understood or  *)
(* lost.                                                                    *)
UnsentOK == unsent \in [Panes -> Seq(Byte)]
Meaning  == UnsentOK /\ EventsAreMeant

LEMMA MeaningInit == Init => Meaning
<1>1. <<>> \in Seq(Byte)
  OBVIOUS
<1>2. QED
  BY <1>1 DEF Init, Meaning, UnsentOK, EventsAreMeant

LEMMA MeaningStep == Framing /\ Meaning /\ [Next]_vars => Meaning'
<1> SUFFICES ASSUME Framing, Meaning, [Next]_vars PROVE Meaning'
  OBVIOUS
<1>1. ASSUME NEW line, NEW meant, Writes(line, meant), Feed(clf, line).out = meant
      PROVE  EventsAreMeant'
  BY <1>1 DEF Writes, Meaning, EventsAreMeant
<1>0. ASSUME NEW line, NEW meant, Writes(line, meant), Feed(clf, line).out = <<>>,
             ~IsUtf8(line.bytes)
      PROVE  EventsAreMeant'
  <2>1. misread' = misread \/ misread' = Misread(line, <<>>)
    BY <1>0 DEF Writes
  <2>2. Misread(line, <<>>).line = line /\ Misread(line, <<>>).out = <<>>
    BY DEF Misread
  <2>3. QED
    BY <1>0, <2>1, <2>2 DEF Meaning, EventsAreMeant
<1>2. unsent' = unsent => UnsentOK'
  BY DEF Meaning, UnsentOK
<1>3. misread' = misread => EventsAreMeant'
  BY DEF Meaning, EventsAreMeant
<1>4. block = 0 => clf = Outside
  BY DEF Framing, FramingHolds
<1>5. CASE \E p \in Panes, w \in Shows : Shown(p, w)
  <2>1. PICK p \in Panes, w \in Shows : Shown(p, w)
    BY <1>5
  <2>2. w \in Seq(Byte)
    BY PaneIOAssumption
  <2>3. UnsentOK'
    BY <2>1, <2>2 DEF Shown, Meaning, UnsentOK
  <2>4. QED
    BY <1>3, <2>1, <2>3 DEF Shown, Meaning
<1>6. CASE \E p \in Panes : OutputLine(p)
  <2>1. PICK p \in Panes : OutputLine(p)
    BY <1>6
  <2>2. PICK n \in 1..Len(unsent[p]) :
            /\ unsent' = [unsent EXCEPT ![p] = SubSeq(@, n + 1, Len(@))]
            /\ Writes(MkLine("%output", <<p, "payload">>, <<>>, Encoded(SubSeq(unsent[p], 1, n))),
                      <<Output(p, SubSeq(unsent[p], 1, n))>>)
    BY <2>1 DEF OutputLine
  <2>3. unsent[p] \in Seq(Byte)
    BY DEF Meaning, UnsentOK
  <2>4. SubSeq(unsent[p], 1, n) \in Seq(Byte) /\ SubSeq(unsent[p], n + 1, Len(unsent[p])) \in Seq(Byte)
    BY <2>3
  <2>5. UnsentOK'
    BY <2>2, <2>4 DEF Meaning, UnsentOK
  <2>6. clf = Outside
    BY <1>4, <2>1 DEF OutputLine
  <2> DEFINE piece == SubSeq(unsent[p], 1, n)
             line  == MkLine("%output", <<p, "payload">>, <<>>, Encoded(piece))
  <2>7. EventsAreMeant'
    <3>1. Writes(line, <<Output(p, piece)>>)
      BY <2>2
    <3>2. Feed(clf, line).out = IF IsUtf8(piece) THEN <<Output(p, piece)>> ELSE <<>>
      BY <2>4, <2>6, OutputMeans
    <3>3. IsUtf8(line.bytes) <=> IsUtf8(piece)
      <4>1. line.bytes = Encoded(piece)
        BY DEF MkLine
      <4>2. QED
        BY <2>4, <4>1, EncodedUtf8
    <3> HIDE DEF piece, line
    <3>4. QED
      BY <1>0, <1>1, <3>1, <3>2, <3>3
  <2>8. QED
    BY <2>5, <2>7 DEF Meaning
<1>7. CASE \E p \in Panes : PaneChangedLine(p)
  <2>1. PICK p \in Panes : PaneChangedLine(p)
    BY <1>7
  <2> DEFINE words == <<"@1", p>>
             line  == Notice("%window-pane-changed", words)
  <2>2. Feed(Outside, line).out = <<Note("%window-pane-changed", words)>>
    BY PaneChangedMeans
  <2>3. clf = Outside /\ Writes(line, <<Note("%window-pane-changed", words)>>)
    BY <1>4, <2>1 DEF PaneChangedLine
  <2> HIDE DEF line, words
  <2>4. EventsAreMeant'
    BY <1>1, <2>2, <2>3
  <2>5. QED
    BY <1>2, <2>1, <2>4 DEF PaneChangedLine, Meaning
<1>8. CASE \E n \in Notices : NoticeLine(n)
  <2>1. PICK n \in Notices : NoticeLine(n)
    BY <1>8
  <2>2. Feed(Outside, n).out = IF IsNote(n.verb, n.args) THEN <<Note(n.verb, n.args)>>
                               ELSE <<Ignored(n.verb)>>
    BY NoticeMeans, PaneIOAssumption
  <2>3. clf = Outside /\ Writes(n, IF IsNote(n.verb, n.args) THEN <<Note(n.verb, n.args)>>
                                   ELSE <<Ignored(n.verb)>>)
    BY <1>4, <2>1 DEF NoticeLine
  <2>4. EventsAreMeant'
    BY <1>1, <2>2, <2>3
  <2>5. QED
    BY <1>2, <2>1, <2>4 DEF NoticeLine, Meaning
<1>9. CASE BeginLine
  <2>1. PICK f \in {0, 1} : Writes(Guard("%begin", block', f), <<Block("begin", block', f)>>)
    BY <1>9 DEF BeginLine
  <2>2. block' \in Nat /\ clf = Outside
    BY <1>4, <1>9 DEF BeginLine, Framing, CountsOK
  <2>3. EventsAreMeant'
    BY <1>1, <2>1, <2>2, BeginOpens
  <2>4. QED
    BY <1>2, <1>9, <2>3 DEF BeginLine, Meaning
<1>10. CASE \E l \in BodyLines : BodyLine(l)
  <2>1. PICK l \in BodyLines : BodyLine(l)
    BY <1>10
  <2>2. PICK f \in {0, 1} : clf = InsideBlock(block, f)
    BY <2>1, OpenBlock DEF BodyLine
  <2>3. Feed(clf, l).out = <<BlockLine(block, l)>>
    BY <2>1, <2>2, BodyStays, InsideStays
  <2>4. EventsAreMeant'
    BY <1>1, <2>1, <2>3 DEF BodyLine
  <2>5. QED
    BY <1>2, <2>1, <2>4 DEF BodyLine, Meaning
<1>11. CASE \E ok \in BOOLEAN : EndLine(ok)
  <2>1. PICK ok \in BOOLEAN : EndLine(ok)
    BY <1>11
  <2>2. PICK f \in {0, 1} : clf = InsideBlock(block, f)
    BY <2>1, OpenBlock DEF EndLine
  <2>3. clf.flags = f
    BY <2>2, StatesDiffer
  <2>4. Feed(clf, Guard(IF ok THEN "%end" ELSE "%error", block, clf.flags)).out =
            <<Block(IF ok THEN "end" ELSE "error", block, clf.flags)>>
    BY <2>2, <2>3, EndCloses
  <2>5. EventsAreMeant'
    BY <1>1, <2>1, <2>4 DEF EndLine
  <2>6. QED
    BY <1>2, <2>1, <2>5 DEF EndLine, Meaning
<1>12. CASE \E k \in Keys : Stdin(k)
  BY <1>2, <1>3, <1>12 DEF Stdin, tmuxVars, Meaning
<1>13. CASE UNCHANGED vars
  BY <1>2, <1>3, <1>13 DEF vars, tmuxVars, Meaning
<1>14. QED
  BY <1>5, <1>6, <1>7, <1>8, <1>9, <1>10, <1>11, <1>12, <1>13 DEF Next

(* Every line of whole characters is classified as the event tmux meant by    *)
(* it, whatever its payload: bytes come back from their octal escapes          *)
(* unchanged, for all payloads of all lengths (escape.rs:21), content is never *)
(* taken for a notification or a guard (parser.rs:57 and :180).  A line that   *)
(* is not loses its event, and never gives a wrong one: OneWayArrives is       *)
(* violated by it.                                                          *)
THEOREM EventsCorrect == Spec => []EventsAreMeant
<1>1. Meaning => EventsAreMeant
  BY DEF Meaning
<1>2. QED
  BY FramingInit, FramingStep, MeaningInit, MeaningStep, <1>1, PTL DEF Spec

(***************************************************************************)
(* The parser's states, and the actions it performs.                        *)
(***************************************************************************)
Num   == 0..MaxParam
Some(S) == Seq(S) \ {<<>>}
Params == Some(Some(Num))
OscByte  == Byte \ (C0 \cup {59})
EscFinal == 48..126
Parser ==
    [st : {"ground", "esc", "entry", "param", "inter", "ignore", "osc", "string"},
     inter : Seq(Byte), params : Params, osc : Some(Seq(OscByte))]
Acted ==
    [do : {"print"}, bytes : {<<b>> : b \in Byte \ C0}]
    \cup [do : {"execute"}, bytes : {<<b>> : b \in C0 \ {ESC}}]
    \cup [do : {"csi"}, params : Params, inter : Seq(Byte), final : Final]
    \cup [do : {"osc"}, params : Some(Seq(OscByte))]
    \cup [do : {"esc"}, inter : Seq(Byte), final : EscFinal]

LEMMA NumbersAre ==
    /\ MaxParam \in Nat
    /\ \A n : n \in Num <=> n \in Nat /\ n <= MaxParam
    /\ \A n : n \in Byte <=> n \in Nat /\ n <= 255
<1>0. MaxParam \in Nat
  BY DEF MaxParam
<1>1. ASSUME NEW n PROVE n \in Num <=> n \in Nat /\ n <= MaxParam
  <2>1. n \in 0..MaxParam <=> n \in Nat /\ n <= MaxParam
    BY <1>0
  <2>2. QED
    BY <2>1 DEF Num
<1>2. ASSUME NEW n PROVE n \in Byte <=> n \in Nat /\ n <= 255
  <2>1. n \in 0..255 <=> n \in Nat /\ n <= 255
    OBVIOUS
  <2>2. QED
    BY <2>1 DEF Byte
<1>3. (\A n : n \in Num <=> n \in Nat /\ n <= MaxParam)
      /\ (\A n : n \in Byte <=> n \in Nat /\ n <= 255)
  BY <1>1, <1>2, Zenon
<1>4. QED
  BY <1>0, <1>3, Zenon

LEMMA SomeFacts ==
    ASSUME NEW S
    PROVE  /\ \A x \in S : <<x>> \in Some(S)
           /\ \A s \in Seq(S), x \in S : Append(s, x) \in Some(S)
           /\ \A s \in Some(S) : s \in Seq(S) /\ Len(s) \in DOMAIN s /\ s[Len(s)] \in S
                                 /\ Len(s) \in Nat \ {0} /\ DOMAIN s = 1..Len(s)
           /\ \A s \in Some(S), x \in S : \A i \in DOMAIN s : [s EXCEPT ![i] = x] \in Some(S)
<1>1. ASSUME NEW x \in S PROVE <<x>> \in Some(S)
  <2>1. <<x>> \in Seq(S) /\ Len(<<x>>) = 1 /\ Len(<<>>) = 0
    OBVIOUS
  <2>2. <<x>> # <<>>
    BY <2>1
  <2>3. QED
    BY <2>1, <2>2, Zenon DEF Some
<1>2. ASSUME NEW s \in Seq(S), NEW x \in S PROVE Append(s, x) \in Some(S)
  <2>1. Append(s, x) \in Seq(S) /\ Len(Append(s, x)) = Len(s) + 1 /\ Len(s) \in Nat
    OBVIOUS
  <2> DEFINE r == Append(s, x)
  <2> HIDE DEF r
  <2>2. r \in Seq(S) /\ Len(r) > 0
    BY <2>1 DEF r
  <2>3. r # <<>>
    BY <2>2
  <2>4. QED
    BY <2>2, <2>3, Zenon DEF Some, r
<1>3. ASSUME NEW s \in Some(S)
      PROVE s \in Seq(S) /\ Len(s) \in DOMAIN s /\ s[Len(s)] \in S
            /\ Len(s) \in Nat \ {0} /\ DOMAIN s = 1..Len(s)
  BY DEF Some
<1>4. ASSUME NEW s \in Some(S), NEW x \in S, NEW i \in DOMAIN s
      PROVE  [s EXCEPT ![i] = x] \in Some(S)
  BY DEF Some
<1>5. QED
  BY <1>1, <1>2, <1>3, <1>4

LEMMA AddLastType ==
    ASSUME NEW S, NEW s \in Some(Seq(S)), NEW x \in S
    PROVE  AddLast(s, x) \in Some(Seq(S))
<1>1. Len(s) \in DOMAIN s /\ Append(s[Len(s)], x) \in Seq(S)
  BY SomeFacts
<1>2. QED
  BY <1>1, SomeFacts DEF AddLast

LEMMA AddLastSome ==
    ASSUME NEW S, NEW s \in Some(Some(S)), NEW x \in S
    PROVE  AddLast(s, x) \in Some(Some(S))
<1>1. Len(s) \in DOMAIN s /\ Append(s[Len(s)], x) \in Some(S)
  BY SomeFacts
<1>2. QED
  BY <1>1, SomeFacts DEF AddLast

LEMMA AddDigitType ==
    ASSUME NEW ps \in Params, NEW b \in Digit \cup Param, b >= 48
    PROVE  AddDigit(ps, b) \in Params
<1> DEFINE q == ps[Len(ps)]
           n == OpenParam(ps) * 10 + (b - 48)
           m == IF n > MaxParam THEN MaxParam ELSE n
<1>1. q \in Some(Num) /\ Len(ps) \in DOMAIN ps
  BY SomeFacts DEF Params
<1>2. OpenParam(ps) \in Num /\ Len(q) \in DOMAIN q
  BY <1>1, SomeFacts DEF OpenParam
<1>3. b \in Nat /\ b - 48 \in Nat
  BY DEF Digit, Param
<1>4. m \in Num
  <2>0. \A x \in Num : x \in Nat
    BY NumbersAre
  <2>1. OpenParam(ps) \in Nat
    BY <1>2, <2>0
  <2>2. OpenParam(ps) * 10 \in Nat
    BY <2>1
  <2>3. n \in Nat
    BY <1>3, <2>2
  <2> HIDE DEF n
  <2>4. QED
    BY <2>3, NumbersAre
<1>5. AddDigit(ps, b) = [ps EXCEPT ![Len(ps)] = [q EXCEPT ![Len(q)] = m]]
  BY DEF AddDigit
<1> HIDE DEF m, q
<1>6. [q EXCEPT ![Len(q)] = m] \in Some(Num)
  BY <1>1, <1>2, <1>4, SomeFacts
<1>7. ps \in Some(Some(Num))
  BY DEF Params
<1>8. [ps EXCEPT ![Len(ps)] = [q EXCEPT ![Len(q)] = m]] \in Some(Some(Num))
  BY <1>1, <1>6, <1>7, SomeFacts
<1>9. QED
  BY <1>5, <1>8 DEF Params

LEMMA StartType ==
    \A st \in {"ground", "esc", "entry", "param", "inter", "ignore", "osc", "string"} :
        Start(st) \in Parser
<1>0. <<>> \in Seq(Byte)
  OBVIOUS
<1>1. 0 \in Num /\ <<>> \in Seq(Byte)
  BY <1>0, NumbersAre
<1>2. <<<<0>>>> \in Params /\ <<<<>>>> \in Some(Seq(OscByte))
  <2>1. <<>> \in Seq(OscByte)
    OBVIOUS
  <2>2. QED
    BY <1>1, <2>1, SomeFacts DEF Params
<1>3. QED
  BY <1>1, <1>2 DEF Start, Parser

(* What a step may do: go to a state and perform one action, or two. *)
Steps(r) == r.p \in Parser /\ r.acts \in Seq(Acted)

LEMMA StepsFacts ==
    ASSUME NEW q \in Parser
    PROVE  /\ Steps(Step(q, <<>>))
           /\ \A a \in Acted : Steps(Step(q, <<a>>))
           /\ \A a \in Seq(Acted) : Steps(Step(q, a))
BY DEF Steps, Step

LEMMA ActedFacts ==
    ASSUME NEW p \in Parser, NEW b \in Byte
    PROVE  /\ b \notin C0 => Act("print", <<b>>) \in Acted
           /\ b \in C0 \ {ESC} => Act("execute", <<b>>) \in Acted
           /\ b \in Final => Csi(p, b) \in Acted
           /\ b \in EscFinal => Esc(p, b) \in Acted
           /\ OscEnd(p) \in Seq(Acted)
<1>1. OscEnd(p) \in Seq(Acted)
  <2>1. [do |-> "osc", params |-> p.osc] \in Acted
    BY DEF Acted, Parser
  <2>2. QED
    BY <2>1 DEF OscEnd
<1>2. b \notin C0 => Act("print", <<b>>) \in Acted
  BY DEF Act, Acted
<1>3. b \in C0 \ {ESC} => Act("execute", <<b>>) \in Acted
  BY DEF Act, Acted
<1>4. p.params \in Params /\ p.inter \in Seq(Byte)
  BY DEF Parser
<1>5. b \in Final => Csi(p, b) \in Acted
  BY <1>4 DEF Csi, Acted
<1>6. b \in EscFinal => Esc(p, b) \in Acted
  BY <1>4 DEF Esc, Acted
<1>7. QED
  BY <1>1, <1>2, <1>3, <1>5, <1>6

LEMMA FieldsType ==
    ASSUME NEW p \in Parser
    PROVE  /\ \A b \in Byte : [p EXCEPT !.inter = Append(@, b)] \in Parser
           /\ \A b \in Byte, st \in {"inter", "ignore", "param"} :
                 [p EXCEPT !.st = st, !.inter = Append(@, b)] \in Parser
           /\ \A st \in {"ignore"} : [p EXCEPT !.st = st] \in Parser
           /\ \A ps \in Params : [p EXCEPT !.st = "param", !.params = ps] \in Parser
           /\ \A o \in Some(Seq(OscByte)) : [p EXCEPT !.osc = o] \in Parser
           /\ p.params \in Params /\ p.osc \in Some(Seq(OscByte)) /\ p.inter \in Seq(Byte)
<1>1. p.params \in Params /\ p.osc \in Some(Seq(OscByte)) /\ p.inter \in Seq(Byte)
  BY DEF Parser
<1>2. \A b \in Byte : Append(p.inter, b) \in Seq(Byte)
  BY <1>1
<1>3. ASSUME NEW q \in Seq(Byte)
      PROVE  /\ [p EXCEPT !.inter = q] \in Parser
             /\ \A st \in {"inter", "ignore", "param"} :
                   [p EXCEPT !.st = st, !.inter = q] \in Parser
  BY Zenon DEF Parser
<1>4. \A st \in {"ignore"} : [p EXCEPT !.st = st] \in Parser
  BY DEF Parser
<1>5. \A ps \in Params : [p EXCEPT !.st = "param", !.params = ps] \in Parser
  BY DEF Parser
<1>6. \A o \in Some(Seq(OscByte)) : [p EXCEPT !.osc = o] \in Parser
  BY DEF Parser
<1>7. QED
  BY <1>1, <1>2, <1>3, <1>4, <1>5, <1>6, Zenon

LEMMA InEscapeType ==
    ASSUME NEW p \in Parser, NEW b \in Byte, b # ESC
    PROVE  Steps(InEscape(p, b))
<1>1. /\ b \in C0 => Steps(Step(p, <<Act("execute", <<b>>)>>))
      /\ Steps(Step([p EXCEPT !.inter = Append(@, b)], <<>>))
      /\ Steps(Step(Start("entry"), <<>>)) /\ Steps(Step(Start("osc"), <<>>))
      /\ Steps(Step(Start("string"), <<>>)) /\ Steps(Step(p, <<>>))
      /\ b \in EscFinal => Steps(Step(Ground, <<Esc(p, b)>>))
  BY StepsFacts, ActedFacts, FieldsType, StartType, Zenon DEF Ground
<1>2. \/ b \in C0 /\ InEscape(p, b) = Step(p, <<Act("execute", <<b>>)>>)
      \/ InEscape(p, b) = Step([p EXCEPT !.inter = Append(@, b)], <<>>)
      \/ InEscape(p, b) = Step(Start("entry"), <<>>)
      \/ InEscape(p, b) = Step(Start("osc"), <<>>)
      \/ InEscape(p, b) = Step(Start("string"), <<>>)
      \/ InEscape(p, b) = Step(p, <<>>)
      \/ /\ b \notin C0 /\ b \notin Inter /\ b \notin 127..255
         /\ InEscape(p, b) = Step(Ground, <<Esc(p, b)>>)
  <2> DEFINE high == b \in 127..255
             ctrl == b \in C0
             part == b \in Inter
  <2>1. InEscape(p, b) =
            CASE ctrl -> Step(p, <<Act("execute", <<b>>)>>)
              [] part -> Step([p EXCEPT !.inter = Append(@, b)], <<>>)
              [] b = 91 /\ p.inter = <<>> -> Step(Start("entry"), <<>>)
              [] b = 93 /\ p.inter = <<>> -> Step(Start("osc"), <<>>)
              [] b \in {80, 88, 94, 95} /\ p.inter = <<>> -> Step(Start("string"), <<>>)
              [] high -> Step(p, <<>>)
              [] OTHER -> Step(Ground, <<Esc(p, b)>>)
    BY DEF InEscape
  <2> HIDE DEF high, ctrl, part
  <2>2. \/ ctrl /\ InEscape(p, b) = Step(p, <<Act("execute", <<b>>)>>)
        \/ InEscape(p, b) = Step([p EXCEPT !.inter = Append(@, b)], <<>>)
        \/ InEscape(p, b) = Step(Start("entry"), <<>>)
        \/ InEscape(p, b) = Step(Start("osc"), <<>>)
        \/ InEscape(p, b) = Step(Start("string"), <<>>)
        \/ InEscape(p, b) = Step(p, <<>>)
        \/ ~ctrl /\ ~part /\ ~high /\ InEscape(p, b) = Step(Ground, <<Esc(p, b)>>)
    BY <2>1
  <2>3. QED
    BY <2>2 DEF high, ctrl, part
<1>3. b \notin C0 /\ b \notin Inter /\ b \notin 127..255 => b \in EscFinal
  <2>1. b \in Nat /\ b <= 255
    BY NumbersAre
  <2>2. QED
    BY <2>1 DEF C0, Inter, EscFinal
<1>4. QED
  BY <1>1, <1>2, <1>3

LEMMA InOscType ==
    ASSUME NEW p \in Parser, NEW b \in Byte
    PROVE  Steps(InOsc(p, b))
<1>1. /\ Append(p.osc, <<>>) \in Some(Seq(OscByte))
      /\ b \in OscByte => AddLast(p.osc, b) \in Some(Seq(OscByte))
  <2>1. <<>> \in Seq(OscByte) /\ p.osc \in Seq(Seq(OscByte)) /\ p.osc \in Some(Seq(OscByte))
    BY DEF Some, Parser
  <2>2. QED
    BY <2>1, SomeFacts, AddLastType
<1>2. /\ Steps(Step(Ground, OscEnd(p))) /\ Steps(Step(p, <<>>))
      /\ Steps(Step([p EXCEPT !.osc = Append(@, <<>>)], <<>>))
      /\ b \in OscByte => Steps(Step([p EXCEPT !.osc = AddLast(@, b)], <<>>))
  BY <1>1, StepsFacts, ActedFacts, FieldsType, StartType, Zenon DEF Ground
<1>3. b \in OscByte \/ b \in C0 \/ b = 59
  BY DEF OscByte
<1>4. QED
  BY <1>2, <1>3 DEF InOsc

LEMMA InCsiType ==
    ASSUME NEW p \in Parser, NEW b \in Byte, b # ESC
    PROVE  Steps(InCsi(p, b))
<1> DEFINE ps == CASE b = 59 -> Append(p.params, <<0>>)
                   [] b = 58 -> AddLast(p.params, 0)
                   [] OTHER -> AddDigit(p.params, b)
<1>1. Append(p.params, <<0>>) \in Params /\ AddLast(p.params, 0) \in Params
  <2>0. 0 \in Num /\ p.params \in Some(Some(Num))
    BY NumbersAre DEF Params, Parser
  <2>1. 0 \in Num /\ <<0>> \in Some(Num) /\ p.params \in Some(Some(Num))
    BY <2>0, SomeFacts
  <2>2. p.params \in Seq(Some(Num))
    BY <2>1, SomeFacts
  <2>3. QED
    BY <2>1, <2>2, SomeFacts, AddLastSome DEF Params
<1>2. b \in Param => AddDigit(p.params, b) \in Params
  <2>1. b \in Param => b \in Digit \cup Param /\ b >= 48
    BY DEF Param
  <2>2. QED
    BY <2>1, FieldsType, AddDigitType, Zenon
<1>3. b \in Param => ps \in Params
  BY <1>1, <1>2
<1>4. b \notin C0 /\ b \notin Final /\ b \notin 127..255 /\ b \notin Inter => b \in Param
  BY DEF Byte, C0, Final, Inter, Param
<1>5. /\ b \in C0 => Steps(Step(p, <<Act("execute", <<b>>)>>))
      /\ Steps(Step(Ground, <<>>))
      /\ b \in Final => Steps(Step(Ground, <<Csi(p, b)>>))
      /\ Steps(Step(p, <<>>))
      /\ Steps(Step([p EXCEPT !.st = "ignore", !.inter = Append(@, b)], <<>>))
      /\ Steps(Step([p EXCEPT !.st = "inter", !.inter = Append(@, b)], <<>>))
      /\ Steps(Step([p EXCEPT !.st = "ignore"], <<>>))
      /\ Steps(Step([p EXCEPT !.st = "param", !.inter = Append(@, b)], <<>>))
      /\ b \in Param => Steps(Step([p EXCEPT !.st = "param", !.params = ps], <<>>))
  BY <1>3, StepsFacts, ActedFacts, FieldsType, StartType, Zenon DEF Ground
<1>6. \/ b \in C0 /\ InCsi(p, b) = Step(p, <<Act("execute", <<b>>)>>)
      \/ InCsi(p, b) = Step(Ground, <<>>)
      \/ b \in Final /\ InCsi(p, b) = Step(Ground, <<Csi(p, b)>>)
      \/ InCsi(p, b) = Step(p, <<>>)
      \/ InCsi(p, b) = Step([p EXCEPT !.st = "ignore", !.inter = Append(@, b)], <<>>)
      \/ InCsi(p, b) = Step([p EXCEPT !.st = "inter", !.inter = Append(@, b)], <<>>)
      \/ InCsi(p, b) = Step([p EXCEPT !.st = "ignore"], <<>>)
      \/ InCsi(p, b) = Step([p EXCEPT !.st = "param", !.inter = Append(@, b)], <<>>)
      \/ /\ InCsi(p, b) = Step([p EXCEPT !.st = "param", !.params = ps], <<>>)
         /\ b \notin C0 /\ b \notin Final /\ b \notin 127..255 /\ b \notin Inter
  BY DEF InCsi
<1> HIDE DEF ps
<1>7. QED
  BY <1>4, <1>5, <1>6

LEMMA VtStepType ==
    ASSUME NEW p \in Parser, NEW b \in Byte
    PROVE  VtStep(p, b).p \in Parser /\ VtStep(p, b).acts \in Seq(Acted)
<1>0. {CAN, SUBST} \subseteq C0 \ {ESC}
  BY DEF CAN, SUBST, C0, ESC
<1>1. /\ Steps(Step(Start("esc"), OscEnd(p)))
      /\ b \in C0 \ {ESC} => Steps(Step(p, <<Act("execute", <<b>>)>>))
      /\ b \notin C0 => Steps(Step(p, <<Act("print", <<b>>)>>))
      /\ Steps(Step(p, <<>>))
      /\ b \in C0 \ {ESC} => Steps(Step(Ground, Append(OscEnd(p), Act("execute", <<b>>))))
  <2>1. b \in C0 \ {ESC} => Append(OscEnd(p), Act("execute", <<b>>)) \in Seq(Acted)
    BY ActedFacts
  <2>2. QED
    BY <2>1, StepsFacts, ActedFacts, StartType DEF Ground
<1>2. Steps(VtStep(p, b))
  BY <1>0, <1>1, InEscapeType, InOscType, InCsiType DEF VtStep
<1>3. QED
  BY <1>2 DEF Steps

(***************************************************************************)
(* What is written for an action is bytes.                                  *)
(***************************************************************************)
Decimal(f, n) == IF n < 10 THEN <<48 + n>> ELSE Append(f[n \div 10], 48 + (n % 10))
DecUpto(f, k) == f = [n \in 0..k |-> Decimal(f, n)]

LEMMA DecExists == \A k \in Nat : \E f : DecUpto(f, k)
<1> DEFINE T == {k \in Nat : \E f : DecUpto(f, k)}
<1>1. 0 \in T
  <2> DEFINE f == [n \in 0..0 |-> <<48 + n>>]
  <2>1. \A n \in 0..0 : n < 10
    OBVIOUS
  <2>2. \A n \in 0..0 : Decimal(f, n) = <<48 + n>>
    BY <2>1 DEF Decimal
  <2>3. DecUpto(f, 0)
    BY <2>2 DEF DecUpto
  <2> HIDE DEF f
  <2>4. QED
    BY <2>3
<1>2. ASSUME NEW k \in Nat, k \in T PROVE k + 1 \in T
  <2>1. PICK f : DecUpto(f, k)
    BY <1>2
  <2> DEFINE g == [n \in 0..k + 1 |-> Decimal(f, n)]
  <2>2. \A n \in 0..k : g[n] = f[n]
    BY <2>1 DEF DecUpto
  <2>3. \A n \in 0..k + 1 : n < 10 \/ n \div 10 \in 0..k
    OBVIOUS
  <2> HIDE DEF g
  <2>4. \A n \in 0..k + 1 : Decimal(f, n) = Decimal(g, n)
    BY <2>2, <2>3 DEF Decimal
  <2>5. g = [n \in 0..k + 1 |-> Decimal(g, n)]
    BY <2>4 DEF g
  <2>6. DecUpto(g, k + 1)
    BY <2>5 DEF DecUpto
  <2>7. QED
    BY <2>6
<1>3. \A k \in Nat : k \in T
  <2> HIDE DEF T
  <2>1. QED
    BY <1>1, <1>2, Enc!NumbersByInduction
<1>4. QED
  BY <1>3

LEMMA DecRecurs == \A n \in Num : Dec[n] = Decimal(Dec, n)
<1>1. Dec = CHOOSE f : DecUpto(f, MaxParam)
  BY DEF Dec, DecUpto, Decimal
<1>2. DecUpto(Dec, MaxParam)
  BY <1>1, DecExists, NumbersAre
<1>3. \A n \in 0..MaxParam : Dec[n] = Decimal(Dec, n)
  BY <1>2, NumbersAre DEF DecUpto
<1>4. QED
  BY <1>3 DEF Num

(* Numbers are written in digits. *)
LEMMA DecDigits == \A n \in Num : Dec[n] \in Seq(Digit)
<1> DEFINE T == {k \in Nat : \A n \in 0..k : n \in Num => Dec[n] \in Seq(Digit)}
<1>1. \A n \in Num : n < 10 => Dec[n] \in Seq(Digit)
  <2> SUFFICES ASSUME NEW n \in Num, n < 10 PROVE Dec[n] \in Seq(Digit)
    OBVIOUS
  <2>1. n \in Nat
    BY NumbersAre
  <2>2. 48 + n \in Digit
    BY <2>1 DEF Digit
  <2>3. Dec[n] = <<48 + n>>
    BY DecRecurs DEF Decimal
  <2>4. QED
    BY <2>2, <2>3
<1>2. 0 \in T
  <2>1. \A n \in 0..0 : n < 10
    OBVIOUS
  <2>2. QED
    BY <1>1, <2>1
<1>3. ASSUME NEW k \in Nat, k \in T PROVE k + 1 \in T
  <2> SUFFICES ASSUME k + 1 \in Num, k + 1 >= 10 PROVE Dec[k + 1] \in Seq(Digit)
    BY <1>1, <1>3
  <2> DEFINE n == k + 1
  <2>1. n \div 10 \in 0..k /\ n \div 10 \in Num /\ n \in Num /\ ~(n < 10)
    <3>1. n <= MaxParam
      BY NumbersAre
    <3>2. n \div 10 \in 0..k /\ n \div 10 <= n
      OBVIOUS
    <3>3. QED
      BY <3>1, <3>2, NumbersAre
  <2>2. 48 + (n % 10) \in Digit
    BY DEF Digit
  <2>3. Dec[n \div 10] \in Seq(Digit)
    BY <1>3, <2>1
  <2>4. Dec[n] = Append(Dec[n \div 10], 48 + (n % 10))
    <3> HIDE DEF n
    <3>1. QED
      BY <2>1, DecRecurs DEF Decimal
  <2>5. QED
    BY <2>2, <2>3, <2>4
<1>4. \A k \in Nat : k \in T
  <2> HIDE DEF T
  <2>1. QED
    BY <1>2, <1>3, Enc!NumbersByInduction
<1>5. QED
  <2>1. \A n \in Num : n \in Nat /\ n \in 0..n
    BY NumbersAre
  <2>2. QED
    BY <1>4, <2>1

LEMMA DecType == \A n \in Num : Dec[n] \in Seq(Byte)
<1>1. Digit \subseteq Byte
  BY NumbersAre DEF Digit
<1>2. QED
  BY <1>1, DecDigits

JoinColon(s, part)     == IF s = <<>> THEN part ELSE Append(s, 58) \o part
JoinSemicolon(s, part) == IF s = <<>> THEN part ELSE Append(s, 59) \o part
AddPart(s, part)       == Append(s, 59) \o part
KeepMode(ms, n)        == IF n \in BannedModes THEN ms ELSE Append(ms, n)
Colon     == INSTANCE FoldFacts WITH Op <- JoinColon
Semicolon == INSTANCE FoldFacts WITH Op <- JoinSemicolon
Part      == INSTANCE FoldFacts WITH Op <- AddPart
Mode      == INSTANCE FoldFacts WITH Op <- KeepMode

LEMMA FoldTypes ==
    /\ \A s \in Seq(Seq(Byte)) : Joined(s, 58) \in Seq(Byte) /\ Joined(s, 59) \in Seq(Byte)
    /\ \A s \in Seq(Seq(Byte)), h \in Seq(Byte) : Part!Folded(h, s) \in Seq(Byte)
    /\ \A s \in Seq(Num) : Mode!Folded(<<>>, s) \in Seq(Num)
<1>1. <<>> \in Seq(Byte) /\ <<>> \in Seq(Num) /\ 58 \in Byte /\ 59 \in Byte
  BY DEF Byte
<1>2. \A s, t \in Seq(Byte), b \in Byte : Append(s, b) \o t \in Seq(Byte)
  OBVIOUS
<1>3. \A s, t \in Seq(Byte) : /\ JoinColon(s, t) \in Seq(Byte)
                              /\ JoinSemicolon(s, t) \in Seq(Byte)
                              /\ AddPart(s, t) \in Seq(Byte)
  BY <1>1, <1>2 DEF JoinColon, JoinSemicolon, AddPart
<1>4. \A s \in Seq(Num), n \in Num : KeepMode(s, n) \in Seq(Num)
  BY DEF KeepMode
<1>5. \A s \in Seq(Seq(Byte)) : Colon!Folded(<<>>, s) \in Seq(Byte)
  BY <1>1, <1>3, Colon!FoldKeeps
<1>6. \A s \in Seq(Seq(Byte)) : Semicolon!Folded(<<>>, s) \in Seq(Byte)
  BY <1>1, <1>3, Semicolon!FoldKeeps
<1>7. \A s \in Seq(Seq(Byte)), h \in Seq(Byte) : Part!Folded(h, s) \in Seq(Byte)
  BY <1>3, Part!FoldKeeps
<1>8. \A s \in Seq(Num) : Mode!Folded(<<>>, s) \in Seq(Num)
  BY <1>1, <1>4, Mode!FoldKeeps
<1>9. \A s : Joined(s, 58) = Colon!Folded(<<>>, s)
  BY DEF Joined, JoinColon, Colon!Folded, FoldLeft, MapThenFoldSet,
         Colon!MapThenFoldSet, Max, Colon!Max
<1>10. \A s : Joined(s, 59) = Semicolon!Folded(<<>>, s)
  BY DEF Joined, JoinSemicolon, Semicolon!Folded, FoldLeft, MapThenFoldSet,
         Semicolon!MapThenFoldSet, Max, Semicolon!Max
<1>11. QED
  BY <1>5, <1>6, <1>7, <1>8, <1>9, <1>10

LEMMA NumbersType ==
    ASSUME NEW ns \in Seq(Num)
    PROVE  /\ Numbers(ns, 58) \in Seq(Byte)
           /\ Numbers(ns, 59) \in Seq(Byte)
<1>1. DOMAIN ns = 1..Len(ns) /\ \A i \in DOMAIN ns : ns[i] \in Num
  OBVIOUS
<1>2. [i \in DOMAIN ns |-> Dec[ns[i]]] \in Seq(Seq(Byte))
  BY <1>1, DecType
<1>3. QED
  BY <1>2, FoldTypes DEF Numbers

LEMMA ParamsFacts ==
    ASSUME NEW ps \in Params
    PROVE  /\ DOMAIN ps = 1..Len(ps) /\ Len(ps) \in Nat
           /\ \A i \in DOMAIN ps : ps[i] \in Seq(Num) /\ ps[i][1] \in Num
<1>1. ps \in Some(Some(Num)) /\ ps \in Seq(Some(Num))
  BY SomeFacts DEF Params
<1>2. DOMAIN ps = 1..Len(ps) /\ Len(ps) \in Nat /\ \A i \in DOMAIN ps : ps[i] \in Some(Num)
  BY <1>1
<1>3. \A q \in Some(Num) : q \in Seq(Num) /\ q[1] \in Num
  BY DEF Some
<1>4. QED
  BY <1>2, <1>3

LEMMA EmitCsiType ==
    ASSUME NEW a, a.inter \in Seq(Byte), a.params \in Params, a.final \in Byte
    PROVE  EmitCsi(a) \in Seq(Byte)
<1> DEFINE parts == [i \in DOMAIN a.params |-> Numbers(a.params[i], 58)]
<1>1. parts \in Seq(Seq(Byte))
  <2>1. DOMAIN a.params = 1..Len(a.params) /\ Len(a.params) \in Nat
    BY ParamsFacts
  <2>2. \A i \in DOMAIN a.params : Numbers(a.params[i], 58) \in Seq(Byte)
    BY ParamsFacts, NumbersType
  <2>3. QED
    BY <2>1, <2>2
<1> HIDE DEF parts
<1>2. Joined(parts, 59) \in Seq(Byte)
  BY <1>1, FoldTypes
<1>3. /\ <<ESC, 91>> \in Seq(Byte) /\ <<a.final>> \in Seq(Byte) /\ <<>> \in Seq(Byte)
  BY NumbersAre DEF ESC
<1>4. \A s, t, u, v \in Seq(Byte) : s \o t \o u \o v \in Seq(Byte)
  OBVIOUS
<1>5. QED
  BY <1>2, <1>3, <1>4 DEF EmitCsi, parts

LEMMA EmitOscType ==
    ASSUME NEW a, a.params \in Some(Seq(Byte))
    PROVE  EmitOsc(a) \in Seq(Byte)
<1>1. Head(a.params) \in Seq(Byte) /\ Tail(a.params) \in Seq(Seq(Byte))
  BY DEF Some
<1> DEFINE rest == FoldLeft(LAMBDA s, part : Append(s, 59) \o part, Head(a.params), Tail(a.params))
<1>2. rest = Part!Folded(Head(a.params), Tail(a.params))
  BY DEF AddPart, Part!Folded, FoldLeft, MapThenFoldSet,
         Part!MapThenFoldSet, Max, Part!Max
<1>3. EmitOsc(a) = <<ESC, 93>> \o rest \o ST
  BY Zenon DEF EmitOsc
<1> HIDE DEF rest
<1>4. rest \in Seq(Byte)
  BY <1>1, <1>2, FoldTypes
<1>5. <<ESC, 93>> \in Seq(Byte) /\ ST \in Seq(Byte)
  BY NumbersAre DEF ESC, ST
<1>6. QED
  BY <1>3, <1>4, <1>5

LEMMA PrivateModesType ==
    ASSUME NEW a, a.params \in Params, a.final \in Byte
    PROVE  PrivateModes(a) \in Seq(Byte)
<1> DEFINE firsts == [i \in DOMAIN a.params |-> a.params[i][1]]
           modes  == FoldLeft(LAMBDA ms, n : IF n \in BannedModes THEN ms ELSE Append(ms, n),
                              <<>>, firsts)
<1>1. firsts \in Seq(Num)
  BY ParamsFacts
<1>2. modes = Mode!Folded(<<>>, firsts)
  BY DEF KeepMode, Mode!Folded, FoldLeft, MapThenFoldSet,
         Mode!MapThenFoldSet, Max, Mode!Max
<1>3. PrivateModes(a) = IF modes = <<>> THEN <<>>
                        ELSE <<ESC, 91, 63>> \o Numbers(modes, 59) \o <<a.final>>
  BY Zenon DEF PrivateModes
<1> HIDE DEF firsts, modes
<1>4. modes \in Seq(Num)
  BY <1>1, <1>2, FoldTypes
<1>5. Numbers(modes, 59) \in Seq(Byte)
  BY <1>4, NumbersType
<1>6. <<ESC, 91, 63>> \in Seq(Byte) /\ <<a.final>> \in Seq(Byte) /\ <<>> \in Seq(Byte)
  BY NumbersAre DEF ESC
<1>7. \A s, t, u \in Seq(Byte) : s \o t \o u \in Seq(Byte)
  OBVIOUS
<1>8. QED
  BY <1>3, <1>5, <1>6, <1>7

(* Whatever is performed, the outbound filter writes bytes. *)
LEMMA OutboundType == \A a \in Acted : Outbound(a) \in Seq(Byte)
<1>0. <<>> \in Seq(Byte)
  OBVIOUS
<1>1. ASSUME NEW a \in [do : {"print"}, bytes : {<<b>> : b \in Byte \ C0}]
                       \cup [do : {"execute"}, bytes : {<<b>> : b \in C0 \ {ESC}}]
      PROVE  Outbound(a) \in Seq(Byte)
  <2>1. \A b \in C0 : b \in Byte
    BY DEF C0, Byte
  <2>2. PICK b \in Byte : a.bytes = <<b>> /\ a.do \in {"print", "execute"}
    BY <2>1
  <2>3. a.bytes \in Seq(Byte)
    BY <2>2
  <2>4. QED
    BY <1>0, <2>2, <2>3 DEF Outbound
<1>2. ASSUME NEW a \in [do : {"csi"}, params : Params, inter : Seq(Byte), final : Final]
      PROVE  Outbound(a) \in Seq(Byte)
  <2>0. a.final \in Byte /\ a.params \in Params /\ a.inter \in Seq(Byte)
    <3>1. \A b \in Final : b \in Byte
      BY DEF Final, Byte
    <3>2. QED
      BY <3>1
  <2>1. EmitCsi(a) \in Seq(Byte) /\ PrivateModes(a) \in Seq(Byte) /\ a.do = "csi"
    BY <2>0, EmitCsiType, PrivateModesType
  <2>2. OutboundCsi(a) \in Seq(Byte)
    BY <1>0, <2>1 DEF OutboundCsi
  <2>3. QED
    BY <2>1, <2>2 DEF Outbound
<1>3. ASSUME NEW a \in [do : {"osc"}, params : Some(Seq(OscByte))]
      PROVE  Outbound(a) \in Seq(Byte)
  <2>0. a.params \in Some(Seq(Byte))
    <3>1. \A s \in Seq(OscByte) : s \in Seq(Byte)
      BY DEF OscByte
    <3>2. \A ps \in Seq(Seq(OscByte)) : ps \in Seq(Seq(Byte))
      BY <3>1
    <3>3. QED
      BY <3>2 DEF Some
  <2>1. EmitOsc(a) \in Seq(Byte) /\ a.do = "osc"
    BY <2>0, EmitOscType
  <2>2. OutboundOsc(a) \in Seq(Byte)
    BY <1>0, <2>1 DEF OutboundOsc
  <2>3. QED
    BY <2>1, <2>2 DEF Outbound
<1>4. ASSUME NEW a \in [do : {"esc"}, inter : Seq(Byte), final : EscFinal]
      PROVE  Outbound(a) \in Seq(Byte)
  <2>0. \A b \in EscFinal : b \in Byte
    BY DEF EscFinal, Byte
  <2>1. <<ESC>> \in Seq(Byte) /\ a.inter \in Seq(Byte) /\ <<a.final>> \in Seq(Byte) /\ a.do = "esc"
    BY <2>0, NumbersAre DEF ESC
  <2>2. <<ESC>> \o a.inter \o <<a.final>> \in Seq(Byte)
    BY <2>1
  <2>3. OutboundEsc(a) \in Seq(Byte)
    BY <1>0, <2>2 DEF OutboundEsc
  <2>4. QED
    BY <2>1, <2>3 DEF Outbound
<1>5. QED
  BY <1>1, <1>2, <1>3, <1>4 DEF Acted

(***************************************************************************)
(* What a parser performs, for a sequence in two parts.                     *)
(***************************************************************************)
PerformOn(r, b) ==
    LET s == VtStep(r.p, b) IN [p |-> s.p, acts |-> r.acts \o s.acts]
Performs == INSTANCE FoldFacts WITH Op <- PerformOn

Unread(p)     == [p |-> p, acts |-> <<>>]
Reading(p, s) == Performs!Folded(Unread(p), s)
ReadOK        == [p : Parser, acts : Seq(Acted)]

LEMMA Concatenation ==
    ASSUME NEW S, NEW x \in Seq(S), NEW y \in Seq(S), NEW z \in Seq(S)
    PROVE  /\ x \o y \in Seq(S) /\ x \o <<>> = x /\ <<>> \o x = x
           /\ (x \o y) \o z = x \o (y \o z)
OBVIOUS

LEMMA ReadingEquations ==
    ASSUME NEW p \in Parser
    PROVE  /\ Reading(p, <<>>) = Unread(p)
           /\ \A s \in Seq(Byte), b \in Byte : Reading(p, Append(s, b)) = PerformOn(Reading(p, s), b)
           /\ \A s \in Seq(Byte) : Reading(p, s) \in ReadOK
<1>1. Reading(p, <<>>) = Unread(p)
  BY Performs!FoldEmpty DEF Reading
<1>2. \A s \in Seq(Byte), b \in Byte : Reading(p, Append(s, b)) = PerformOn(Reading(p, s), b)
  BY Performs!FoldAppend DEF Reading
<1>3. Unread(p) \in ReadOK
  <2>1. <<>> \in Seq(Acted)
    OBVIOUS
  <2>2. QED
    BY <2>1 DEF Unread, ReadOK
<1>4. \A r \in ReadOK, b \in Byte : PerformOn(r, b) \in ReadOK
  <2> SUFFICES ASSUME NEW r \in ReadOK, NEW b \in Byte PROVE PerformOn(r, b) \in ReadOK
    OBVIOUS
  <2>1. r.p \in Parser /\ r.acts \in Seq(Acted)
    BY DEF ReadOK
  <2>2. VtStep(r.p, b).p \in Parser /\ VtStep(r.p, b).acts \in Seq(Acted)
    BY <2>1, VtStepType
  <2>3. r.acts \o VtStep(r.p, b).acts \in Seq(Acted)
    BY <2>1, <2>2
  <2>4. QED
    BY <2>2, <2>3 DEF PerformOn, ReadOK
<1>5. \A s \in Seq(Byte) : Reading(p, s) \in ReadOK
  BY <1>3, <1>4, Performs!FoldKeeps DEF Reading
<1>6. QED
  BY <1>1, <1>2, <1>5

(* From p to q over w, with these actions. *)
Does(p, w, q, acts) ==
    /\ p \in Parser /\ w \in Seq(Byte) /\ q \in Parser /\ acts \in Seq(Acted)
    /\ Reading(p, w) = [p |-> q, acts |-> acts]

LEMMA ReadingDoes ==
    ASSUME NEW p \in Parser, NEW s \in Seq(Byte)
    PROVE  Does(p, s, Reading(p, s).p, Reading(p, s).acts)
<1> DEFINE r == Reading(p, s)
<1>1. r \in ReadOK
  BY ReadingEquations
<1> HIDE DEF r
<1>2. r.p \in Parser /\ r.acts \in Seq(Acted) /\ r = [p |-> r.p, acts |-> r.acts]
  BY <1>1 DEF ReadOK
<1>3. QED
  BY <1>2 DEF Does, r

LEMMA DoesNothing ==
    ASSUME NEW p \in Parser
    PROVE  Does(p, <<>>, p, <<>>)
<1>1. <<>> \in Seq(Byte) /\ <<>> \in Seq(Acted)
  OBVIOUS
<1>2. QED
  BY <1>1, ReadingEquations DEF Does, Unread

LEMMA DoesOneMore ==
    ASSUME NEW p, NEW w, NEW q, NEW acts, Does(p, w, q, acts), NEW b \in Byte
    PROVE  Does(p, Append(w, b), VtStep(q, b).p, acts \o VtStep(q, b).acts)
<1> DEFINE c == VtStep(q, b).acts
           r == VtStep(q, b).p
<1>1. p \in Parser /\ w \in Seq(Byte) /\ q \in Parser /\ acts \in Seq(Acted)
  BY DEF Does
<1>2. c \in Seq(Acted) /\ r \in Parser
  BY <1>1, VtStepType
<1>3. Reading(p, Append(w, b)) = PerformOn([p |-> q, acts |-> acts], b)
  BY <1>1, ReadingEquations DEF Does
<1>4. PerformOn([p |-> q, acts |-> acts], b) = [p |-> r, acts |-> acts \o c]
  BY DEF PerformOn
<1>5. Append(w, b) \in Seq(Byte)
  BY <1>1
<1> HIDE DEF c, r
<1>6. acts \o c \in Seq(Acted)
  BY <1>1, <1>2
<1>7. QED
  BY <1>1, <1>2, <1>3, <1>4, <1>5, <1>6 DEF Does, c, r

LEMMA DoesThen ==
    \A w \in Seq(Byte) : \A p, v, q, acts, r, more :
        Does(p, v, q, acts) /\ Does(q, w, r, more) => Does(p, v \o w, r, acts \o more)
<1> DEFINE T == {w \in Seq(Byte) : \A p, v, q, acts, r, more :
                    Does(p, v, q, acts) /\ Does(q, w, r, more) => Does(p, v \o w, r, acts \o more)}
<1>1. ASSUME NEW p, NEW v, NEW q, NEW acts, NEW r, NEW more,
             Does(p, v, q, acts), Does(q, <<>>, r, more)
      PROVE  Does(p, v \o <<>>, r, acts \o more)
  <2>1. Reading(q, <<>>) = [p |-> q, acts |-> <<>>] /\ Reading(q, <<>>) = [p |-> r, acts |-> more]
    BY <1>1, ReadingEquations DEF Does, Unread
  <2>2. r = q /\ more = <<>>
    BY <2>1
  <2>3. v \o <<>> = v /\ acts \o <<>> = acts
    BY <1>1 DEF Does
  <2>4. QED
    BY <1>1, <2>2, <2>3
<1>2. ASSUME NEW w \in Seq(Byte), NEW b \in Byte, w \in T,
             NEW p, NEW v, NEW q, NEW acts, NEW r, NEW more,
             Does(p, v, q, acts), Does(q, Append(w, b), r, more)
      PROVE  Does(p, v \o Append(w, b), r, acts \o more)
  <2> DEFINE m == Reading(q, w).p
             c == Reading(q, w).acts
             e == VtStep(m, b).acts
             n == VtStep(m, b).p
  <2>1. p \in Parser /\ v \in Seq(Byte) /\ q \in Parser /\ acts \in Seq(Acted)
    BY <1>2 DEF Does
  <2>2. Does(q, w, m, c)
    BY <2>1, ReadingDoes
  <2>3. Does(p, v \o w, m, acts \o c)
    BY <1>2, <2>2
  <2> HIDE DEF m, c
  <2>4. /\ Does(q, Append(w, b), n, c \o e)
        /\ Does(p, Append(v \o w, b), n, (acts \o c) \o e)
    BY <2>2, <2>3, DoesOneMore
  <2>5. [p |-> r, acts |-> more] = [p |-> n, acts |-> c \o e]
    BY <1>2, <2>4 DEF Does
  <2>6. m \in Parser /\ c \in Seq(Acted)
    BY <2>2 DEF Does
  <2>7. e \in Seq(Acted)
    BY <2>6, VtStepType
  <2> HIDE DEF e, n
  <2>8. r = n /\ more = c \o e
    BY <2>5
  <2>9. (acts \o c) \o e = acts \o (c \o e)
    <3>1. acts \in Seq(Acted) /\ c \in Seq(Acted) /\ e \in Seq(Acted)
      BY <2>1, <2>6, <2>7
    <3>2. QED
      BY <3>1, Concatenation, SMTT(60)
  <2>10. Append(v \o w, b) = v \o Append(w, b)
    BY <2>1, SMTT(20)
  <2>11. QED
    BY <2>4, <2>8, <2>9, <2>10
<1>3. <<>> \in T
  <2>1. <<>> \in Seq(Byte)
    OBVIOUS
  <2>2. QED
    BY <1>1, <2>1
<1>4. ASSUME NEW w \in Seq(Byte), NEW b \in Byte, w \in T PROVE Append(w, b) \in T
  <2>1. Append(w, b) \in Seq(Byte)
    OBVIOUS
  <2>2. QED
    BY <1>2, <1>4, <2>1
<1>5. \A w \in Seq(Byte) : w \in T
  <2> HIDE DEF T
  <2>1. QED
    BY <1>3, <1>4, Enc!SequencesByInduction
<1>6. QED
  BY <1>5

(***************************************************************************)
(* Advance is what a parser performs, written.                              *)
(***************************************************************************)
PutOut(o, a) == o \o Written("outbound", a)
AdvanceBy(r, b) ==
    LET s == VtStep(r.p, b)
    IN  [p |-> s.p, out |-> FoldLeft(LAMBDA o, a : o \o Written("outbound", a), r.out, s.acts)]
Puts     == INSTANCE FoldFacts WITH Op <- PutOut
Advances == INSTANCE FoldFacts WITH Op <- AdvanceBy

Put(acts)   == Puts!Folded(<<>>, acts)
OutOf(p, s) == Advance("outbound", p, s)

LEMMA PutsOnto ==
    \A acts \in Seq(Acted) : \A o \in Seq(Byte) :
        /\ Puts!Folded(o, acts) \in Seq(Byte)
        /\ Puts!Folded(o, acts) = o \o Puts!Folded(<<>>, acts)
<1>0. <<>> \in Seq(Byte) /\ \A o \in Seq(Byte) : o = o \o <<>>
  OBVIOUS
<1>1. ASSUME NEW o \in Seq(Byte), NEW a \in Acted
      PROVE  PutOut(o, a) = o \o Outbound(a) /\ Outbound(a) \in Seq(Byte)
  BY OutboundType DEF PutOut, Written
<1> DEFINE T == {acts \in Seq(Acted) : \A o \in Seq(Byte) :
                    /\ Puts!Folded(o, acts) \in Seq(Byte)
                    /\ Puts!Folded(o, acts) = o \o Puts!Folded(<<>>, acts)}
<1>2. <<>> \in T
  <2>1. <<>> \in Seq(Acted)
    OBVIOUS
  <2>2. QED
    BY <1>0, <2>1, Puts!FoldEmpty
<1>3. ASSUME NEW acts \in Seq(Acted), NEW a \in Acted, acts \in T
      PROVE  Append(acts, a) \in T
  <2>1. \A o \in Seq(Byte) : Puts!Folded(o, Append(acts, a)) = Puts!Folded(o, acts) \o Outbound(a)
    <3>1. \A o \in Seq(Byte) : Puts!Folded(o, acts) \in Seq(Byte)
      BY <1>3
    <3>2. \A o \in Seq(Byte) : Puts!Folded(o, Append(acts, a)) = PutOut(Puts!Folded(o, acts), a)
      BY Puts!FoldAppend
    <3>3. QED
      BY <1>1, <3>1, <3>2
  <2> SUFFICES ASSUME NEW o \in Seq(Byte)
               PROVE  /\ Puts!Folded(o, Append(acts, a)) \in Seq(Byte)
                      /\ Puts!Folded(o, Append(acts, a)) = o \o Puts!Folded(<<>>, Append(acts, a))
    OBVIOUS
  <2>2. Puts!Folded(o, acts) = o \o Puts!Folded(<<>>, acts) /\ Puts!Folded(<<>>, acts) \in Seq(Byte)
    BY <1>0, <1>3
  <2>3. Outbound(a) \in Seq(Byte)
    BY <1>1
  <2>4. /\ Puts!Folded(o, Append(acts, a)) = (o \o Puts!Folded(<<>>, acts)) \o Outbound(a)
        /\ Puts!Folded(<<>>, Append(acts, a)) = Puts!Folded(<<>>, acts) \o Outbound(a)
    BY <1>0, <2>1, <2>2
  <2> DEFINE w == Puts!Folded(<<>>, acts)
             v == Outbound(a)
  <2>5. w \in Seq(Byte) /\ v \in Seq(Byte)
    BY <2>2, <2>3
  <2> HIDE DEF T, w, v
  <2>6. o \o w \in Seq(Byte) /\ (o \o w) \o v = o \o (w \o v)
    BY <2>5, Concatenation
  <2>7. (o \o w) \o v \in Seq(Byte)
    BY <2>5, <2>6, Concatenation
  <2>8. QED
    BY <2>4, <2>6, <2>7 DEF w, v
<1>4. \A acts \in Seq(Acted) : acts \in T
  <2> HIDE DEF T
  <2>1. QED
    BY <1>2, <1>3, Enc!SequencesByInduction
<1>5. QED
  BY <1>4

LEMMA PutFacts ==
    /\ Put(<<>>) = <<>>
    /\ \A acts \in Seq(Acted), a \in Acted : Put(Append(acts, a)) = Put(acts) \o Outbound(a)
    /\ \A acts \in Seq(Acted) : Put(acts) \in Seq(Byte)
    /\ \A acts, more \in Seq(Acted) : Put(acts \o more) = Put(acts) \o Put(more)
<1>1. Put(<<>>) = <<>>
  BY Puts!FoldEmpty DEF Put
<1>2. \A acts \in Seq(Acted), a \in Acted : Put(Append(acts, a)) = Put(acts) \o Outbound(a)
  BY Puts!FoldAppend DEF Put, PutOut, Written
<1>3. \A acts \in Seq(Acted) : Put(acts) \in Seq(Byte)
  <2>1. <<>> \in Seq(Byte)
    OBVIOUS
  <2>2. QED
    BY <2>1, PutsOnto DEF Put
<1> DEFINE T == {more \in Seq(Acted) :
                    \A acts \in Seq(Acted) : Put(acts \o more) = Put(acts) \o Put(more)}
<1>4. <<>> \in T
  <2> SUFFICES ASSUME NEW acts \in Seq(Acted) PROVE Put(acts \o <<>>) = Put(acts) \o Put(<<>>)
    OBVIOUS
  <2>1. Put(acts) \o <<>> = Put(acts) /\ acts \o <<>> = acts
    BY <1>3
  <2>2. QED
    BY <1>1, <2>1
<1>5. ASSUME NEW more \in Seq(Acted), NEW a \in Acted, more \in T PROVE Append(more, a) \in T
  <2> SUFFICES ASSUME NEW acts \in Seq(Acted)
               PROVE  Put(acts \o Append(more, a)) = Put(acts) \o Put(Append(more, a))
    OBVIOUS
  <2> DEFINE x == Put(acts)
             y == Put(more)
             z == Outbound(a)
  <2>1. acts \o Append(more, a) = Append(acts \o more, a) /\ acts \o more \in Seq(Acted)
    OBVIOUS
  <2>2. Put(acts \o more) = x \o y
    BY <1>5
  <2>3. Put(acts \o Append(more, a)) = (x \o y) \o z
    BY <1>2, <2>1, <2>2
  <2>4. Put(Append(more, a)) = y \o z
    BY <1>2
  <2>5. x \in Seq(Byte) /\ y \in Seq(Byte) /\ z \in Seq(Byte)
    BY <1>3, OutboundType
  <2> HIDE DEF x, y, z
  <2>6. (x \o y) \o z = x \o (y \o z)
    BY <2>5, Concatenation, SMTT(60)
  <2>7. QED
    BY <2>3, <2>4, <2>6 DEF x
<1>6. \A more \in Seq(Acted) : more \in T
  <2> HIDE DEF T
  <2>1. QED
    BY <1>4, <1>5, Enc!SequencesByInduction
<1>7. QED
  BY <1>1, <1>2, <1>3, <1>6

LEMMA AdvanceFolds ==
    \A p, s : OutOf(p, s) = Advances!Folded([p |-> p, out |-> <<>>], s)
BY DEF OutOf, Advance, AdvanceBy, Advances!Folded, FoldLeft, MapThenFoldSet,
       Advances!MapThenFoldSet, Max, Advances!Max

LEMMA AdvanceByPuts ==
    ASSUME NEW r, NEW b
    PROVE  AdvanceBy(r, b) = [p   |-> VtStep(r.p, b).p,
                              out |-> Puts!Folded(r.out, VtStep(r.p, b).acts)]
<1>1. \A u, s : FoldLeft(LAMBDA x, a : x \o Written("outbound", a), u, s) = Puts!Folded(u, s)
  BY DEF PutOut, Puts!Folded, FoldLeft, MapThenFoldSet,
         Puts!MapThenFoldSet, Max, Puts!Max
<1>2. QED
  BY <1>1, Zenon DEF AdvanceBy

LEMMA AdvanceReads ==
    \A s \in Seq(Byte) : \A p, q, acts :
        Does(p, s, q, acts) => OutOf(p, s) = [p |-> q, out |-> Put(acts)]
<1> DEFINE T == {s \in Seq(Byte) : \A p, q, acts :
                    Does(p, s, q, acts) => OutOf(p, s) = [p |-> q, out |-> Put(acts)]}
<1>1. ASSUME NEW p, NEW q, NEW acts, Does(p, <<>>, q, acts)
      PROVE  OutOf(p, <<>>) = [p |-> q, out |-> Put(acts)]
  <2>1. Reading(p, <<>>) = [p |-> p, acts |-> <<>>] /\ Reading(p, <<>>) = [p |-> q, acts |-> acts]
    BY <1>1, ReadingEquations DEF Does, Unread
  <2>2. q = p /\ acts = <<>>
    BY <2>1
  <2>3. OutOf(p, <<>>) = [p |-> p, out |-> <<>>]
    BY AdvanceFolds, Advances!FoldEmpty
  <2>4. QED
    BY <2>2, <2>3, PutFacts
<1>2. ASSUME NEW s \in Seq(Byte), NEW b \in Byte, s \in T,
             NEW p, NEW q, NEW acts, Does(p, Append(s, b), q, acts)
      PROVE  OutOf(p, Append(s, b)) = [p |-> q, out |-> Put(acts)]
  <2> DEFINE m == Reading(p, s).p
             c == Reading(p, s).acts
             e == VtStep(m, b).acts
             n == VtStep(m, b).p
  <2>1. Does(p, s, m, c)
    BY <1>2, ReadingDoes DEF Does
  <2> HIDE DEF m, c
  <2>2. Does(p, Append(s, b), n, c \o e)
    BY <2>1, DoesOneMore
  <2>3. [p |-> q, acts |-> acts] = [p |-> n, acts |-> c \o e]
    BY <1>2, <2>2 DEF Does
  <2>4. m \in Parser /\ c \in Seq(Acted)
    BY <2>1 DEF Does
  <2>5. e \in Seq(Acted)
    BY <2>4, VtStepType
  <2>6. OutOf(p, Append(s, b)) = AdvanceBy(OutOf(p, s), b)
    BY AdvanceFolds, Advances!FoldAppend
  <2>7. OutOf(p, s) = [p |-> m, out |-> Put(c)]
    BY <1>2, <2>1
  <2>8. AdvanceBy([p |-> m, out |-> Put(c)], b) = [p |-> n, out |-> Puts!Folded(Put(c), e)]
    BY AdvanceByPuts
  <2>9. Puts!Folded(Put(c), e) = Put(c) \o Put(e)
    <3>1. Put(c) \in Seq(Byte)
      BY <2>4, PutFacts
    <3>2. QED
      BY <2>5, <3>1, PutsOnto DEF Put
  <2> HIDE DEF e, n
  <2>10. q = n /\ acts = c \o e
    BY <2>3
  <2>11. Put(acts) = Put(c) \o Put(e)
    BY <2>4, <2>5, <2>10, PutFacts
  <2>12. QED
    BY <2>6, <2>7, <2>8, <2>9, <2>10, <2>11
<1>3. <<>> \in T
  <2>1. <<>> \in Seq(Byte)
    OBVIOUS
  <2>2. QED
    BY <1>1, <2>1
<1>4. ASSUME NEW s \in Seq(Byte), NEW b \in Byte, s \in T PROVE Append(s, b) \in T
  <2>1. Append(s, b) \in Seq(Byte)
    OBVIOUS
  <2>2. QED
    BY <1>2, <1>4, <2>1
<1>5. \A s \in Seq(Byte) : s \in T
  <2> HIDE DEF T
  <2>1. QED
    BY <1>3, <1>4, Enc!SequencesByInduction
<1>6. QED
  BY <1>5

LEMMA GroundIsParser == Ground \in Parser
BY StartType DEF Ground

(* What the filter makes of a whole is what it makes of the first part and,    *)
(* from the state that leaves the parser in, of the second, wherever the cut is *)
(* (OutboundStream, outbound.rs:31).                                         *)
THEOREM AdvanceInParts ==
    ASSUME NEW p \in Parser, NEW s \in Seq(Byte), NEW t \in Seq(Byte)
    PROVE  OutOf(p, s \o t) = [p   |-> OutOf(OutOf(p, s).p, t).p,
                               out |-> OutOf(p, s).out \o OutOf(OutOf(p, s).p, t).out]
<1> DEFINE q == Reading(p, s).p
           a == Reading(p, s).acts
           r == Reading(q, t).p
           c == Reading(q, t).acts
<1>1. Does(p, s, q, a)
  BY ReadingDoes
<1>2. Does(q, t, r, c)
  BY <1>1, ReadingDoes DEF Does
<1> HIDE DEF q, a, r, c
<1>3. Does(p, s \o t, r, a \o c)
  BY <1>1, <1>2, DoesThen
<1>4. s \o t \in Seq(Byte)
  OBVIOUS
<1>5. OutOf(p, s) = [p |-> q, out |-> Put(a)]
  BY <1>1, AdvanceReads
<1>6. OutOf(q, t) = [p |-> r, out |-> Put(c)]
  BY <1>2, AdvanceReads
<1>7. OutOf(p, s \o t) = [p |-> r, out |-> Put(a \o c)]
  <2> DEFINE u == s \o t
             e == a \o c
  <2>1. u \in Seq(Byte) /\ Does(p, u, r, e)
    BY <1>3, <1>4
  <2> HIDE DEF u, e
  <2>2. OutOf(p, u) = [p |-> r, out |-> Put(e)]
    BY <2>1, AdvanceReads
  <2>3. QED
    BY <2>2 DEF u, e
<1>8. Put(a \o c) = Put(a) \o Put(c)
  BY <1>1, <1>2, PutFacts DEF Does
<1> DEFINE first  == OutOf(p, s)
           second == OutOf(q, t)
           x      == Put(a)
           y      == Put(c)
<1>9. first = [p |-> q, out |-> x] /\ second = [p |-> r, out |-> y]
  BY <1>5, <1>6
<1> HIDE DEF first, second, x, y
<1>10. first.p = q /\ first.out = x /\ second.p = r /\ second.out = y
  BY <1>9
<1>11. OutOf(p, s \o t) = [p |-> second.p, out |-> first.out \o second.out]
  BY <1>7, <1>8, <1>10 DEF x, y
<1>12. QED
  BY <1>10, <1>11 DEF first, second

(***************************************************************************)
(* What is written of parameters: numbers in decimal, joined.               *)
(***************************************************************************)
LEMMA JoinedIsFold ==
    \A s : Joined(s, 58) = Colon!Folded(<<>>, s) /\ Joined(s, 59) = Semicolon!Folded(<<>>, s)
<1>1. \A s : Joined(s, 58) = Colon!Folded(<<>>, s)
  BY DEF Joined, JoinColon, Colon!Folded, FoldLeft, MapThenFoldSet,
         Colon!MapThenFoldSet, Max, Colon!Max
<1>2. \A s : Joined(s, 59) = Semicolon!Folded(<<>>, s)
  BY DEF Joined, JoinSemicolon, Semicolon!Folded, FoldLeft, MapThenFoldSet,
         Semicolon!MapThenFoldSet, Max, Semicolon!Max
<1>3. QED
  BY <1>1, <1>2

Separator == {58, 59}
JoinTo(s, sep, part) == IF s = <<>> THEN part ELSE Append(s, sep) \o part

LEMMA JoinedEquations ==
    ASSUME NEW sep \in Separator
    PROVE  /\ Joined(<<>>, sep) = <<>>
           /\ \A s \in Seq(Some(Byte)), x \in Some(Byte) :
                 Joined(Append(s, x), sep) = JoinTo(Joined(s, sep), sep, x)
           /\ \A s \in Some(Some(Byte)) : Joined(s, sep) \in Some(Byte)
<1>1. Joined(<<>>, sep) = <<>>
  <2>1. Joined(<<>>, 58) = <<>> /\ Joined(<<>>, 59) = <<>>
    BY JoinedIsFold, Colon!FoldEmpty, Semicolon!FoldEmpty
  <2>2. QED
    BY <2>1 DEF Separator
<1>2. ASSUME NEW s \in Seq(Some(Byte)), NEW x \in Some(Byte)
      PROVE  Joined(Append(s, x), sep) = JoinTo(Joined(s, sep), sep, x)
  <2>1. Joined(Append(s, x), 58) = JoinTo(Joined(s, 58), 58, x)
    <3>1. Colon!Folded(<<>>, Append(s, x)) = JoinColon(Colon!Folded(<<>>, s), x)
      BY Colon!FoldAppend
    <3>2. \A w : JoinColon(w, x) = JoinTo(w, 58, x)
      BY DEF JoinColon, JoinTo
    <3>3. QED
      BY <3>1, <3>2, JoinedIsFold
  <2>2. Joined(Append(s, x), 59) = JoinTo(Joined(s, 59), 59, x)
    <3>1. Semicolon!Folded(<<>>, Append(s, x)) = JoinSemicolon(Semicolon!Folded(<<>>, s), x)
      BY Semicolon!FoldAppend
    <3>2. \A w : JoinSemicolon(w, x) = JoinTo(w, 59, x)
      BY DEF JoinSemicolon, JoinTo
    <3>3. QED
      BY <3>1, <3>2, JoinedIsFold
  <2>3. QED
    BY <2>1, <2>2 DEF Separator
<1> DEFINE T == {s \in Seq(Some(Byte)) : Joined(s, sep) \in Seq(Byte)
                                         /\ (s # <<>> => Joined(s, sep) \in Some(Byte))}
<1>3. <<>> \in T
  <2>1. <<>> \in Seq(Some(Byte)) /\ <<>> \in Seq(Byte)
    OBVIOUS
  <2>2. QED
    BY <1>1, <2>1
<1>4. ASSUME NEW s \in Seq(Some(Byte)), NEW x \in Some(Byte), s \in T
      PROVE  Append(s, x) \in T
  <2>1. sep \in Byte
    BY NumbersAre DEF Separator
  <2>2. \A w \in Seq(Byte) : JoinTo(w, sep, x) \in Some(Byte)
    <3>1. x \in Seq(Byte) /\ x # <<>>
      BY DEF Some
    <3>2. \A w \in Seq(Byte) : Append(w, sep) \o x \in Seq(Byte) /\ Append(w, sep) \o x # <<>>
      BY <2>1, <3>1
    <3>3. QED
      BY <3>1, <3>2 DEF JoinTo, Some
  <2>3. Joined(Append(s, x), sep) \in Some(Byte)
    BY <1>2, <1>4, <2>2
  <2>4. Append(s, x) \in Seq(Some(Byte)) /\ \A w \in Some(Byte) : w \in Seq(Byte)
    BY DEF Some
  <2>5. QED
    BY <2>3, <2>4
<1>5. \A s \in Seq(Some(Byte)) : s \in T
  <2> HIDE DEF T
  <2>1. QED
    BY <1>3, <1>4, Enc!SequencesByInduction
<1>6. ASSUME NEW s \in Some(Some(Byte)) PROVE Joined(s, sep) \in Some(Byte)
  <2>1. s \in Seq(Some(Byte)) /\ s # <<>>
    BY DEF Some
  <2>2. QED
    BY <1>5, <2>1
<1>7. QED
  BY <1>1, <1>2, <1>6

LEMMA DecSome == \A n \in Num : Dec[n] \in Some(Byte)
<1> SUFFICES ASSUME NEW n \in Num PROVE Dec[n] # <<>>
  BY DecType DEF Some
<1>1. n \in Nat
  BY NumbersAre
<1>2. CASE n < 10
  <2>1. Dec[n] = <<48 + n>>
    BY <1>2, DecRecurs DEF Decimal
  <2> DEFINE c == 48 + n
  <2> HIDE DEF c
  <2>2. Dec[n] = <<c>>
    BY <2>1 DEF c
  <2>3. QED
    BY <2>2
<1>3. CASE ~(n < 10)
  <2>1. n \div 10 \in Num
    <3>1. n <= MaxParam /\ MaxParam \in Nat
      BY NumbersAre
    <3>2. n \div 10 \in Nat /\ n \div 10 <= n
      BY <1>1
    <3>3. QED
      BY <1>1, <3>1, <3>2, NumbersAre
  <2>2. Dec[n \div 10] \in Seq(Byte)
    BY <2>1, DecType
  <2>3. Dec[n] = Append(Dec[n \div 10], 48 + (n % 10))
    BY <1>3, DecRecurs DEF Decimal
  <2>4. QED
    BY <2>2, <2>3
<1>4. QED
  BY <1>2, <1>3

LEMMA NumbersGrow ==
    ASSUME NEW sep \in Separator
    PROVE  /\ Numbers(<<>>, sep) = <<>>
           /\ \A ns \in Seq(Num), n \in Num :
                 Numbers(Append(ns, n), sep) = JoinTo(Numbers(ns, sep), sep, Dec[n])
           /\ \A ns \in Some(Num) : Numbers(ns, sep) \in Some(Byte)
<1> DEFINE D(ns) == [i \in DOMAIN ns |-> Dec[ns[i]]]
<1>1. Numbers(<<>>, sep) = <<>>
  <2>1. D(<<>>) = <<>>
    OBVIOUS
  <2>2. QED
    BY <2>1, JoinedEquations DEF Numbers
<1>2. ASSUME NEW ns \in Seq(Num)
      PROVE  D(ns) \in Seq(Some(Byte)) /\ DOMAIN D(ns) = 1..Len(ns)
  <2>1. DOMAIN ns = 1..Len(ns) /\ Len(ns) \in Nat /\ \A i \in DOMAIN ns : ns[i] \in Num
    OBVIOUS
  <2>2. QED
    BY <2>1, DecSome
<1>3. ASSUME NEW ns \in Seq(Num), NEW n \in Num
      PROVE  D(Append(ns, n)) = Append(D(ns), Dec[n])
  <2> DEFINE m == Append(ns, n)
             k == Len(ns)
  <2>1. m \in Seq(Num) /\ DOMAIN m = 1..k + 1 /\ k \in Nat /\ m[k + 1] = n
        /\ \A i \in 1..k : m[i] = ns[i]
    OBVIOUS
  <2>2. D(ns) \in Seq(Some(Byte)) /\ DOMAIN D(ns) = 1..k /\ Dec[n] \in Some(Byte)
    BY <1>2, DecSome
  <2>3. DOMAIN D(m) = 1..k + 1
    BY <2>1
  <2>4. \A i \in 1..k : D(m)[i] = D(ns)[i]
    BY <2>1
  <2>5. D(m)[k + 1] = Dec[n]
    BY <2>1
  <2> DEFINE d == D(ns)
             e == D(m)
  <2>6. /\ e \in Seq(Some(Byte)) /\ d \in Seq(Some(Byte)) /\ DOMAIN e = 1..k + 1
        /\ DOMAIN d = 1..k /\ k \in Nat
        /\ (\A i \in 1..k : e[i] = d[i]) /\ e[k + 1] = Dec[n]
    BY <1>2, <2>1, <2>2, <2>3, <2>4, <2>5
  <2> HIDE DEF d, e, k
  <2>7. e = Append(d, Dec[n])
    BY <2>2, <2>6
  <2>8. QED
    BY <2>7 DEF d, e
<1>4. ASSUME NEW ns \in Seq(Num), NEW n \in Num
      PROVE  Numbers(Append(ns, n), sep) = JoinTo(Numbers(ns, sep), sep, Dec[n])
  <2> DEFINE d == D(ns)
  <2>1. d \in Seq(Some(Byte)) /\ Dec[n] \in Some(Byte)
    BY <1>2, DecSome
  <2>2. Numbers(ns, sep) = Joined(d, sep) /\ Numbers(Append(ns, n), sep) = Joined(Append(d, Dec[n]), sep)
    BY <1>3 DEF Numbers
  <2> HIDE DEF d
  <2>3. QED
    BY <2>1, <2>2, JoinedEquations
<1>5. ASSUME NEW ns \in Some(Num) PROVE Numbers(ns, sep) \in Some(Byte)
  <2>1. ns \in Seq(Num) /\ Len(ns) \in Nat \ {0}
    BY SomeFacts
  <2>2. D(ns) \in Seq(Some(Byte)) /\ DOMAIN D(ns) = 1..Len(ns)
    BY <1>2, <2>1
  <2>3. D(ns) # <<>>
    BY <2>1, <2>2
  <2>4. D(ns) \in Some(Some(Byte))
    BY <2>2, <2>3 DEF Some
  <2>5. QED
    BY <2>4, JoinedEquations DEF Numbers
<1>6. QED
  BY <1>1, <1>4, <1>5

Body(ps) == Joined([i \in DOMAIN ps |-> Numbers(ps[i], 58)], 59)

LEMMA BodyGrows ==
    /\ Body(<<>>) = <<>>
    /\ \A ps \in Seq(Some(Num)), q \in Some(Num) :
          Body(Append(ps, q)) = JoinTo(Body(ps), 59, Numbers(q, 58))
    /\ \A ps \in Params : Body(ps) \in Some(Byte)
<1> DEFINE D(ps) == [i \in DOMAIN ps |-> Numbers(ps[i], 58)]
<1>0. 58 \in Separator /\ 59 \in Separator
  BY DEF Separator
<1>1. Body(<<>>) = <<>>
  <2>1. D(<<>>) = <<>>
    OBVIOUS
  <2>2. QED
    BY <1>0, <2>1, JoinedEquations DEF Body
<1>2. ASSUME NEW ps \in Seq(Some(Num))
      PROVE  D(ps) \in Seq(Some(Byte)) /\ DOMAIN D(ps) = 1..Len(ps)
  <2>1. DOMAIN ps = 1..Len(ps) /\ Len(ps) \in Nat /\ \A i \in DOMAIN ps : ps[i] \in Some(Num)
    OBVIOUS
  <2>2. QED
    BY <1>0, <2>1, NumbersGrow
<1>3. ASSUME NEW ps \in Seq(Some(Num)), NEW q \in Some(Num)
      PROVE  D(Append(ps, q)) = Append(D(ps), Numbers(q, 58))
  <2> DEFINE m == Append(ps, q)
             k == Len(ps)
             z == Numbers(q, 58)
             d == D(ps)
             e == D(m)
  <2>1. m \in Seq(Some(Num)) /\ DOMAIN m = 1..k + 1 /\ k \in Nat /\ m[k + 1] = q
        /\ \A i \in 1..k : m[i] = ps[i]
    OBVIOUS
  <2>2. d \in Seq(Some(Byte)) /\ DOMAIN d = 1..k /\ z \in Some(Byte)
    BY <1>0, <1>2, NumbersGrow
  <2>3. DOMAIN e = 1..k + 1
    BY <2>1
  <2>4. \A i \in 1..k : e[i] = d[i]
    BY <2>1
  <2>5. e[k + 1] = z
    BY <2>1
  <2>6. e \in Seq(Some(Byte))
    BY <1>2, <2>1
  <2> HIDE DEF d, e, k, z
  <2>7. k \in Nat
    BY <2>1
  <2>8. e = Append(d, z)
    BY <2>2, <2>3, <2>4, <2>5, <2>6, <2>7
  <2>9. QED
    BY <2>8 DEF d, e, z
<1>4. ASSUME NEW ps \in Seq(Some(Num)), NEW q \in Some(Num)
      PROVE  Body(Append(ps, q)) = JoinTo(Body(ps), 59, Numbers(q, 58))
  <2> DEFINE d == D(ps)
             z == Numbers(q, 58)
  <2>1. d \in Seq(Some(Byte)) /\ z \in Some(Byte)
    BY <1>0, <1>2, NumbersGrow
  <2>2. Body(ps) = Joined(d, 59) /\ Body(Append(ps, q)) = Joined(Append(d, z), 59)
    BY <1>3 DEF Body
  <2> HIDE DEF d, z
  <2>3. Joined(Append(d, z), 59) = JoinTo(Joined(d, 59), 59, z)
    BY <1>0, <2>1, JoinedEquations
  <2>4. QED
    BY <2>2, <2>3 DEF z
<1>5. ASSUME NEW ps \in Params PROVE Body(ps) \in Some(Byte)
  <2>1. ps \in Seq(Some(Num)) /\ Len(ps) \in Nat \ {0}
    BY SomeFacts DEF Params
  <2>2. D(ps) \in Seq(Some(Byte)) /\ DOMAIN D(ps) = 1..Len(ps)
    BY <1>2, <2>1
  <2>3. D(ps) # <<>>
    BY <2>1, <2>2
  <2>4. D(ps) \in Some(Some(Byte))
    BY <2>2, <2>3 DEF Some
  <2>5. QED
    BY <1>0, <2>4, JoinedEquations DEF Body
<1>6. QED
  BY <1>1, <1>4, <1>5

(***************************************************************************)
(* A parser that reads a CSI sequence.                                      *)
(***************************************************************************)
State(st, inter, ps, o) == [st |-> st, inter |-> inter, params |-> ps, osc |-> o]
CsiAt(st, inter, ps) == State(st, inter, ps, <<<<>>>>)
Before == {"entry", "param"}

Given(p, x, y)  == [p EXCEPT !.st = x, !.params = y]
Marked(p, x, y) == [p EXCEPT !.st = x, !.inter = y]

LEMMA FieldsGiven ==
    ASSUME NEW st, NEW inter, NEW ps, NEW o, NEW x, NEW y,
           NEW p, p = State(st, inter, ps, o)
    PROVE  /\ Given(p, x, y)
                  = State(x, inter, y, o)
           /\ Marked(p, x, y)
                  = State(x, y, ps, o)
<1>1. Given(p, x, y) = State(x, inter, y, o)
  <2> DEFINE R == [st : {x}, inter : {inter}, params : {y}, osc : {o}]
             r == Given(p, x, y)
             t == State(x, inter, y, o)
  <2>1. r \in R
    BY DEF State, Given, Marked
  <2>2. t \in R
    BY DEF State, Given, Marked
  <2>3. \A u, v \in R : u = v
    BY DEF State, Given, Marked
  <2> HIDE DEF R, r, t
  <2>4. r = t
    BY <2>1, <2>2, <2>3
  <2>5. QED
    BY <2>4 DEF r, t
<1>2. Marked(p, x, y) = State(x, y, ps, o)
  <2> DEFINE R == [st : {x}, inter : {y}, params : {ps}, osc : {o}]
             r == Marked(p, x, y)
             t == State(x, y, ps, o)
  <2>1. r \in R
    BY DEF State, Given, Marked
  <2>2. t \in R
    BY DEF State, Given, Marked
  <2>3. \A u, v \in R : u = v
    BY DEF State, Given, Marked
  <2> HIDE DEF R, r, t
  <2>4. r = t
    BY <2>1, <2>2, <2>3
  <2>5. QED
    BY <2>4 DEF r, t
<1>3. QED
  BY <1>1, <1>2

LEMMA CsiAtType ==
    /\ \A st \in Before, inter \in Seq(Byte), ps \in Params : CsiAt(st, inter, ps) \in Parser
    /\ Start("entry") = CsiAt("entry", <<>>, <<<<0>>>>)
    /\ <<<<0>>>> \in Params
<1>1. <<<<>>>> \in Some(Seq(OscByte)) /\ <<<<0>>>> \in Params
  <2>1. <<>> \in Seq(OscByte) /\ 0 \in Num
    BY NumbersAre
  <2>2. QED
    BY <2>1, SomeFacts DEF Params
<1>2. \A st \in Before, inter \in Seq(Byte), ps \in Params : CsiAt(st, inter, ps) \in Parser
  BY <1>1 DEF CsiAt, State, Parser, Before
<1>3. Start("entry") = CsiAt("entry", <<>>, <<<<0>>>>)
  BY DEF Start, CsiAt, State
<1>4. QED
  BY <1>1, <1>2, <1>3

LEMMA ReplaceLast ==
    ASSUME NEW S, NEW s \in Seq(S), NEW x \in S, NEW y \in S
    PROVE  [Append(s, x) EXCEPT ![Len(s) + 1] = y] = Append(s, y)
<1> DEFINE n == Len(s)
           r == Append(s, x)
           t == Append(s, y)
           u == [r EXCEPT ![n + 1] = y]
<1>1. /\ n \in Nat /\ r \in Seq(S) /\ t \in Seq(S)
      /\ DOMAIN r = 1..n + 1 /\ DOMAIN t = 1..n + 1
      /\ t[n + 1] = y /\ \A i \in 1..n : t[i] = r[i]
  OBVIOUS
<1> HIDE DEF n, r, t
<1>2. u \in Seq(S) /\ DOMAIN u = 1..n + 1 /\ u[n + 1] = y /\ \A i \in 1..n : u[i] = r[i]
  BY <1>1
<1>3. \A i \in 1..n + 1 : u[i] = t[i]
  BY <1>1, <1>2
<1> HIDE DEF u
<1>4. u = t
  BY <1>1, <1>2, <1>3
<1>5. QED
  BY <1>4 DEF n, r, t, u

(* The parameters, while the last one is read. *)
Open(qs, ns, n) == Append(qs, Append(ns, n))

LEMMA OpenFacts ==
    ASSUME NEW qs \in Seq(Some(Num)), NEW ns \in Seq(Num), NEW n \in Num
    PROVE  /\ Open(qs, ns, n) \in Params
           /\ Append(ns, n) \in Some(Num)
           /\ Open(<<>>, <<>>, 0) = <<<<0>>>>
           /\ OpenParam(Open(qs, ns, n)) = n
           /\ \A b : \A m \in Num :
                 LET k == n * 10 + (b - 48)
                 IN  m = (IF k > MaxParam THEN MaxParam ELSE k)
                     => AddDigit(Open(qs, ns, n), b) = Open(qs, ns, m)
           /\ AddLast(Open(qs, ns, n), 0) = Open(qs, Append(ns, n), 0)
           /\ Append(Open(qs, ns, n), <<0>>) = Open(Open(qs, ns, n), <<>>, 0)
<1> DEFINE p == Append(ns, n)
           ps == Append(qs, p)
           i == Len(qs) + 1
           j == Len(ns) + 1
<1>1. p \in Some(Num) /\ ps \in Params
  BY SomeFacts DEF Params
<1>2. Open(<<>>, <<>>, 0) = <<<<0>>>>
  BY DEF Open
<1>3. Len(p) = j /\ p[j] = n /\ DOMAIN p = 1..j /\ j \in Nat /\ p \in Seq(Num)
  OBVIOUS
<1>4. Len(ps) = i /\ ps[i] = p /\ DOMAIN ps = 1..i /\ i \in Nat
  <2>1. ps \in Seq(Some(Num)) /\ p \in Some(Num)
    BY <1>1
  <2> HIDE DEF p
  <2>2. QED
    BY <2>1
<1>5. OpenParam(Open(qs, ns, n)) = n
  <2>1. Open(qs, ns, n) = ps
    BY DEF Open
  <2> HIDE DEF ps, p, i, j
  <2>2. QED
    BY <1>3, <1>4, <2>1 DEF OpenParam
<1>6. \A m \in Num : [p EXCEPT ![j] = m] = Append(ns, m)
  BY ReplaceLast
<1>7. \A q \in Some(Num) : [ps EXCEPT ![i] = q] = Append(qs, q)
  <2> HIDE DEF p
  <2>1. QED
    BY <1>1, ReplaceLast
<1>8. ASSUME NEW b, NEW m \in Num,
             m = (IF n * 10 + (b - 48) > MaxParam THEN MaxParam ELSE n * 10 + (b - 48))
      PROVE  AddDigit(Open(qs, ns, n), b) = Open(qs, ns, m)
  <2>1. Open(qs, ns, n) = ps
    BY DEF Open
  <2>2. AddDigit(ps, b) = [ps EXCEPT ![Len(ps)] = [ps[Len(ps)] EXCEPT ![Len(ps[Len(ps)])] = m]]
    BY <1>5, <1>8, <2>1 DEF AddDigit
  <2> HIDE DEF ps, p, i, j
  <2>3. AddDigit(ps, b) = [ps EXCEPT ![i] = [p EXCEPT ![j] = m]]
    BY <1>3, <1>4, <2>2
  <2>4. AddDigit(ps, b) = Append(qs, Append(ns, m))
    <3>1. Append(ns, m) \in Some(Num)
      BY SomeFacts
    <3>2. QED
      BY <1>6, <1>7, <2>3, <3>1
  <2>5. QED
    BY <2>1, <2>4 DEF Open
<1>9. AddLast(Open(qs, ns, n), 0) = Open(qs, Append(ns, n), 0)
  <2>1. Open(qs, ns, n) = ps
    BY DEF Open
  <2>2. AddLast(ps, 0) = [ps EXCEPT ![Len(ps)] = Append(ps[Len(ps)], 0)]
    BY DEF AddLast
  <2>3. Open(qs, Append(ns, n), 0) = Append(qs, Append(p, 0))
    BY DEF Open
  <2>4. Append(p, 0) \in Some(Num)
    <3>1. 0 \in Num
      BY NumbersAre
    <3> HIDE DEF p
    <3>2. QED
      BY <1>3, <3>1, SomeFacts
  <2> HIDE DEF ps, p, i, j
  <2>5. QED
    BY <1>4, <1>7, <2>1, <2>2, <2>3, <2>4
<1>10. Append(Open(qs, ns, n), <<0>>) = Open(Open(qs, ns, n), <<>>, 0)
  BY DEF Open
<1>11. Open(qs, ns, n) \in Params
  BY <1>1 DEF Open
<1>12. QED
  BY <1>1, <1>2, <1>5, <1>8, <1>9, <1>10, <1>11

(* What single bytes do. *)
LEMMA CsiSteps ==
    ASSUME NEW st \in Before, NEW inter \in Seq(Byte), NEW ps \in Params
    PROVE  /\ \A b \in Digit : VtStep(CsiAt(st, inter, ps), b)
                                 = Step(CsiAt("param", inter, AddDigit(ps, b)), <<>>)
           /\ VtStep(CsiAt(st, inter, ps), 58) = Step(CsiAt("param", inter, AddLast(ps, 0)), <<>>)
           /\ VtStep(CsiAt(st, inter, ps), 59)
                 = Step(CsiAt("param", inter, Append(ps, <<0>>)), <<>>)
           /\ VtStep(CsiAt("entry", <<>>, ps), 63) = Step(CsiAt("param", <<63>>, ps), <<>>)
           /\ \A b \in Final : VtStep(CsiAt(st, inter, ps), b)
                 = Step(Ground, <<[do |-> "csi", params |-> ps, inter |-> inter, final |-> b]>>)
<1> DEFINE p == CsiAt(st, inter, ps)
           high(b) == b \in 127..255
<1>0. p.st = st /\ p.inter = inter /\ p.params = ps /\ st \in {"entry", "param"}
  BY DEF CsiAt, State, Before
<1>1. \A b : b # ESC /\ b \notin {CAN, SUBST} => VtStep(p, b) = InCsi(p, b)
  BY <1>0 DEF VtStep
<1>2. ASSUME NEW q
      PROVE  Given(p, "param", q) = CsiAt("param", inter, q)
  <2>1. p = State(st, inter, ps, <<<<>>>>)
    BY DEF CsiAt, State
  <2> HIDE DEF p
  <2>2. QED
    BY <2>1, FieldsGiven DEF CsiAt
<1>3. ASSUME NEW b, b \notin C0, b \notin Final, ~high(b), b \notin Inter, b \notin Marker
      PROVE  InCsi(p, b) = Step(CsiAt("param", inter, CASE b = 59 -> Append(ps, <<0>>)
                                                        [] b = 58 -> AddLast(ps, 0)
                                                        [] OTHER -> AddDigit(ps, b)), <<>>)
  <2>1. InCsi(p, b) = Step([p EXCEPT !.st = "param",
                           !.params = CASE b = 59 -> Append(@, <<0>>)
                                        [] b = 58 -> AddLast(@, 0)
                                        [] OTHER -> AddDigit(@, b)], <<>>)
    <3> HIDE DEF p
    <3>1. p.st # "ignore" /\ p.st # "inter"
      BY <1>0
    <3>2. QED
      BY <1>3, <3>1 DEF InCsi
  <2> DEFINE q == CASE b = 59 -> Append(ps, <<0>>)
                    [] b = 58 -> AddLast(ps, 0)
                    [] OTHER -> AddDigit(ps, b)
  <2>2. InCsi(p, b) = Step(Given(p, "param", q), <<>>)
    <3> HIDE DEF p
    <3>1. QED
      BY <1>0, <2>1 DEF Given
  <2> HIDE DEF q, p
  <2>3. QED
    BY <1>2, <2>2 DEF q
<1>4. ASSUME NEW b \in Digit
      PROVE  VtStep(p, b) = Step(CsiAt("param", inter, AddDigit(ps, b)), <<>>)
  <2>1. /\ b \notin C0 /\ b \notin Final /\ ~high(b) /\ b \notin Inter /\ b \notin Marker
        /\ b # ESC /\ b \notin {CAN, SUBST} /\ b # 58 /\ b # 59
    BY DEF Digit, C0, Final, Inter, Marker, ESC, CAN, SUBST
  <2> HIDE DEF p, high
  <2>2. QED
    BY <1>1, <1>3, <2>1
<1>5. /\ VtStep(p, 58) = Step(CsiAt("param", inter, AddLast(ps, 0)), <<>>)
      /\ VtStep(p, 59) = Step(CsiAt("param", inter, Append(ps, <<0>>)), <<>>)
  <2>1. \A b \in {58, 59} :
           /\ b \notin C0 /\ b \notin Final /\ ~high(b) /\ b \notin Inter /\ b \notin Marker
           /\ b # ESC /\ b \notin {CAN, SUBST}
    BY DEF C0, Final, Inter, Marker, ESC, CAN, SUBST
  <2> HIDE DEF p, high
  <2>2. VtStep(p, 58) = Step(CsiAt("param", inter, AddLast(ps, 0)), <<>>)
    BY <1>1, <1>3, <2>1
  <2>3. VtStep(p, 59) = Step(CsiAt("param", inter, Append(ps, <<0>>)), <<>>)
    BY <1>1, <1>3, <2>1
  <2>4. QED
    BY <2>2, <2>3
<1>6. VtStep(CsiAt("entry", <<>>, ps), 63) = Step(CsiAt("param", <<63>>, ps), <<>>)
  <2> DEFINE e == CsiAt("entry", <<>>, ps)
  <2>1. /\ 63 \notin C0 /\ 63 \notin Final /\ ~high(63) /\ 63 \notin Inter /\ 63 \in Marker
        /\ 63 # ESC /\ 63 \notin {CAN, SUBST}
    BY DEF C0, Final, Inter, Marker, ESC, CAN, SUBST
  <2>2. e.st = "entry"
    BY DEF CsiAt, State
  <2>3. [e EXCEPT !.st = "param", !.inter = Append(@, 63)] = CsiAt("param", <<63>>, ps)
    <3>1. e.inter = <<>> /\ Append(<<>>, 63) = <<63>>
      BY DEF CsiAt, State
    <3>2. e = State("entry", <<>>, ps, <<<<>>>>)
      BY DEF CsiAt, State
    <3> HIDE DEF e
    <3>3. Marked(e, "param", <<63>>) = CsiAt("param", <<63>>, ps)
      BY <3>2, FieldsGiven DEF CsiAt
    <3>4. QED
      BY <3>1, <3>3 DEF Marked
  <2> HIDE DEF e, p
  <2>4. VtStep(e, 63) = InCsi(e, 63)
    BY <2>1, <2>2 DEF VtStep
  <2>5. InCsi(e, 63) = Step([e EXCEPT !.st = "param", !.inter = Append(@, 63)], <<>>)
    BY <2>1, <2>2 DEF InCsi
  <2>6. QED
    BY <2>3, <2>4, <2>5 DEF e
<1>7. ASSUME NEW b \in Final
      PROVE  VtStep(p, b)
                 = Step(Ground, <<[do |-> "csi", params |-> ps, inter |-> inter, final |-> b]>>)
  <2>1. b \notin C0 /\ b # ESC /\ b \notin {CAN, SUBST}
    BY DEF Final, C0, ESC, CAN, SUBST
  <2>2. Csi(p, b) = [do |-> "csi", params |-> ps, inter |-> inter, final |-> b]
    BY <1>0 DEF Csi
  <2> HIDE DEF p
  <2>3. InCsi(p, b) = Step(Ground, <<Csi(p, b)>>)
    BY <1>0, <2>1 DEF InCsi
  <2>4. QED
    BY <1>1, <2>1, <2>2, <2>3
<1>8. QED
  BY <1>4, <1>5, <1>6, <1>7

(* Read without a thing to perform. *)
Quiet(p, w, q) == Does(p, w, q, <<>>)

LEMMA DoesStep ==
    ASSUME NEW p, NEW w, NEW q, NEW acts, Does(p, w, q, acts), NEW b \in Byte,
           NEW r, NEW more, VtStep(q, b) = Step(r, more)
    PROVE  Does(p, Append(w, b), r, acts \o more)
<1>1. VtStep(q, b).p = r /\ VtStep(q, b).acts = more
  BY DEF Step
<1>2. QED
  BY <1>1, DoesOneMore

LEMMA QuietFacts ==
    /\ \A p \in Parser : Quiet(p, <<>>, p)
    /\ \A p, w, q, r : \A b \in Byte :
          Quiet(p, w, q) /\ VtStep(q, b) = Step(r, <<>>) => Quiet(p, Append(w, b), r)
    /\ \A p, v, q, w, r, acts :
          Quiet(p, v, q) /\ Does(q, w, r, acts) => Does(p, v \o w, r, acts)
    /\ \A p, w, q : Quiet(p, w, q) => p \in Parser /\ w \in Seq(Byte) /\ q \in Parser
<1>1. \A p \in Parser : Quiet(p, <<>>, p)
  BY DoesNothing DEF Quiet
<1>2. ASSUME NEW p, NEW w, NEW q, NEW r, NEW b \in Byte,
             Quiet(p, w, q), VtStep(q, b) = Step(r, <<>>)
      PROVE  Quiet(p, Append(w, b), r)
  <2>1. Does(p, Append(w, b), r, <<>> \o <<>>)
    BY <1>2, DoesStep DEF Quiet
  <2>2. <<>> \o <<>> = <<>>
    OBVIOUS
  <2>3. QED
    BY <2>1, <2>2 DEF Quiet
<1>3. ASSUME NEW p, NEW v, NEW q, NEW w, NEW r, NEW acts, Quiet(p, v, q), Does(q, w, r, acts)
      PROVE  Does(p, v \o w, r, acts)
  <2>1. w \in Seq(Byte) /\ acts \in Seq(Acted)
    BY <1>3 DEF Does
  <2>2. Does(p, v \o w, r, <<>> \o acts)
    BY <1>3, <2>1, DoesThen DEF Quiet
  <2>3. <<>> \o acts = acts
    BY <2>1
  <2>4. QED
    BY <2>2, <2>3
<1>4. \A p, w, q : Quiet(p, w, q) => p \in Parser /\ w \in Seq(Byte) /\ q \in Parser
  BY DEF Quiet, Does
<1>5. QED
  BY <1>1, <1>2, <1>3, <1>4

LEMMA QuietThen ==
    \A p, v, q, w, r : Quiet(p, v, q) /\ Quiet(q, w, r) => Quiet(p, v \o w, r)
BY QuietFacts DEF Quiet

(* A number that is read again is the number that was written. *)
LEMMA DigitsRead ==
    ASSUME NEW st \in Before, NEW inter \in Seq(Byte),
           NEW qs \in Seq(Some(Num)), NEW ns \in Seq(Num)
    PROVE  \A n \in Num : Quiet(CsiAt(st, inter, Open(qs, ns, 0)), Dec[n],
                                CsiAt("param", inter, Open(qs, ns, n)))
<1> DEFINE p == CsiAt(st, inter, Open(qs, ns, 0))
           Is(n) == CsiAt("param", inter, Open(qs, ns, n))
           T == {k \in Nat : \A n \in 0..k : n \in Num => Quiet(p, Dec[n], Is(n))}
<1>0. 0 \in Num /\ "param" \in Before
  BY NumbersAre DEF Before
<1>1. ASSUME NEW s \in Before, NEW m \in Num, NEW d \in 0..9, m * 10 + d \in Num
      PROVE  VtStep(CsiAt(s, inter, Open(qs, ns, m)), 48 + d) = Step(Is(m * 10 + d), <<>>)
  <2> DEFINE k == m * 10 + d
             b == 48 + d
             k2 == m * 10 + (b - 48)
  <2>1. m \in Nat /\ k <= MaxParam /\ b \in Digit
    BY <1>1, NumbersAre DEF Digit
  <2>2. k2 = k
    BY <2>1
  <2>3. k = IF k2 > MaxParam THEN MaxParam ELSE k2
    BY <2>1, <2>2, NumbersAre
  <2>4. Open(qs, ns, m) \in Params
    BY OpenFacts
  <2> HIDE DEF b, k
  <2>5. AddDigit(Open(qs, ns, m), b) = Open(qs, ns, k)
    BY <1>1, <2>3, OpenFacts DEF k
  <2>6. VtStep(CsiAt(s, inter, Open(qs, ns, m)), b)
          = Step(CsiAt("param", inter, AddDigit(Open(qs, ns, m), b)), <<>>)
    BY <2>1, <2>4, CsiSteps
  <2>7. QED
    BY <2>5, <2>6 DEF b, k
<1>2. p \in Parser
  BY <1>0, OpenFacts, CsiAtType
<1>3. ASSUME NEW n \in Num, n < 10 PROVE Quiet(p, Dec[n], Is(n))
  <2>0. n \in Nat
    BY NumbersAre
  <2>1. n \in Nat /\ n \in 0..9 /\ 0 * 10 + n = n
    BY <1>3, <2>0
  <2>2. VtStep(p, 48 + n) = Step(Is(n), <<>>)
    BY <1>0, <1>1, <2>1
  <2>3. 48 + n \in Byte
    <3>1. 48 + n \in Nat /\ 48 + n <= 255
      BY <2>1
    <3>2. QED
      BY <3>1, NumbersAre, Zenon
  <2>4. Dec[n] = <<48 + n>>
    BY <1>3, DecRecurs DEF Decimal
  <2> DEFINE c == 48 + n
  <2>5. VtStep(p, c) = Step(Is(n), <<>>) /\ c \in Byte /\ Dec[n] = <<c>>
    BY <2>2, <2>3, <2>4
  <2> HIDE DEF c, p, Is
  <2>6. <<c>> = Append(<<>>, c)
    OBVIOUS
  <2>7. Quiet(p, Append(<<>>, c), Is(n))
    BY <1>2, <2>5, QuietFacts
  <2>8. QED
    BY <2>5, <2>6, <2>7
<1>4. 0 \in T
  <2>1. \A n \in 0..0 : n < 10
    OBVIOUS
  <2> HIDE DEF p, Is
  <2>2. QED
    BY <1>3, <2>1
<1>5. ASSUME NEW k \in Nat, k \in T PROVE k + 1 \in T
  <2> DEFINE n == k + 1
             m == n \div 10
             d == n % 10
  <2> SUFFICES ASSUME n \in Num, n >= 10 PROVE Quiet(p, Dec[n], Is(n))
    <3> HIDE DEF p, Is
    <3>1. QED
      BY <1>3, <1>5
  <2>1. m \in 0..k /\ m \in Num /\ ~(n < 10)
    <3>1. n <= MaxParam
      BY NumbersAre
    <3>2. m \in 0..k /\ m <= n
      OBVIOUS
    <3>3. QED
      BY <3>1, <3>2, NumbersAre
  <2>2. d \in 0..9 /\ m * 10 + d = n /\ 48 + d \in Nat /\ 48 + d <= 255
    OBVIOUS
  <2> DEFINE c == 48 + d
  <2>3. c \in Byte
    BY <2>2, NumbersAre
  <2>4. Dec[n] = Append(Dec[m], c)
    <3> HIDE DEF n
    <3>1. QED
      BY <2>1, DecRecurs DEF Decimal
  <2> HIDE DEF p
  <2>5. Quiet(p, Dec[m], Is(m))
    <3> HIDE DEF m, Is
    <3>1. QED
      BY <1>5, <2>1
  <2>6. VtStep(Is(m), c) = Step(Is(n), <<>>)
    <3> HIDE DEF m, d, n
    <3>1. QED
      BY <1>0, <1>1, <2>1, <2>2
  <2> HIDE DEF c, Is, n, m, d
  <2>7. QED
    BY <2>3, <2>4, <2>5, <2>6, QuietFacts
<1>6. \A k \in Nat : k \in T
  <2> HIDE DEF T
  <2>1. QED
    BY <1>4, <1>5, Enc!NumbersByInduction
<1>7. QED
  <2>1. \A n \in Num : n \in Nat /\ n \in 0..n
    BY NumbersAre
  <2> HIDE DEF p, Is
  <2>2. \A n \in Num : Quiet(p, Dec[n], Is(n))
    BY <1>6, <2>1
  <2>3. QED
    BY <2>2 DEF p, Is

LEMMA LastOf ==
    ASSUME NEW S, NEW s \in Some(S)
    PROVE  \E r \in Seq(S), x \in S : s = Append(r, x)
<1>1. s \in Seq(S) /\ Len(s) \in Nat \ {0} /\ DOMAIN s = 1..Len(s) /\ s[Len(s)] \in S
  BY SomeFacts
<1> DEFINE k == Len(s) - 1
           r == [i \in 1..k |-> s[i]]
<1>2. k \in Nat /\ r \in Seq(S) /\ Len(r) = k
  BY <1>1
<1>3. s = Append(r, s[Len(s)])
  BY <1>1, <1>2
<1> HIDE DEF r, k
<1>4. QED
  BY <1>1, <1>2, <1>3, Zenon

LEMMA SubparamsRead ==
    ASSUME NEW st \in Before, NEW inter \in Seq(Byte), NEW qs \in Seq(Some(Num))
    PROVE  \A ns \in Some(Num) : Quiet(CsiAt(st, inter, Open(qs, <<>>, 0)), Numbers(ns, 58),
                                       CsiAt("param", inter, Append(qs, ns)))
<1> DEFINE p == CsiAt(st, inter, Open(qs, <<>>, 0))
           Is(ns) == CsiAt("param", inter, Append(qs, ns))
           T == {ns \in Seq(Num) : ns # <<>> => Quiet(p, Numbers(ns, 58), Is(ns))}
<1>0. <<>> \in Seq(Num) /\ 0 \in Num /\ 58 \in Separator /\ 58 \in Byte /\ "param" \in Before
  <2>1. <<>> \in Seq(Num)
    OBVIOUS
  <2>2. QED
    <3>1. 0 \in Nat /\ 58 \in Nat /\ 58 <= 255 /\ MaxParam \in Nat /\ 0 <= MaxParam
      BY NumbersAre
    <3>2. 0 \in Num /\ 58 \in Byte
      BY <3>1, NumbersAre, Zenon
    <3>3. 58 \in Separator /\ "param" \in Before
      BY DEF Separator, Before
    <3>4. QED
      BY <2>1, <3>2, <3>3, Zenon
<1>1. <<>> \in T
  BY <1>0
<1>2. ASSUME NEW ns \in Seq(Num), NEW n \in Num, ns \in T PROVE Append(ns, n) \in T
  <2> SUFFICES Quiet(p, Numbers(Append(ns, n), 58), Is(Append(ns, n)))
    OBVIOUS
  <2>1. Is(Append(ns, n)) = CsiAt("param", inter, Open(qs, ns, n))
    BY DEF Open
  <2>2. Numbers(Append(ns, n), 58) = JoinTo(Numbers(ns, 58), 58, Dec[n])
    BY <1>0, NumbersGrow
  <2>3. CASE ns = <<>>
    <3>1. Quiet(p, Dec[n], CsiAt("param", inter, Open(qs, <<>>, n)))
      BY <1>0, DigitsRead
    <3>2. Numbers(Append(ns, n), 58) = Dec[n]
      BY <1>0, <2>2, <2>3, NumbersGrow DEF JoinTo
    <3>3. QED
      BY <2>1, <2>3, <3>1, <3>2
  <2>4. CASE ns # <<>>
    <3> DEFINE w == Numbers(ns, 58)
               v == Dec[n]
               q == CsiAt("param", inter, Open(qs, ns, 0))
               r == CsiAt("param", inter, Open(qs, ns, n))
    <3>1. w \in Some(Byte) /\ v \in Seq(Byte)
      BY <1>0, <2>4, NumbersGrow, DecType DEF Some
    <3>2. Numbers(Append(ns, n), 58) = Append(w, 58) \o v
      BY <2>2, <3>1 DEF JoinTo, Some
    <3>3. Quiet(p, w, Is(ns))
      BY <1>2, <2>4
    <3>4. VtStep(Is(ns), 58) = Step(q, <<>>)
      <4>1. PICK m \in Seq(Num), l \in Num : ns = Append(m, l)
        BY <2>4, LastOf DEF Some
      <4>2. Append(qs, ns) = Open(qs, m, l) /\ Open(qs, m, l) \in Params
            /\ AddLast(Open(qs, m, l), 0) = Open(qs, ns, 0)
        <5>1. Append(qs, ns) = Open(qs, m, l)
          BY <4>1 DEF Open
        <5>2. QED
          BY <4>1, <5>1, OpenFacts
      <4>3. VtStep(CsiAt("param", inter, Open(qs, m, l)), 58)
              = Step(CsiAt("param", inter, AddLast(Open(qs, m, l), 0)), <<>>)
        BY <1>0, <4>2, CsiSteps
      <4>4. QED
        BY <4>2, <4>3
    <3>5. Quiet(q, v, r)
      BY <1>0, DigitsRead
    <3>6. r = Is(Append(ns, n))
      BY <2>1
    <3> HIDE DEF p, w, v, q, r, Is
    <3>7. Quiet(p, Append(w, 58), q)
      BY <1>0, <3>3, <3>4, QuietFacts
    <3>8. Quiet(p, Append(w, 58) \o v, r)
      BY <3>5, <3>7, QuietThen
    <3>9. QED
      BY <3>2, <3>6, <3>8
  <2>5. QED
    BY <2>3, <2>4
<1>3. \A ns \in Seq(Num) : ns \in T
  <2> HIDE DEF T
  <2>1. QED
    BY <1>1, <1>2, Enc!SequencesByInduction
<1>4. QED
  <2>1. \A ns \in Some(Num) : ns \in Seq(Num) /\ ns # <<>>
    BY DEF Some
  <2>2. QED
    BY <1>3, <2>1

LEMMA ParamsRead ==
    ASSUME NEW st \in Before, NEW inter \in Seq(Byte)
    PROVE  \A ps \in Params : Quiet(CsiAt(st, inter, <<<<0>>>>), Body(ps), CsiAt("param", inter, ps))
<1> DEFINE p == CsiAt(st, inter, <<<<0>>>>)
           Is(ps) == CsiAt("param", inter, ps)
           T == {ps \in Seq(Some(Num)) : ps # <<>> => Quiet(p, Body(ps), Is(ps))}
<1>0. /\ <<>> \in Seq(Some(Num)) /\ <<>> \in Seq(Num) /\ 0 \in Num /\ 58 \in Separator
      /\ 59 \in Byte /\ "param" \in Before
  <2>1. <<>> \in Seq(Some(Num)) /\ <<>> \in Seq(Num)
    OBVIOUS
  <2>2. QED
    BY <2>1, NumbersAre DEF Separator, Before
<1>1. <<>> \in T
  BY <1>0
<1>2. ASSUME NEW ps \in Seq(Some(Num)), NEW ns \in Some(Num), ps \in T PROVE Append(ps, ns) \in T
  <2> SUFFICES Quiet(p, Body(Append(ps, ns)), Is(Append(ps, ns)))
    OBVIOUS
  <2>1. Body(Append(ps, ns)) = JoinTo(Body(ps), 59, Numbers(ns, 58))
    BY BodyGrows
  <2>2. CASE ps = <<>>
    <3>1. Quiet(CsiAt(st, inter, Open(<<>>, <<>>, 0)), Numbers(ns, 58),
                CsiAt("param", inter, Append(<<>>, ns)))
      BY <1>0, SubparamsRead
    <3>2. Open(<<>>, <<>>, 0) = <<<<0>>>>
      BY DEF Open
    <3>3. Body(Append(ps, ns)) = Numbers(ns, 58)
      BY <2>1, <2>2, BodyGrows DEF JoinTo
    <3> HIDE DEF p, Is
    <3>4. Quiet(p, Numbers(ns, 58), Is(Append(ps, ns)))
      BY <2>2, <3>1, <3>2 DEF p, Is
    <3>5. QED
      BY <3>3, <3>4
  <2>3. CASE ps # <<>>
    <3> DEFINE w == Body(ps)
               v == Numbers(ns, 58)
               q == CsiAt("param", inter, Open(ps, <<>>, 0))
               r == Is(Append(ps, ns))
    <3>0. ps \in Params
      BY <2>3 DEF Params, Some
    <3>1. w \in Some(Byte) /\ v \in Seq(Byte)
      BY <1>0, <3>0, NumbersGrow, BodyGrows DEF Some
    <3>2. Body(Append(ps, ns)) = Append(w, 59) \o v
      BY <2>1, <3>1 DEF JoinTo, Some
    <3>3. Quiet(p, w, Is(ps))
      BY <1>2, <2>3
    <3>4. VtStep(Is(ps), 59) = Step(q, <<>>)
      <4>1. Append(ps, <<0>>) = Open(ps, <<>>, 0)
        BY DEF Open
      <4>2. VtStep(CsiAt("param", inter, ps), 59)
              = Step(CsiAt("param", inter, Append(ps, <<0>>)), <<>>)
        BY <1>0, <3>0, CsiSteps
      <4>3. QED
        BY <4>1, <4>2
    <3>5. Quiet(q, v, r)
      BY <1>0, SubparamsRead
    <3> HIDE DEF p, w, v, q, r, Is
    <3>6. Quiet(p, Append(w, 59), q)
      BY <1>0, <3>3, <3>4, QuietFacts
    <3>7. Quiet(p, Append(w, 59) \o v, r)
      BY <3>5, <3>6, QuietThen
    <3>8. QED
      BY <3>2, <3>7 DEF r
  <2>4. QED
    BY <2>2, <2>3
<1>3. \A ps \in Seq(Some(Num)) : ps \in T
  <2> HIDE DEF T
  <2>1. QED
    BY <1>1, <1>2, Enc!SequencesByInduction
<1>4. QED
  <2>1. \A ps \in Params : ps \in Seq(Some(Num)) /\ ps # <<>>
    BY DEF Params, Some
  <2>2. QED
    BY <1>3, <2>1

Told(inter, ps, final) == [do |-> "csi", params |-> ps, inter |-> inter, final |-> final]

(* ESC [ and what opens. *)
LEMMA Opening ==
    /\ VtStep(Ground, ESC) = Step(Start("esc"), <<>>)
    /\ VtStep(Start("esc"), 91) = Step(Start("entry"), <<>>)
    /\ VtStep(Start("esc"), 93) = Step(Start("osc"), <<>>)
    /\ ESC \in Byte /\ 91 \in Byte /\ 93 \in Byte
    /\ Quiet(Ground, <<ESC>>, Start("esc"))
    /\ Quiet(Ground, <<ESC, 91>>, Start("entry"))
    /\ Quiet(Ground, <<ESC, 93>>, Start("osc"))
<1>1. VtStep(Ground, ESC) = Step(Start("esc"), <<>>)
  BY DEF VtStep, OscEnd, Ground, Start
<1> DEFINE e == Start("esc")
<1>2. e.st = "esc" /\ e.inter = <<>>
  BY DEF Start
<1>3. \A b \in {91, 93} : b # ESC /\ b \notin {CAN, SUBST} /\ b \notin C0 /\ b \notin Inter
  BY DEF ESC, CAN, SUBST, C0, Inter
<1> HIDE DEF e
<1>4. \A b \in {91, 93} : VtStep(e, b) = InEscape(e, b)
  BY <1>2, <1>3 DEF VtStep
<1>5. /\ InEscape(e, 91) = Step(Start("entry"), <<>>)
      /\ InEscape(e, 93) = Step(Start("osc"), <<>>)
  BY <1>2, <1>3 DEF InEscape
<1>6. /\ VtStep(Start("esc"), 91) = Step(Start("entry"), <<>>)
      /\ VtStep(Start("esc"), 93) = Step(Start("osc"), <<>>)
  BY <1>4, <1>5 DEF e
<1>7. ESC \in Byte /\ 91 \in Byte /\ 93 \in Byte
  BY NumbersAre DEF ESC
<1>8. Quiet(Ground, <<ESC>>, Start("esc"))
  <2>1. <<ESC>> = Append(<<>>, ESC)
    OBVIOUS
  <2>2. Quiet(Ground, <<>>, Ground)
    BY GroundIsParser, QuietFacts
  <2>3. Quiet(Ground, Append(<<>>, ESC), Start("esc"))
    BY <1>1, <1>7, <2>2, QuietFacts
  <2>4. QED
    BY <2>1, <2>3
<1>9. /\ Quiet(Ground, <<ESC, 91>>, Start("entry"))
      /\ Quiet(Ground, <<ESC, 93>>, Start("osc"))
  <2>1. <<ESC, 91>> = Append(<<ESC>>, 91) /\ <<ESC, 93>> = Append(<<ESC>>, 93)
    OBVIOUS
  <2>2. Quiet(Ground, Append(<<ESC>>, 91), Start("entry"))
    BY <1>6, <1>7, <1>8, QuietFacts
  <2>3. Quiet(Ground, Append(<<ESC>>, 93), Start("osc"))
    BY <1>6, <1>7, <1>8, QuietFacts
  <2>4. QED
    BY <2>1, <2>2, <2>3
<1>10. QED
  BY <1>1, <1>6, <1>7, <1>8, <1>9

(* What the filter writes between the bracket and the parameters.            *)
Marks == {<<>>, <<63>>}

(* A CSI sequence is read as the one that was written, with its parameters    *)
(* or, where there are none, with the default.                             *)
LEMMA CsiReads ==
    ASSUME NEW inter \in Marks, NEW ps \in Params, NEW b \in Final
    PROVE  /\ Does(Ground, <<ESC, 91>> \o inter \o Body(ps) \o <<b>>, Ground,
                   <<Told(inter, ps, b)>>)
           /\ Does(Ground, <<ESC, 91>> \o inter \o <<>> \o <<b>>, Ground,
                   <<Told(inter, <<<<0>>>>, b)>>)
<1> DEFINE d == <<<<0>>>>
<1>00. inter = <<>> \/ inter = <<63>>
  BY DEF Marks
<1>0. d \in Params /\ b \in Byte /\ inter \in Seq(Byte) /\ 63 \in Byte
  <2>1. b \in Byte
    BY NumbersAre DEF Final
  <2>2. 63 \in Byte
    BY NumbersAre
  <2>3. <<>> \in Seq(Byte) /\ <<63>> \in Seq(Byte)
    BY <2>2
  <2>4. inter \in Seq(Byte)
    BY <1>00, <2>3
  <2>5. d \in Params
    BY CsiAtType
  <2>6. QED
    BY <2>1, <2>2, <2>4, <2>5
<1>1. PICK st \in Before : Quiet(Ground, <<ESC, 91>> \o inter, CsiAt(st, inter, d))
  <2>1. Quiet(Ground, <<ESC, 91>>, CsiAt("entry", <<>>, d))
    BY Opening, CsiAtType
  <2>2. CASE inter = <<>>
    <3>1. <<ESC, 91>> \o inter = <<ESC, 91>>
      BY <2>2
    <3>2. "entry" \in Before
      BY DEF Before
    <3> HIDE DEF d
    <3>3. Quiet(Ground, <<ESC, 91>> \o inter, CsiAt("entry", inter, d))
      BY <2>1, <2>2, <3>1
    <3>4. QED
      BY <3>2, <3>3
  <2>3. CASE inter = <<63>>
    <3>1. <<ESC, 91>> \o inter = Append(<<ESC, 91>>, 63)
      BY <2>3
    <3>2. "param" \in Before
      BY DEF Before
    <3>3. VtStep(CsiAt("entry", <<>>, d), 63) = Step(CsiAt("param", <<63>>, d), <<>>)
      BY <1>0, <3>2, CsiSteps
    <3> HIDE DEF d
    <3>4. Quiet(Ground, Append(<<ESC, 91>>, 63), CsiAt("param", <<63>>, d))
      BY <1>0, <2>1, <3>3, QuietFacts
    <3>5. Quiet(Ground, <<ESC, 91>> \o inter, CsiAt("param", inter, d))
      BY <2>3, <3>1, <3>4
    <3>6. QED
      BY <3>2, <3>5
  <2>4. QED
    BY <1>00, <2>2, <2>3
<1>2. ASSUME NEW s \in Before, NEW q \in Params, NEW w, Quiet(Ground, w, CsiAt(s, inter, q))
      PROVE  Does(Ground, w \o <<b>>, Ground, <<Told(inter, q, b)>>)
  <2>1. VtStep(CsiAt(s, inter, q), b) = Step(Ground, <<Told(inter, q, b)>>)
    BY <1>0, <1>2, CsiSteps DEF Told
  <2>2. Does(Ground, Append(w, b), Ground, <<>> \o <<Told(inter, q, b)>>)
    BY <1>0, <1>2, <2>1, DoesStep DEF Quiet
  <2>3. <<>> \o <<Told(inter, q, b)>> = <<Told(inter, q, b)>>
    OBVIOUS
  <2>4. w \in Seq(Byte)
    BY <1>2, QuietFacts
  <2>5. w \o <<b>> = Append(w, b)
    BY <1>0, <2>4
  <2>6. QED
    BY <2>2, <2>3, <2>5
<1> DEFINE v == <<ESC, 91>> \o inter
<1>3. v \in Seq(Byte) /\ v \o <<>> = v
  <2>1. <<ESC, 91>> \in Seq(Byte)
    BY Opening
  <2>2. QED
    BY <1>0, <2>1, Concatenation
<1> HIDE DEF d, v
<1>4. Quiet(Ground, v \o <<>>, CsiAt(st, inter, d))
  BY <1>1, <1>3 DEF v
<1>5. Quiet(Ground, v \o Body(ps), CsiAt("param", inter, ps))
  <2>1. Quiet(CsiAt(st, inter, d), Body(ps), CsiAt("param", inter, ps))
    BY <1>0, ParamsRead DEF d
  <2>2. Quiet(Ground, v, CsiAt(st, inter, d))
    BY <1>1 DEF v
  <2>3. QED
    BY <2>1, <2>2, QuietThen
<1>6. Does(Ground, (v \o <<>>) \o <<b>>, Ground, <<Told(inter, d, b)>>)
  BY <1>0, <1>2, <1>4
<1>7. Does(Ground, (v \o Body(ps)) \o <<b>>, Ground, <<Told(inter, ps, b)>>)
  <2>1. "param" \in Before
    BY DEF Before
  <2>2. QED
    BY <1>2, <1>5, <2>1
<1>8. QED
  BY <1>6, <1>7 DEF v, d

(***************************************************************************)
(* A parser that reads an OSC, an escape sequence, a character.             *)
(***************************************************************************)
OscAt(o) == State("osc", <<>>, <<<<0>>>>, o)
WithOsc(p, o) == [p EXCEPT !.osc = o]
Ended(final)  == [do |-> "esc", inter |-> <<>>, final |-> final]

LEMMA OscSteps ==
    ASSUME NEW o \in Some(Seq(OscByte))
    PROVE  /\ OscAt(o) \in Parser /\ Start("osc") = OscAt(<<<<>>>>)
           /\ \A b \in OscByte : VtStep(OscAt(o), b) = Step(OscAt(AddLast(o, b)), <<>>)
           /\ VtStep(OscAt(o), 59) = Step(OscAt(Append(o, <<>>)), <<>>)
           /\ VtStep(OscAt(o), ESC) = Step(Start("esc"), <<[do |-> "osc", params |-> o]>>)
<1> DEFINE p == OscAt(o)
<1>0. p.st = "osc" /\ p.osc = o
  BY DEF OscAt, State
<1>1. p \in Parser
  <2>1. <<>> \in Seq(Byte) /\ <<<<0>>>> \in Params
    <3>1. <<>> \in Seq(Byte)
      OBVIOUS
    <3>2. QED
      BY <3>1, CsiAtType
  <2>2. QED
    BY <2>1 DEF OscAt, State, Parser
<1>2. Start("osc") = OscAt(<<<<>>>>)
  BY DEF Start, OscAt, State
<1>3. ASSUME NEW q PROVE WithOsc(p, q) = OscAt(q)
  BY DEF WithOsc, OscAt, State
<1>4. \A b : b # ESC /\ b \notin {CAN, SUBST} => VtStep(p, b) = InOsc(p, b)
  <2> HIDE DEF p
  <2>1. QED
    BY <1>0 DEF VtStep
<1>5. ASSUME NEW b \in OscByte PROVE VtStep(p, b) = Step(OscAt(AddLast(o, b)), <<>>)
  <2>1. b # ESC /\ b \notin {CAN, SUBST} /\ b # BEL /\ b \notin C0 /\ b # 59
    BY DEF OscByte, ESC, CAN, SUBST, BEL, C0
  <2> HIDE DEF p
  <2>2. InOsc(p, b) = Step(WithOsc(p, AddLast(o, b)), <<>>)
    BY <1>0, <2>1 DEF InOsc, WithOsc
  <2>3. QED
    BY <1>3, <1>4, <2>1, <2>2
<1>6. VtStep(p, 59) = Step(OscAt(Append(o, <<>>)), <<>>)
  <2>1. 59 # ESC /\ 59 \notin {CAN, SUBST} /\ 59 # BEL /\ 59 \notin C0
    BY DEF ESC, CAN, SUBST, BEL, C0
  <2> HIDE DEF p
  <2>2. InOsc(p, 59) = Step(WithOsc(p, Append(o, <<>>)), <<>>)
    BY <1>0, <2>1 DEF InOsc, WithOsc
  <2>3. QED
    BY <1>3, <1>4, <2>1, <2>2
<1>7. VtStep(p, ESC) = Step(Start("esc"), <<[do |-> "osc", params |-> o]>>)
  <2> HIDE DEF p
  <2>1. QED
    BY <1>0 DEF VtStep, OscEnd
<1>8. QED
  BY <1>1, <1>2, <1>5, <1>6, <1>7

LEMMA BytesRead ==
    ASSUME NEW os \in Seq(Seq(OscByte))
    PROVE  \A s \in Seq(OscByte) : Quiet(OscAt(Append(os, <<>>)), s, OscAt(Append(os, s)))
<1> DEFINE p == OscAt(Append(os, <<>>))
           Is(s) == OscAt(Append(os, s))
           T == {s \in Seq(OscByte) : Quiet(p, s, Is(s))}
<1>0. \A s \in Seq(OscByte) : Append(os, s) \in Some(Seq(OscByte))
  BY SomeFacts
<1>1. <<>> \in T
  <2>1. <<>> \in Seq(OscByte)
    OBVIOUS
  <2>2. p \in Parser
    BY <1>0, <2>1, OscSteps
  <2>3. p = Is(<<>>)
    OBVIOUS
  <2> HIDE DEF p, Is
  <2>4. QED
    BY <2>1, <2>2, <2>3, QuietFacts
<1>2. ASSUME NEW s \in Seq(OscByte), NEW b \in OscByte, s \in T PROVE Append(s, b) \in T
  <2>1. b \in Byte /\ Append(s, b) \in Seq(OscByte)
    BY DEF OscByte
  <2>2. AddLast(Append(os, s), b) = Append(os, Append(s, b))
    <3> DEFINE o == Append(os, s)
               n == Len(os) + 1
               y == Append(s, b)
    <3>1. Len(o) = n /\ o[n] = s
      OBVIOUS
    <3>2. [o EXCEPT ![n] = y] = Append(os, y)
      <4>1. y \in Seq(OscByte)
        BY <2>1
      <4> HIDE DEF y
      <4>2. QED
        BY <4>1, ReplaceLast
    <3> HIDE DEF o, n, y
    <3>3. AddLast(o, b) = Append(os, y)
      BY <3>1, <3>2 DEF AddLast, y
    <3>4. QED
      BY <3>3 DEF o, y
  <2>3. VtStep(Is(s), b) = Step(Is(Append(s, b)), <<>>)
    BY <1>0, <2>2, OscSteps
  <2> HIDE DEF p, Is
  <2>4. QED
    BY <1>2, <2>1, <2>3, QuietFacts
<1>3. \A s \in Seq(OscByte) : s \in T
  <2> HIDE DEF T
  <2>1. QED
    BY <1>1, <1>2, Enc!SequencesByInduction
<1>4. QED
  BY <1>3

Text(h, t) == Part!Folded(h, t)

LEMMA TextRead ==
    ASSUME NEW h \in Seq(OscByte)
    PROVE  \A t \in Seq(Seq(OscByte)) : Quiet(OscAt(<<<<>>>>), Text(h, t), OscAt(<<h>> \o t))
<1> DEFINE p == OscAt(<<<<>>>>)
           Is(t) == OscAt(<<h>> \o t)
           T == {t \in Seq(Seq(OscByte)) : Quiet(p, Text(h, t), Is(t))}
<1>0. <<>> \in Seq(Seq(OscByte)) /\ <<h>> \in Seq(Seq(OscByte))
  OBVIOUS
<1>1. <<>> \in T
  <2>1. Quiet(OscAt(Append(<<>>, <<>>)), h, OscAt(Append(<<>>, h)))
    BY <1>0, BytesRead
  <2>2. Append(<<>>, <<>>) = <<<<>>>> /\ Append(<<>>, h) = <<h>> /\ <<h>> \o <<>> = <<h>>
    OBVIOUS
  <2>3. Text(h, <<>>) = h
    BY Part!FoldEmpty DEF Text
  <2>4. Is(<<>>) = OscAt(<<h>>)
    BY <2>2
  <2>5. Quiet(p, h, OscAt(<<h>>))
    BY <2>1, <2>2
  <2>6. QED
    BY <1>0, <2>3, <2>4, <2>5
<1>2. ASSUME NEW t \in Seq(Seq(OscByte)), NEW x \in Seq(OscByte), t \in T
      PROVE  Append(t, x) \in T
  <2> DEFINE o == <<h>> \o t
             q == OscAt(Append(o, <<>>))
             r == OscAt(Append(o, x))
             w == Text(h, t)
  <2>1. o \in Some(Seq(OscByte)) /\ o \in Seq(Seq(OscByte))
    BY <1>0 DEF Some
  <2>2. Text(h, Append(t, x)) = Append(w, 59) \o x
    BY Part!FoldAppend DEF Text, AddPart
  <2>3. <<h>> \o Append(t, x) = Append(o, x)
    BY <1>0
  <2>4. r = Is(Append(t, x))
    BY <2>3
  <2> HIDE DEF o
  <2>5. VtStep(OscAt(o), 59) = Step(q, <<>>)
    BY <2>1, OscSteps
  <2>6. Quiet(q, x, r)
    BY <2>1, BytesRead
  <2>7. Quiet(p, w, OscAt(o))
    BY <1>2 DEF o
  <2>8. 59 \in Byte
    BY NumbersAre
  <2> HIDE DEF p, q, r, w, Is
  <2>9. Quiet(p, Append(w, 59), q)
    BY <2>5, <2>7, <2>8, QuietFacts
  <2>10. Quiet(p, Append(w, 59) \o x, r)
    BY <2>6, <2>9, QuietThen
  <2>11. Append(t, x) \in Seq(Seq(OscByte))
    OBVIOUS
  <2>12. QED
    BY <2>2, <2>4, <2>10, <2>11
<1>3. \A t \in Seq(Seq(OscByte)) : t \in T
  <2> HIDE DEF T
  <2>1. QED
    BY <1>1, <1>2, Enc!SequencesByInduction
<1>4. QED
  BY <1>3

AltFinal == EscFinal \ {80, 88, 91, 93, 94, 95}      \* P X [ ] ^ _ begin sequences

LEMMA EscKeeps ==
    ASSUME NEW p, p.st = "esc", NEW c \in Inter
    PROVE  VtStep(p, c) = Step([p EXCEPT !.inter = Append(@, c)], <<>>)
<1> DEFINE high == c \in 127..255
           q    == [p EXCEPT !.inter = Append(@, c)]
<1>1. /\ c # ESC /\ c \notin {CAN, SUBST} /\ c \notin C0 /\ c # 91 /\ c # 93
      /\ c \notin {80, 88, 94, 95} /\ ~high
  BY DEF ESC, CAN, SUBST, C0, Inter
<1>2. VtStep(p, c) = InEscape(p, c)
  BY <1>1 DEF VtStep
<1>3. InEscape(p, c) =
        CASE c \in C0 -> Step(p, <<Act("execute", <<c>>)>>)
          [] c \in Inter -> Step(q, <<>>)
          [] c = 91 /\ p.inter = <<>> -> Step(Start("entry"), <<>>)
          [] c = 93 /\ p.inter = <<>> -> Step(Start("osc"), <<>>)
          [] c \in {80, 88, 94, 95} /\ p.inter = <<>> -> Step(Start("string"), <<>>)
          [] high -> Step(p, <<>>)
          [] OTHER -> Step(Ground, <<Esc(p, c)>>)
  BY DEF InEscape
<1> HIDE DEF high, q
<1>4. InEscape(p, c) = Step(q, <<>>)
  BY <1>1, <1>3
<1>5. QED
  BY <1>2, <1>4 DEF q

LEMMA EscFinishes ==
    ASSUME NEW p, p.st = "esc", NEW b \in EscFinal, p.inter = <<>> => b \in AltFinal
    PROVE  VtStep(p, b) = Step(Ground, <<Esc(p, b)>>)
<1> DEFINE high == b \in 127..255
<1>1. b # ESC /\ b \notin {CAN, SUBST} /\ b \notin C0 /\ b \notin Inter /\ ~high
  BY DEF EscFinal, ESC, CAN, SUBST, C0, Inter
<1>2. p.inter = <<>> => b \notin {80, 88, 91, 93, 94, 95}
  BY DEF AltFinal
<1>3. VtStep(p, b) = InEscape(p, b)
  BY <1>1 DEF VtStep
<1>4. InEscape(p, b) =
        CASE b \in C0 -> Step(p, <<Act("execute", <<b>>)>>)
          [] b \in Inter -> Step([p EXCEPT !.inter = Append(@, b)], <<>>)
          [] b = 91 /\ p.inter = <<>> -> Step(Start("entry"), <<>>)
          [] b = 93 /\ p.inter = <<>> -> Step(Start("osc"), <<>>)
          [] b \in {80, 88, 94, 95} /\ p.inter = <<>> -> Step(Start("string"), <<>>)
          [] high -> Step(p, <<>>)
          [] OTHER -> Step(Ground, <<Esc(p, b)>>)
  BY DEF InEscape
<1> HIDE DEF high
<1>5. QED
  BY <1>1, <1>2, <1>3, <1>4

LEMMA EscapeEnds ==
    ASSUME NEW b \in AltFinal
    PROVE  b \in Byte /\ VtStep(Start("esc"), b) = Step(Ground, <<Ended(b)>>)
<1> DEFINE e == Start("esc")
<1>1. e.st = "esc" /\ e.inter = <<>>
  BY DEF Start
<1>2. b \in Byte /\ b \in EscFinal
  BY NumbersAre DEF AltFinal, EscFinal
<1> HIDE DEF e
<1>3. VtStep(e, b) = Step(Ground, <<Esc(e, b)>>)
  BY <1>1, <1>2, EscFinishes
<1>4. Esc(e, b) = Ended(b)
  BY <1>1 DEF Esc, Ended
<1>5. QED
  BY <1>2, <1>3, <1>4 DEF e

LEMMA EscapeSteps ==
    /\ \A b \in PlainEscapes \cup {92} : b \in Byte /\ VtStep(Start("esc"), b) = Step(Ground, <<Ended(b)>>)
    /\ \A c \in Charsets, b \in EscFinal :
          \E p : /\ VtStep(Start("esc"), c) = Step(p, <<>>)
                 /\ VtStep(p, b) = Step(Ground, <<[do |-> "esc", inter |-> <<c>>, final |-> b]>>)
<1> DEFINE e == Start("esc")
<1>1. e.st = "esc" /\ e.inter = <<>> /\ e \in Parser
  BY StartType DEF Start
<1>2. ASSUME NEW b \in PlainEscapes \cup {92}
      PROVE  b \in Byte /\ VtStep(e, b) = Step(Ground, <<Ended(b)>>)
  <2>1. b \in AltFinal
    BY DEF PlainEscapes, AltFinal, EscFinal
  <2>2. QED
    BY <2>1, EscapeEnds
<1>3. ASSUME NEW c \in Charsets, NEW b \in EscFinal
      PROVE  \E p : /\ VtStep(e, c) = Step(p, <<>>)
                    /\ VtStep(p, b) = Step(Ground, <<[do |-> "esc", inter |-> <<c>>, final |-> b]>>)
  <2> DEFINE p == [e EXCEPT !.inter = Append(@, c)]
  <2>1. /\ c # ESC /\ c \notin {CAN, SUBST} /\ c \notin C0 /\ c \in Inter /\ c # 91 /\ c # 93
        /\ c \notin {80, 88, 94, 95} /\ c \notin 127..255
    BY DEF Charsets, ESC, CAN, SUBST, C0, Inter
  <2>2. p.st = "esc" /\ p.inter = Append(<<>>, c)
    BY <1>1 DEF Parser
  <2>3. Append(<<>>, c) = <<c>> /\ <<c>> # <<>>
    OBVIOUS
  <2>4. p.inter = <<c>> /\ p.inter # <<>>
    BY <2>2, <2>3
  <2>5. VtStep(e, c) = Step(p, <<>>)
    BY <1>1, <2>1, EscKeeps
  <2>6. VtStep(p, b) = Step(Ground, <<Esc(p, b)>>)
    <3> HIDE DEF p
    <3>1. QED
      BY <2>2, <2>4, EscFinishes
  <2> HIDE DEF p
  <2>7. Esc(p, b) = [do |-> "esc", inter |-> <<c>>, final |-> b]
    BY <2>4 DEF Esc
  <2>8. QED
    BY <2>5, <2>6, <2>7
<1>4. QED
  BY <1>2, <1>3

(***************************************************************************)
(* Safe: what is read of it is harmless and is written as it was read.      *)
(***************************************************************************)
Meek(acts) == acts \in Seq(Acted) /\ \A i \in DOMAIN acts : Harmless(acts[i])
Safe(w)    == w \in Seq(Byte)
              /\ \E acts : Does(Ground, w, Ground, acts) /\ Meek(acts) /\ Put(acts) = w

LEMMA SafeEmpty == Safe(<<>>)
<1>1. <<>> \in Seq(Byte) /\ <<>> \in Seq(Acted) /\ DOMAIN <<>> = {}
  OBVIOUS
<1>2. Does(Ground, <<>>, Ground, <<>>)
  BY GroundIsParser, DoesNothing
<1>3. QED
  BY <1>1, <1>2, PutFacts DEF Safe, Meek

LEMMA MeekJoin ==
    ASSUME NEW x, NEW y, Meek(x), Meek(y)
    PROVE  Meek(x \o y)
<1>1. x \in Seq(Acted) /\ y \in Seq(Acted)
  BY DEF Meek
<1>2. x \o y \in Seq(Acted)
  BY <1>1
<1>3. ASSUME NEW i \in DOMAIN (x \o y)
      PROVE  \/ i \in DOMAIN x /\ (x \o y)[i] = x[i]
             \/ i - Len(x) \in DOMAIN y /\ (x \o y)[i] = y[i - Len(x)]
  BY <1>1
<1>4. QED
  BY <1>2, <1>3 DEF Meek

LEMMA SafeJoin ==
    ASSUME NEW v, NEW w, Safe(v), Safe(w)
    PROVE  Safe(v \o w)
<1>1. PICK x : Does(Ground, v, Ground, x) /\ Meek(x) /\ Put(x) = v
  BY DEF Safe
<1>2. PICK y : Does(Ground, w, Ground, y) /\ Meek(y) /\ Put(y) = w
  BY DEF Safe
<1>3. v \in Seq(Byte) /\ w \in Seq(Byte)
  BY DEF Safe
<1>4. v \o w \in Seq(Byte)
  BY <1>3
<1>5. Does(Ground, v \o w, Ground, x \o y)
  BY <1>1, <1>2, <1>3, DoesThen
<1>6. Meek(x \o y)
  BY <1>1, <1>2, MeekJoin
<1>7. x \in Seq(Acted) /\ y \in Seq(Acted)
  BY <1>1, <1>2 DEF Meek
<1>8. Put(x \o y) = v \o w
  BY <1>1, <1>2, <1>7, PutFacts
<1>9. QED
  BY <1>4, <1>5, <1>6, <1>8 DEF Safe

(* One action that is written as it was read. *)
LEMMA SafeOne ==
    ASSUME NEW w, NEW a \in Acted, Does(Ground, w, Ground, <<a>>), Harmless(a), Outbound(a) = w
    PROVE  Safe(w)
<1>1. <<a>> \in Seq(Acted) /\ Meek(<<a>>)
  BY DEF Meek
<1>2. Put(<<a>>) = w
  <2>1. <<>> \in Seq(Acted) /\ <<a>> = Append(<<>>, a)
    OBVIOUS
  <2>2. Put(Append(<<>>, a)) = Put(<<>>) \o Outbound(a)
    BY <2>1, PutFacts
  <2>3. w \in Seq(Byte)
    BY DEF Does
  <2>4. <<>> \o w = w
    BY <2>3
  <2>5. QED
    BY <2>1, <2>2, <2>4, PutFacts
<1>3. w \in Seq(Byte)
  BY DEF Does
<1>4. QED
  BY <1>1, <1>2, <1>3 DEF Safe

(* Numbers that are different are written differently. *)
LEMMA DecDiffer ==
    ASSUME NEW m \in Num, NEW n \in Num, Dec[m] = Dec[n]
    PROVE  m = n
<1> DEFINE p == CsiAt("param", <<>>, Open(<<>>, <<>>, 0))
           Is(k) == CsiAt("param", <<>>, Open(<<>>, <<>>, k))
<1>1. /\ "param" \in Before /\ <<>> \in Seq(Byte) /\ <<>> \in Seq(Some(Num)) /\ <<>> \in Seq(Num)
  <2>1. <<>> \in Seq(Byte) /\ <<>> \in Seq(Some(Num)) /\ <<>> \in Seq(Num)
    OBVIOUS
  <2>2. QED
    BY <2>1 DEF Before
<1>2. Quiet(p, Dec[m], Is(m)) /\ Quiet(p, Dec[n], Is(n))
  BY <1>1, DigitsRead
<1>3. Is(m) = Is(n)
  <2> HIDE DEF p, Is
  <2>1. [p |-> Is(m), acts |-> <<>>] = [p |-> Is(n), acts |-> <<>>]
    BY <1>2 DEF Quiet, Does
  <2>2. QED
    BY <2>1
<1>4. Open(<<>>, <<>>, m) = Open(<<>>, <<>>, n)
  <2> DEFINE x == Open(<<>>, <<>>, m)
             y == Open(<<>>, <<>>, n)
             r == CsiAt("param", <<>>, x)
             s == CsiAt("param", <<>>, y)
  <2>1. r.params = x /\ s.params = y
    BY DEF CsiAt, State
  <2>2. r = s
    BY <1>3
  <2> HIDE DEF x, y, r, s
  <2>3. x = y
    BY <2>1, <2>2
  <2>4. QED
    BY <2>3 DEF x, y
<1>5. OpenParam(Open(<<>>, <<>>, m)) = m /\ OpenParam(Open(<<>>, <<>>, n)) = n
  BY <1>1, OpenFacts
<1>6. QED
  BY <1>4, <1>5

LEMMA ReadOne ==
    ASSUME NEW b \in Byte, NEW a, VtStep(Ground, b) = Step(Ground, <<a>>)
    PROVE  Does(Ground, <<b>>, Ground, <<a>>)
<1>1. Does(Ground, Append(<<>>, b), Ground, <<>> \o <<a>>)
  BY GroundIsParser, QuietFacts, DoesStep DEF Quiet
<1>2. Append(<<>>, b) = <<b>> /\ <<>> \o <<a>> = <<a>>
  OBVIOUS
<1>3. QED
  BY <1>1, <1>2

LEMMA PrintSafe ==
    ASSUME NEW a \in [do : {"print"}, bytes : {<<b>> : b \in Byte \ C0}]
    PROVE  Safe(Outbound(a))
<1>1. PICK b \in Byte \ C0 : a.bytes = <<b>> /\ a.do = "print"
  OBVIOUS
<1>2. a = Act("print", <<b>>)
  BY <1>1 DEF Act
<1>3. VtStep(Ground, b) = Step(Ground, <<a>>)
  <2>1. b # ESC /\ b \notin {CAN, SUBST}
    BY DEF C0, ESC, CAN, SUBST
  <2>2. Ground.st = "ground"
    BY DEF Ground, Start
  <2>3. QED
    BY <1>2, <2>1, <2>2 DEF VtStep
<1>4. Outbound(a) = <<b>>
  BY <1>1 DEF Outbound
<1>5. a \in Acted /\ Harmless(a)
  BY <1>1 DEF Acted, Harmless
<1>6. Does(Ground, <<b>>, Ground, <<a>>)
  BY <1>3, ReadOne
<1>7. QED
  BY <1>4, <1>5, <1>6, SafeOne

LEMMA ExecuteSafe ==
    ASSUME NEW a \in [do : {"execute"}, bytes : {<<b>> : b \in C0 \ {ESC}}]
    PROVE  Safe(Outbound(a))
<1>1. PICK b \in C0 \ {ESC} : a.bytes = <<b>> /\ a.do = "execute"
  OBVIOUS
<1>2. CASE b \notin AllowedControls
  <2>1. a.bytes[1] = b
    BY <1>1
  <2>2. Outbound(a) = <<>>
    BY <1>1, <1>2, <2>1 DEF Outbound
  <2>3. QED
    BY <2>2, SafeEmpty
<1>3. CASE b \in AllowedControls
  <2>1. a = Act("execute", <<b>>)
    BY <1>1 DEF Act
  <2>2. b # ESC /\ b \notin {CAN, SUBST} /\ b \in C0 /\ b \in Byte
    BY <1>3, NumbersAre DEF AllowedControls, C0, ESC, CAN, SUBST
  <2>3. Ground.st = "ground"
    BY DEF Ground, Start
  <2>4. VtStep(Ground, b) = Step(Ground, <<a>>)
    BY <2>1, <2>2, <2>3 DEF VtStep
  <2>5. Outbound(a) = <<b>>
    <3>1. a.bytes[1] = b
      BY <1>1
    <3>2. QED
      BY <1>1, <1>3, <3>1 DEF Outbound
  <2>6. a \in Acted /\ Harmless(a)
    BY <1>1 DEF Acted, Harmless
  <2>7. Does(Ground, <<b>>, Ground, <<a>>)
    BY <2>2, <2>4, ReadOne
  <2>8. QED
    BY <2>5, <2>6, <2>7, SafeOne
<1>4. QED
  BY <1>2, <1>3

LEMMA EscSafe ==
    ASSUME NEW a \in [do : {"esc"}, inter : Seq(Byte), final : EscFinal]
    PROVE  Safe(Outbound(a))
<1> DEFINE b == a.final
<1>1. /\ a.do = "esc" /\ b \in EscFinal /\ a.inter \in Seq(Byte)
      /\ a = [do |-> "esc", inter |-> a.inter, final |-> b]
  OBVIOUS
<1>2. Outbound(a) = OutboundEsc(a) /\ Harmless(a) /\ a \in Acted
  BY <1>1 DEF Outbound, Harmless, Acted
<1>3. b \in Byte
  <2>1. \A x \in EscFinal : x \in Nat /\ x <= 255
    BY DEF EscFinal
  <2>2. QED
    BY <1>1, <2>1, NumbersAre
<1>4. CASE a.inter = <<>> /\ b \in PlainEscapes
  <2>1. OutboundEsc(a) = <<ESC>> \o <<>> \o <<b>>
    BY <1>4 DEF OutboundEsc
  <2>2. <<ESC>> \o <<>> \o <<b>> = Append(<<ESC>>, b)
    BY <1>3, Opening
  <2>3. a = Ended(b)
    BY <1>1, <1>4 DEF Ended
  <2>4. VtStep(Start("esc"), b) = Step(Ground, <<a>>)
    BY <1>4, <2>3, EscapeSteps
  <2>5. Does(Ground, Append(<<ESC>>, b), Ground, <<>> \o <<a>>)
    BY <1>3, <2>4, Opening, DoesStep DEF Quiet
  <2>6. <<>> \o <<a>> = <<a>>
    OBVIOUS
  <2> HIDE DEF b
  <2>7. Does(Ground, Append(<<ESC>>, b), Ground, <<a>>)
    BY <2>5, <2>6
  <2>8. QED
    BY <1>2, <2>1, <2>2, <2>7, SafeOne
<1>5. CASE Len(a.inter) = 1 /\ a.inter[1] \in Charsets
  <2> DEFINE c == a.inter[1]
  <2>1. a.inter = <<c>> /\ c \in Byte /\ c \in Charsets
    BY <1>1, <1>5
  <2>2. OutboundEsc(a) = <<ESC>> \o a.inter \o <<b>>
    BY <1>5 DEF OutboundEsc
  <2> HIDE DEF b, c
  <2>3. <<ESC>> \o <<c>> \o <<b>> = Append(Append(<<ESC>>, c), b)
    BY <1>3, <2>1, Opening
  <2>4. a = [do |-> "esc", inter |-> <<c>>, final |-> b]
    BY <1>1, <2>1
  <2>5. PICK p : VtStep(Start("esc"), c) = Step(p, <<>>) /\ VtStep(p, b) = Step(Ground, <<a>>)
    BY <1>1, <2>1, <2>4, EscapeSteps
  <2>6. Quiet(Ground, Append(<<ESC>>, c), p)
    BY <2>1, <2>5, Opening, QuietFacts
  <2>7. Does(Ground, Append(Append(<<ESC>>, c), b), Ground, <<>> \o <<a>>)
    BY <1>3, <2>5, <2>6, DoesStep DEF Quiet
  <2>8. <<>> \o <<a>> = <<a>>
    OBVIOUS
  <2>9. Does(Ground, Append(Append(<<ESC>>, c), b), Ground, <<a>>)
    BY <2>7, <2>8
  <2>10. Outbound(a) = Append(Append(<<ESC>>, c), b)
    BY <1>2, <2>1, <2>2, <2>3
  <2>11. QED
    BY <1>2, <2>9, <2>10, SafeOne
<1>6. CASE ~(a.inter = <<>> /\ b \in PlainEscapes) /\ ~(Len(a.inter) = 1 /\ a.inter[1] \in Charsets)
  <2>1. OutboundEsc(a) = <<>>
    BY <1>6 DEF OutboundEsc
  <2>2. QED
    BY <1>2, <2>1, SafeEmpty
<1>7. QED
  BY <1>4, <1>5, <1>6

(* What of the modes is kept would be kept again. *)
LEMMA KeptModes ==
    /\ \A s \in Seq(Num) : Mode!Folded(<<>>, s) \in Seq(Num \ BannedModes)
    /\ \A s \in Seq(Num \ BannedModes) : Mode!Folded(<<>>, s) = s
<1> DEFINE M == Num \ BannedModes
           T == {s \in Seq(M) : Mode!Folded(<<>>, s) = s}
<1>1. \A s \in Seq(Num) : Mode!Folded(<<>>, s) \in Seq(M)
  <2>1. <<>> \in Seq(M)
    OBVIOUS
  <2>2. \A s \in Seq(M), n \in Num : KeepMode(s, n) \in Seq(M)
    BY DEF KeepMode
  <2> HIDE DEF M
  <2>3. QED
    BY <2>1, <2>2, Mode!FoldKeeps
<1>2. <<>> \in T
  <2>1. <<>> \in Seq(M)
    OBVIOUS
  <2>2. QED
    BY <2>1, Mode!FoldEmpty
<1>3. ASSUME NEW s \in Seq(M), NEW n \in M, s \in T PROVE Append(s, n) \in T
  <2>1. KeepMode(s, n) = Append(s, n) /\ Append(s, n) \in Seq(M)
    BY DEF KeepMode
  <2> HIDE DEF M
  <2>2. Mode!Folded(<<>>, Append(s, n)) = KeepMode(Mode!Folded(<<>>, s), n)
    BY Mode!FoldAppend
  <2>3. QED
    BY <1>3, <2>1, <2>2
<1>4. \A s \in Seq(M) : s \in T
  <2> HIDE DEF T, M
  <2>1. QED
    BY <1>2, <1>3, Enc!SequencesByInduction
<1>5. QED
  BY <1>1, <1>4

LEMMA ThreeBytes == \A x, y, z : <<x, y>> \o <<z>> = <<x, y, z>>
<1> SUFFICES ASSUME NEW x, NEW y, NEW z PROVE <<x, y>> \o <<z>> = <<x, y, z>>
  OBVIOUS
<1> DEFINE S == {x, y, z}
           u == <<x, y>> \o <<z>>
           v == <<x, y, z>>
<1>1. <<x, y>> \in Seq(S) /\ <<z>> \in Seq(S) /\ v \in Seq(S)
  OBVIOUS
<1>2. u \in Seq(S) /\ DOMAIN u = 1..3 /\ u[1] = x /\ u[2] = y /\ u[3] = z
  BY <1>1
<1>3. DOMAIN v = 1..3 /\ v[1] = x /\ v[2] = y /\ v[3] = z
  OBVIOUS
<1> HIDE DEF S, u, v
<1>4. \A i \in 1..3 : u[i] = v[i]
  BY <1>2, <1>3
<1>5. u = v
  BY <1>1, <1>2, <1>3, <1>4
<1>6. QED
  BY <1>5 DEF u, v

(* Sequences with the modes that are kept. *)
LEMMA ModesSafe ==
    ASSUME NEW a, a \in [do : {"csi"}, params : Params, inter : Seq(Byte), final : Final],
           a.final \in {104, 108}
    PROVE  Safe(PrivateModes(a))
<1> DEFINE First(ps) == [i \in DOMAIN ps |-> ps[i][1]]
           k == Mode!Folded(<<>>, First(a.params))
           f == a.final
           ps == [i \in 1..Len(k) |-> <<k[i]>>]
           t == Told(<<63>>, ps, f)
           w == <<ESC, 91, 63>> \o Numbers(k, 59) \o <<f>>
<1>0. a.params \in Params /\ f \in Final /\ f \in Byte
  <2>1. \A x \in Final : x \in Nat /\ x <= 255
    BY DEF Final
  <2>2. QED
    BY <2>1, NumbersAre
<1>1. \A c : PrivateModes(c) = LET m == Mode!Folded(<<>>, First(c.params))
                               IN  IF m = <<>> THEN <<>>
                                   ELSE <<ESC, 91, 63>> \o Numbers(m, 59) \o <<c.final>>
  BY DEF PrivateModes, KeepMode, Mode!Folded, FoldLeft, MapThenFoldSet,
         Mode!MapThenFoldSet, Max, Mode!Max
<1>2. First(a.params) \in Seq(Num)
  <2> DEFINE q == a.params
  <2>1. DOMAIN q = 1..Len(q) /\ Len(q) \in Nat /\ \A i \in DOMAIN q : q[i][1] \in Num
    BY <1>0, ParamsFacts
  <2> HIDE DEF q
  <2>2. First(q) \in Seq(Num)
    BY <2>1
  <2>3. QED
    BY <2>2 DEF q
<1>3. k \in Seq(Num \ BannedModes)
  <2> HIDE DEF First
  <2>1. QED
    BY <1>2, KeptModes
<1>4. PrivateModes(a) = IF k = <<>> THEN <<>> ELSE w
  <2> HIDE DEF First
  <2>1. QED
    BY <1>1
<1>5. CASE k = <<>>
  BY <1>4, <1>5, SafeEmpty
<1>6. CASE k # <<>>
  <2> HIDE DEF k, First, f
  <2>1. DOMAIN k = 1..Len(k) /\ Len(k) \in Nat \ {0} /\ \A i \in 1..Len(k) : k[i] \in Num \ BannedModes
    BY <1>3, <1>6
  <2>2. \A n \in Num : <<n>> \in Some(Num) /\ <<n>>[1] = n
    BY SomeFacts, Zenon
  <2>3. ps \in Params
    <3>1. \A i \in 1..Len(k) : ps[i] \in Some(Num)
      BY <2>1, <2>2
    <3>2. ps \in Seq(Some(Num)) /\ ps # <<>>
      BY <2>1, <3>1
    <3>3. QED
      BY <3>2 DEF Params, Some
  <2>4. First(ps) = k
    <3>1. DOMAIN First(ps) = 1..Len(k) /\ \A i \in 1..Len(k) : First(ps)[i] = k[i]
      BY <2>1, <2>2 DEF First
    <3>2. First(ps) \in Seq(Num) /\ k \in Seq(Num)
      <4>1. \A i \in 1..Len(k) : First(ps)[i] \in Num
        BY <2>1, <3>1
      <4>2. First(ps) \in Seq(Num)
        BY <2>1, <2>2, <4>1 DEF First
      <4>3. k \in Seq(Num)
        BY <1>3
      <4>4. QED
        BY <4>2, <4>3
    <3> DEFINE g == First(ps)
    <3>3. DOMAIN g = 1..Len(k) /\ DOMAIN k = 1..Len(k) /\ g \in Seq(Num) /\ k \in Seq(Num)
          /\ \A i \in 1..Len(k) : g[i] = k[i]
      BY <2>1, <3>1, <3>2
    <3> HIDE DEF g
    <3>4. g = k
      BY <3>3
    <3>5. QED
      BY <3>4 DEF g
  <2>5. Body(ps) = Numbers(k, 59)
    <3>1. \A n \in Num : Numbers(<<n>>, 58) = Dec[n]
      <4> SUFFICES ASSUME NEW n \in Num PROVE Numbers(<<n>>, 58) = Dec[n]
        OBVIOUS
      <4>1. <<>> \in Seq(Num) /\ <<n>> = Append(<<>>, n) /\ 58 \in Separator
        BY DEF Separator
      <4>2. Numbers(Append(<<>>, n), 58) = JoinTo(Numbers(<<>>, 58), 58, Dec[n])
        <5>1. \A ns \in Seq(Num), m \in Num :
                 Numbers(Append(ns, m), 58) = JoinTo(Numbers(ns, 58), 58, Dec[m])
          BY <4>1, NumbersGrow
        <5>2. <<>> \in Seq(Num)
          OBVIOUS
        <5> DEFINE e == <<>>
        <5>3. e \in Seq(Num)
          BY <5>2
        <5> HIDE DEF e
        <5>4. Numbers(Append(e, n), 58) = JoinTo(Numbers(e, 58), 58, Dec[n])
          BY <5>1, <5>3
        <5>5. QED
          BY <5>4 DEF e
      <4>3. Numbers(<<>>, 58) = <<>>
        BY <4>1, NumbersGrow
      <4>4. QED
        BY <4>1, <4>2, <4>3 DEF JoinTo
    <3>2. [i \in DOMAIN ps |-> Numbers(ps[i], 58)] = [i \in DOMAIN k |-> Dec[k[i]]]
      BY <2>1, <3>1
    <3>3. QED
      BY <3>2 DEF Body, Numbers
  <2>6. w = <<ESC, 91>> \o <<63>> \o Body(ps) \o <<f>>
    <3>1. <<ESC, 91>> \o <<63>> = <<ESC, 91, 63>>
      BY ThreeBytes
    <3>2. QED
      BY <2>5, <3>1
  <2>7. t \in Acted /\ t.do = "csi" /\ t.inter = <<63>> /\ t.params = ps /\ t.final = f
    <3>1. <<63>> \in Seq(Byte)
      BY NumbersAre, SMTT(20)
    <3> HIDE DEF ps
    <3>2. t \in [do : {"csi"}, params : Params, inter : Seq(Byte), final : Final]
      BY <1>0, <2>3, <3>1 DEF Told
    <3>3. t.do = "csi" /\ t.inter = <<63>> /\ t.params = ps /\ t.final = f
      BY DEF Told
    <3>4. QED
      BY <3>2, <3>3 DEF Acted
  <2>8. <<63>> # <<>> /\ <<63>> # <<60>>
    OBVIOUS
  <2> DEFINE v == <<63>>
  <2>9. f \in {104, 108}
    BY DEF f
  <2>10. Harmless(t)
    <3>1. ~IsMouse(t)
      <4> HIDE DEF t, ps
      <4>1. QED
        BY <2>7, <2>8 DEF IsMouse
    <3>2. \A i \in DOMAIN ps : ps[i][1] \notin BannedModes
      BY <2>1
    <3> HIDE DEF t, ps
    <3>3. QED
      BY <2>7, <3>1, <3>2 DEF Harmless
  <2>11. Outbound(t) = w
    <3>1. Mode!Folded(<<>>, k) = k
      BY <1>3, KeptModes
    <3> HIDE DEF t, ps
    <3>2. Outbound(t) = PrivateModes(t)
      BY <2>7, <2>9 DEF Outbound, OutboundCsi
    <3>3. PrivateModes(t) = w
      BY <1>1, <1>6, <2>4, <2>7, <3>1
    <3>4. QED
      BY <3>2, <3>3
  <2>12. Does(Ground, w, Ground, <<t>>)
    <3>1. <<63>> \in Marks
      BY DEF Marks
    <3> HIDE DEF t, w, ps
    <3>2. Does(Ground, <<ESC, 91>> \o <<63>> \o Body(ps) \o <<f>>, Ground, <<Told(<<63>>, ps, f)>>)
      BY <1>0, <2>3, <3>1, CsiReads
    <3>3. QED
      BY <2>6, <3>2 DEF t
  <2> HIDE DEF t, w
  <2>13. Safe(w)
    BY <2>7, <2>10, <2>11, <2>12, SafeOne
  <2>14. QED
    BY <1>4, <1>6, <2>13
<1>7. QED
  BY <1>5, <1>6

(* Sequences that are written whole. *)
(* What is written of a CSI sequence is read as that sequence. *)
LEMMA EmitReads ==
    ASSUME NEW a, a \in [do : {"csi"}, params : Params, inter : Seq(Byte), final : Final],
           a.inter \in Marks
    PROVE  a \in Acted /\ Does(Ground, EmitCsi(a), Ground, <<a>>)
<1> DEFINE i == a.inter
           ps == a.params
           f == a.final
           mid == IF IsDefault(ps) THEN <<>> ELSE Body(ps)
<1>1. ps \in Params /\ f \in Final /\ a.do = "csi" /\ a \in Acted
  BY DEF Acted
<1>2. a = Told(i, ps, f)
  BY DEF Told
<1>3. EmitCsi(a) = <<ESC, 91>> \o i \o mid \o <<f>>
  BY DEF EmitCsi, Body
<1>4. Does(Ground, EmitCsi(a), Ground, <<a>>)
  <2> HIDE DEF i, ps, f
  <2>1. i \in Marks
    BY DEF i
  <2>2. CASE IsDefault(ps)
    <3>1. ps = <<<<0>>>>
      BY <2>2 DEF IsDefault
    <3>2. Does(Ground, <<ESC, 91>> \o i \o <<>> \o <<f>>, Ground, <<Told(i, <<<<0>>>>, f)>>)
      BY <1>1, <2>1, CsiReads
    <3>3. mid = <<>>
      BY <2>2
    <3> HIDE DEF mid
    <3>4. QED
      BY <1>2, <1>3, <3>1, <3>2, <3>3
  <2>3. CASE ~IsDefault(ps)
    <3>1. Does(Ground, <<ESC, 91>> \o i \o Body(ps) \o <<f>>, Ground, <<Told(i, ps, f)>>)
      BY <1>1, <2>1, CsiReads
    <3>2. mid = Body(ps)
      BY <2>3
    <3> HIDE DEF mid
    <3>3. QED
      BY <1>2, <1>3, <3>1, <3>2
  <2>4. QED
    BY <2>2, <2>3
<1>5. QED
  BY <1>1, <1>4

LEMMA EmitSafe ==
    ASSUME NEW a, a \in [do : {"csi"}, params : Params, inter : Seq(Byte), final : Final],
           a.inter \in Marks, Harmless(a), Outbound(a) = EmitCsi(a)
    PROVE  Safe(EmitCsi(a))
BY EmitReads, SafeOne

LEMMA CsiSafe ==
    ASSUME NEW a, a \in [do : {"csi"}, params : Params, inter : Seq(Byte), final : Final]
    PROVE  Safe(Outbound(a))
<1>1. a.do = "csi"
  OBVIOUS
<1>2. Outbound(a) = OutboundCsi(a)
  BY <1>1 DEF Outbound
<1>3. <<63>> # <<>> /\ <<63>> # <<60>>
  OBVIOUS
<1>4. CASE a.inter = <<63>> /\ a.final \in {104, 108}
  <2>1. Outbound(a) = PrivateModes(a)
    BY <1>2, <1>4 DEF OutboundCsi
  <2>2. QED
    BY <1>4, <2>1, ModesSafe
<1>5. CASE a.inter = <<63>> /\ a.final \in {115, 117}
  <2>1. ~IsMouse(a) /\ a.final # 104 /\ a.final # 108
    BY <1>3, <1>5 DEF IsMouse
  <2>2. Outbound(a) = EmitCsi(a)
    BY <1>2, <1>3, <1>5, <2>1 DEF OutboundCsi
  <2>3. Harmless(a)
    BY <1>1, <2>1 DEF Harmless
  <2>4. QED
    <3>1. a.inter \in Marks
      BY <1>5 DEF Marks
    <3>2. QED
      BY <2>2, <2>3, <3>1, EmitSafe
<1>6. CASE a.inter = <<>> /\ a.final \in StandardFinals /\ ~IsMouse(a)
  <2>1. Outbound(a) = EmitCsi(a)
    BY <1>2, <1>3, <1>6 DEF OutboundCsi
  <2>2. Harmless(a)
    BY <1>1, <1>3, <1>6 DEF Harmless
  <2>3. a.inter \in Marks
    BY <1>6 DEF Marks
  <2>4. QED
    BY <2>1, <2>2, <2>3, EmitSafe
<1>7. CASE /\ ~(a.inter = <<63>> /\ a.final \in {104, 108})
           /\ ~(a.inter = <<63>> /\ a.final \in {115, 117})
           /\ ~(a.inter = <<>> /\ a.final \in StandardFinals /\ ~IsMouse(a))
  <2>1. Outbound(a) = <<>>
    BY <1>2, <1>7 DEF OutboundCsi
  <2>2. QED
    BY <2>1, SafeEmpty
<1>8. QED
  BY <1>4, <1>5, <1>6, <1>7

LEMMA TwoOf == \A x, y : <<x>> \o <<y>> = <<x, y>>
<1> SUFFICES ASSUME NEW x, NEW y PROVE <<x>> \o <<y>> = <<x, y>>
  OBVIOUS
<1> DEFINE S == {x, y}
           u == <<x>> \o <<y>>
           v == <<x, y>>
<1>1. <<x>> \in Seq(S) /\ <<y>> \in Seq(S) /\ v \in Seq(S)
  OBVIOUS
<1>2. u \in Seq(S) /\ DOMAIN u = 1..2 /\ u[1] = x /\ u[2] = y
  BY <1>1
<1>3. DOMAIN v = 1..2 /\ v[1] = x /\ v[2] = y
  OBVIOUS
<1> HIDE DEF S, u, v
<1>4. \A i \in 1..2 : u[i] = v[i]
  BY <1>2, <1>3
<1>5. u = v
  BY <1>1, <1>2, <1>3, <1>4
<1>6. QED
  BY <1>5 DEF u, v

LEMMA OscReads ==
    ASSUME NEW ps \in Some(Seq(OscByte))
    PROVE  Does(Ground, <<ESC, 93>> \o Text(Head(ps), Tail(ps)) \o ST, Ground,
                <<[do |-> "osc", params |-> ps], Ended(92)>>)
<1> DEFINE h == Head(ps)
           t == Tail(ps)
           w == Text(h, t)
           a == [do |-> "osc", params |-> ps]
           v == <<ESC, 93>> \o w
<1>1. h \in Seq(OscByte) /\ t \in Seq(Seq(OscByte)) /\ ps = <<h>> \o t
  BY DEF Some
<1>2. <<<<>>>> \in Some(Seq(OscByte))
  <2>1. <<>> \in Seq(OscByte)
    OBVIOUS
  <2>2. QED
    BY <2>1, SomeFacts
<1>3. Quiet(Ground, <<ESC, 93>>, OscAt(<<<<>>>>))
  BY <1>2, Opening, OscSteps
<1>4. Quiet(OscAt(<<<<>>>>), w, OscAt(ps))
  <2> HIDE DEF h, t
  <2>1. QED
    BY <1>1, TextRead
<1> HIDE DEF h, t, w
<1>5. Quiet(Ground, v, OscAt(ps))
  BY <1>3, <1>4, QuietThen
<1>6. VtStep(OscAt(ps), ESC) = Step(Start("esc"), <<a>>)
  BY OscSteps
<1>7. VtStep(Start("esc"), 92) = Step(Ground, <<Ended(92)>>) /\ 92 \in Byte /\ ESC \in Byte
  BY EscapeSteps, Opening
<1>8. v \in Seq(Byte)
  BY <1>5, QuietFacts
<1> HIDE DEF a, v
<1>9. Does(Ground, Append(v, ESC), Start("esc"), <<>> \o <<a>>)
  BY <1>5, <1>6, <1>7, DoesStep DEF Quiet
<1>10. Does(Ground, Append(Append(v, ESC), 92), Ground, (<<>> \o <<a>>) \o <<Ended(92)>>)
  BY <1>7, <1>9, DoesStep
<1>11. (<<>> \o <<a>>) \o <<Ended(92)>> = <<a, Ended(92)>>
  <2>1. <<>> \o <<a>> = <<a>>
    OBVIOUS
  <2>2. <<a>> \o <<Ended(92)>> = <<a, Ended(92)>>
    BY TwoOf
  <2>3. QED
    BY <2>1, <2>2
<1>12. Append(Append(v, ESC), 92) = v \o ST
  <2> DEFINE x == ESC
  <2>1. ST = <<x, 92>> /\ x \in Byte /\ 92 \in Byte
    BY <1>7 DEF ST
  <2> HIDE DEF x
  <2>2. Append(Append(v, x), 92) = v \o <<x, 92>>
    BY <1>8, <2>1
  <2>3. QED
    BY <2>1, <2>2 DEF x
<1>13. QED
  BY <1>10, <1>11, <1>12 DEF a, v, w, h, t

LEMMA OscSafe ==
    ASSUME NEW a, a \in [do : {"osc"}, params : Some(Seq(OscByte))]
    PROVE  Safe(Outbound(a))
<1> DEFINE ps == a.params
           e == Ended(92)
           w == EmitOsc(a)
           seen == <<a, e>>
<1>1. /\ a.do = "osc" /\ ps \in Some(Seq(OscByte)) /\ a = [do |-> "osc", params |-> ps]
      /\ a \in Acted /\ Outbound(a) = OutboundOsc(a)
  BY DEF Acted, Outbound
<1>2. CASE ~(\/ ps[1] \in AllowedOscs
             \/ ps[1] = Dec[8] /\ Url(a) \in SafeUrls \cup {<<>>})
  <2>1. Outbound(a) = <<>>
    BY <1>1, <1>2 DEF OutboundOsc
  <2>2. QED
    BY <2>1, SafeEmpty
<1>3. CASE \/ ps[1] \in AllowedOscs
           \/ ps[1] = Dec[8] /\ Url(a) \in SafeUrls \cup {<<>>}
  <2>1. Outbound(a) = w
    BY <1>1, <1>3 DEF OutboundOsc
  <2>2. w = <<ESC, 93>> \o Text(Head(ps), Tail(ps)) \o ST
    BY DEF EmitOsc, AddPart, Text, Part!Folded, FoldLeft, MapThenFoldSet,
           Part!MapThenFoldSet, Max, Part!Max
  <2>3. Does(Ground, w, Ground, seen)
    <3> HIDE DEF ps, w, e
    <3>1. Does(Ground, <<ESC, 93>> \o Text(Head(ps), Tail(ps)) \o ST, Ground,
               <<[do |-> "osc", params |-> ps], Ended(92)>>)
      BY <1>1, OscReads
    <3>2. <<[do |-> "osc", params |-> ps], Ended(92)>> = seen
      BY <1>1 DEF e
    <3>3. QED
      BY <2>2, <3>1, <3>2
  <2>4. Harmless(a)
    <3>1. \A n \in {0, 1, 2, 4, 7, 8, 10, 11, 12, 52, 104, 110, 111, 112} : n \in Num
      BY NumbersAre DEF MaxParam
    <3>2. ps[1] \in AllowedOscs => ps[1] # Dec[52] /\ ps[1] # Dec[8]
      <4> SUFFICES ASSUME NEW n \in {0, 1, 2, 4, 7, 10, 11, 12, 104, 110, 111, 112}
                   PROVE  Dec[n] # Dec[52] /\ Dec[n] # Dec[8]
        BY DEF AllowedOscs
      <4>1. n # 52 /\ n # 8 /\ n \in Num /\ 52 \in Num /\ 8 \in Num
        BY <3>1
      <4>2. QED
        BY <4>1, DecDiffer
    <3>3. Dec[8] # Dec[52]
      BY <3>1, DecDiffer
    <3>4. ps[1] # Dec[52]
      BY <1>3, <3>2, <3>3
    <3>5. ps[1] = Dec[8] => Url(a) \in SafeUrls \cup {<<>>}
      BY <1>3, <3>2
    <3>6. QED
      BY <1>1, <3>4, <3>5 DEF Harmless
  <2>5. e \in Acted /\ Harmless(e) /\ Outbound(e) = <<>>
    <3>1. 92 \in EscFinal /\ 92 \notin PlainEscapes
      BY DEF EscFinal, PlainEscapes
    <3>2. <<>> \in Seq(Byte) /\ Len(<<>>) # 1
      OBVIOUS
    <3>3. e \in [do : {"esc"}, inter : Seq(Byte), final : EscFinal]
      BY <3>1, <3>2 DEF Ended
    <3>4. e.do = "esc" /\ e.inter = <<>> /\ e.final = 92
      BY DEF Ended
    <3> HIDE DEF e
    <3>5. OutboundEsc(e) = <<>>
      BY <3>1, <3>2, <3>4 DEF OutboundEsc
    <3>6. QED
      BY <3>3, <3>4, <3>5 DEF Acted, Harmless, Outbound
  <2> HIDE DEF e, w, ps
  <2>6. seen \in Seq(Acted) /\ DOMAIN seen = 1..2 /\ seen[1] = a /\ seen[2] = e
    BY <1>1, <2>5
  <2>7. Meek(seen)
    <3> HIDE DEF seen
    <3>1. \A i \in 1..2 : i = 1 \/ i = 2
      OBVIOUS
    <3>2. QED
      BY <2>4, <2>5, <2>6, <3>1 DEF Meek
  <2>8. w \in Seq(Byte)
    BY <2>3 DEF Does
  <2>9. Put(seen) = w
    <3> DEFINE one == Append(<<>>, a)
    <3>1. <<>> \in Seq(Acted) /\ one \in Seq(Acted) /\ seen = Append(one, e)
      BY <1>1, <2>5
    <3>2. Put(Append(<<>>, a)) = Put(<<>>) \o Outbound(a)
      <4> DEFINE none == <<>>
      <4>1. none \in Seq(Acted)
        BY <3>1
      <4> HIDE DEF none
      <4>2. Put(Append(none, a)) = Put(none) \o Outbound(a)
        BY <1>1, <4>1, PutFacts
      <4>3. QED
        BY <4>2 DEF none
    <3>3. Put(one) = w
      <4>1. <<>> \o w = w
        BY <2>8
      <4>2. QED
        BY <2>1, <3>2, <4>1, PutFacts
    <3> HIDE DEF one, seen
    <3>4. Put(seen) = Put(one) \o Outbound(e)
      BY <2>5, <3>1, PutFacts
    <3>5. w \o <<>> = w
      BY <2>8
    <3>6. QED
      BY <2>5, <3>3, <3>4, <3>5
  <2> HIDE DEF seen
  <2>10. Safe(w)
    BY <2>3, <2>7, <2>8, <2>9 DEF Safe
  <2>11. QED
    BY <2>1, <2>10
<1>4. QED
  BY <1>2, <1>3

(* Whatever is performed, what the outbound filter writes of it is safe. *)
LEMMA OutboundSafe == \A a \in Acted : Safe(Outbound(a))
BY PrintSafe, ExecuteSafe, CsiSafe, OscSafe, EscSafe DEF Acted

LEMMA PutSafe == \A acts \in Seq(Acted) : Safe(Put(acts))
<1> DEFINE T == {acts \in Seq(Acted) : Safe(Put(acts))}
<1>1. <<>> \in T
  <2>1. <<>> \in Seq(Acted)
    OBVIOUS
  <2>2. QED
    BY <2>1, PutFacts, SafeEmpty
<1>2. ASSUME NEW acts \in Seq(Acted), NEW a \in Acted, acts \in T PROVE Append(acts, a) \in T
  <2>1. Put(Append(acts, a)) = Put(acts) \o Outbound(a)
    BY PutFacts
  <2>2. Safe(Put(acts)) /\ Safe(Outbound(a))
    BY <1>2, OutboundSafe
  <2>3. Safe(Put(acts) \o Outbound(a))
    BY <2>2, SafeJoin
  <2>4. Append(acts, a) \in Seq(Acted)
    OBVIOUS
  <2>5. QED
    BY <2>1, <2>3, <2>4
<1>3. \A acts \in Seq(Acted) : acts \in T
  <2> HIDE DEF T
  <2>1. QED
    BY <1>1, <1>2, Enc!SequencesByInduction
<1>4. QED
  BY <1>3

(***************************************************************************)
(* The browser's share of what is shown.                                    *)
(***************************************************************************)
(* The filter has seen all that was read, and nothing else; that is all that   *)
(* was shown, unless a line was misread.                                     *)
Streamed ==
    /\ read \in Seq(Byte)
    /\ outp = OutOf(Ground, read).p
    /\ live = OutOf(Ground, read).out
    /\ misread = AllRead => read = shown

LEMMA StreamedInit == Init => Streamed
<1> DEFINE none == <<>>
<1>1. Does(Ground, none, Ground, none)
  BY GroundIsParser, DoesNothing
<1>2. none \in Seq(Byte)
  OBVIOUS
<1>3. OutOf(Ground, none) = [p |-> Ground, out |-> Put(none)]
  <2> HIDE DEF none
  <2>1. QED
    BY <1>1, <1>2, AdvanceReads
<1> DEFINE r == OutOf(Ground, <<>>)
<1>4. r = [p |-> Ground, out |-> <<>>]
  <2>1. Put(<<>>) = <<>>
    BY PutFacts
  <2>2. QED
    BY <1>3, <2>1, Zenon
<1> HIDE DEF r
<1>5. r.p = Ground /\ r.out = <<>>
  BY <1>4
<1>6. QED
  BY <1>2, <1>5 DEF Init, Streamed, r

(* Only output reaches the filter. *)
LEMMA OthersKeep ==
    ASSUME NEW ev, ev.kind # "output", Handle(ev)
    PROVE  UNCHANGED <<outp, read, live>>
BY DEF Handle, liveVars

LEMMA ReadGoesOn ==
    ASSUME NEW piece \in Seq(Byte), Streamed, misread' = AllRead => read' = shown',
           read' = read \o piece,
           outp' = OutOf(outp, piece).p, live' = live \o OutOf(outp, piece).out
    PROVE  Streamed'
<1> DEFINE all == OutOf(Ground, read \o piece)
<1>1. all = [p   |-> OutOf(OutOf(Ground, read).p, piece).p,
             out |-> OutOf(Ground, read).out \o OutOf(OutOf(Ground, read).p, piece).out]
  BY GroundIsParser, AdvanceInParts DEF Streamed
<1>2. all = [p |-> OutOf(outp, piece).p, out |-> live \o OutOf(outp, piece).out]
  BY <1>1 DEF Streamed
<1> HIDE DEF all
<1>3. all.p = outp' /\ all.out = live'
  BY <1>2
<1>4. read' \in Seq(Byte)
  BY DEF Streamed
<1>5. all = OutOf(Ground, read')
  BY DEF all
<1>6. QED
  BY <1>3, <1>4, <1>5 DEF Streamed

LEMMA KindsDiffer ==
    /\ \A v, args : IsNote(v, args) => Note(v, args).kind # "output"
    /\ \A v : Ignored(v).kind # "output"
    /\ \A k \in {"begin", "end", "error"} : \A n, f : Block(k, n, f).kind # "output"
    /\ \A n, l : BlockLine(n, l).kind # "output"
<1>1. \A v, args : IsNote(v, args) => Note(v, args).kind # "output"
  <2> SUFFICES ASSUME NEW v, NEW args, IsNote(v, args) PROVE v # "output"
    BY DEF Note
  <2>1. QED
    BY DEF IsNote, WithWords, Bare, EitherWay
<1>2. QED
  BY <1>1 DEF Ignored, Block, BlockLine

LEMMA StreamedStep == Framing /\ UnsentOK /\ Streamed /\ [Next]_vars => Streamed'
<1> SUFFICES ASSUME Framing, UnsentOK, Streamed, [Next]_vars PROVE Streamed'
  OBVIOUS
<1>1. UNCHANGED <<shown, read, outp, live, misread>> => Streamed'
  BY DEF Streamed
(* A line that gives an event of another kind. *)
<1>2. ASSUME NEW line, NEW meant, NEW ev, Writes(line, meant), Feed(clf, line).out = <<ev>>,
             meant = <<ev>>, ev.kind # "output", shown' = shown
      PROVE  Streamed'
  <2>1. Handle(ev) /\ misread' = misread
    BY <1>2 DEF Writes
  <2>2. QED
    BY <1>1, <1>2, <2>1, OthersKeep
<1>3. block = 0 => clf = Outside
  BY DEF Framing, FramingHolds
<1>4. CASE \E p \in Panes, w \in Shows : Shown(p, w)
  BY <1>1, <1>4 DEF Shown, liveVars
<1>5. CASE \E p \in Panes : OutputLine(p)
  <2>1. PICK p \in Panes : OutputLine(p)
    BY <1>5
  <2>2. PICK n \in 1..Len(unsent[p]) :
            /\ Writes(MkLine("%output", <<p, "payload">>, <<>>, Encoded(SubSeq(unsent[p], 1, n))),
                      <<Output(p, SubSeq(unsent[p], 1, n))>>)
            /\ shown' = IF p = active /\ serving THEN shown \o SubSeq(unsent[p], 1, n) ELSE shown
    BY <2>1 DEF OutputLine
  <2> DEFINE piece == SubSeq(unsent[p], 1, n)
             line  == MkLine("%output", <<p, "payload">>, <<>>, Encoded(piece))
             ev    == Output(p, piece)
  <2>3. piece \in Seq(Byte)
    <3>1. unsent[p] \in Seq(Byte)
      BY DEF UnsentOK
    <3>2. QED
      BY <3>1
  <2>4. clf = Outside
    BY <1>3, <2>1 DEF OutputLine
  <2>5. Writes(line, <<ev>>)
    BY <2>2
  <2>6. Feed(clf, line).out = IF IsUtf8(piece) THEN <<ev>> ELSE <<>>
    <3> HIDE DEF piece
    <3>1. QED
      BY <2>3, <2>4, OutputMeans
  <2>7. shown' = IF p = active /\ serving THEN shown \o piece ELSE shown
    BY <2>2
  <2>8. CASE ~IsUtf8(piece)
    <3>1. UNCHANGED liveVars /\ misread' = Misread(line, <<>>)
      <4> HIDE DEF piece, line, ev
      <4>1. <<>> # <<ev>>
        OBVIOUS
      <4>2. QED
        BY <2>5, <2>6, <2>8, <4>1 DEF Writes
    <3>2. Misread(line, <<>>) # AllRead
      <4>1. Misread(line, <<>>).line.verb = "%output" /\ AllRead.line.verb = "none"
        BY DEF Misread, AllRead, MkLine
      <4>2. QED
        BY <4>1
    <3> HIDE DEF line
    <3>3. QED
      BY <3>1, <3>2 DEF liveVars, Streamed
  <2>9. CASE IsUtf8(piece)
    <3>1. ev.kind = "output" /\ ev.pane = p /\ ev.data = piece
      BY DEF Output
    <3>2. Handle(ev) /\ misread' = misread
      <4> HIDE DEF line, ev
      <4>1. QED
        BY <2>5, <2>6, <2>9 DEF Writes
    <3> HIDE DEF ev, piece
    <3>3. CASE ~serving
      <4>1. UNCHANGED liveVars
        BY <3>2, <3>3 DEF Handle
      <4>2. QED
        BY <1>1, <2>7, <3>2, <3>3, <4>1 DEF liveVars
    <3>4. CASE serving
      <4>1. ToBrowser(ev)
        BY <3>1, <3>2, <3>4 DEF Handle
      <4>2. CASE p # active
        <5>1. UNCHANGED liveVars
          BY <3>1, <4>1, <4>2 DEF ToBrowser
        <5>2. QED
          BY <1>1, <2>7, <3>2, <4>2, <5>1 DEF liveVars
      <4>3. CASE p = active
        <5>1. /\ outp' = OutOf(outp, piece).p /\ live' = live \o OutOf(outp, piece).out
              /\ read' = read \o piece
          BY <3>1, <4>1, <4>3 DEF ToBrowser, OutOf
        <5>2. misread' = AllRead => read' = shown'
          BY <2>7, <3>2, <3>4, <4>3, <5>1 DEF Streamed
        <5>3. QED
          BY <2>3, <5>1, <5>2, ReadGoesOn
      <4>4. QED
        BY <4>2, <4>3
    <3>5. QED
      BY <3>3, <3>4
  <2>10. QED
    BY <2>8, <2>9
<1>6. CASE \E p \in Panes : PaneChangedLine(p)
  <2>1. PICK p \in Panes : PaneChangedLine(p)
    BY <1>6
  <2> DEFINE words == <<"@1", p>>
             line  == Notice("%window-pane-changed", words)
             ev    == Note("%window-pane-changed", words)
  <2>2. IsNote("%window-pane-changed", words)
    BY DEF IsNote
  <2>3. Feed(clf, line).out = <<ev>>
    <3>1. clf = Outside
      BY <1>3, <2>1 DEF PaneChangedLine
    <3>2. Feed(Outside, line).out = <<ev>>
      BY PaneChangedMeans
    <3>3. QED
      BY <3>1, <3>2
  <2>4. Writes(line, <<ev>>) /\ shown' = shown
    BY <2>1 DEF PaneChangedLine
  <2>5. ev.kind # "output"
    BY DEF Note
  <2> HIDE DEF line, ev
  <2>6. QED
    BY <1>2, <2>3, <2>4, <2>5
<1>7. CASE \E n \in Notices : NoticeLine(n)
  <2>1. PICK n \in Notices : NoticeLine(n)
    BY <1>7
  <2> DEFINE ev    == IF IsNote(n.verb, n.args) THEN Note(n.verb, n.args) ELSE Ignored(n.verb)
             meant == IF IsNote(n.verb, n.args) THEN <<Note(n.verb, n.args)>>
                      ELSE <<Ignored(n.verb)>>
  <2>2. Feed(Outside, n).out = meant
    BY NoticeMeans, PaneIOAssumption
  <2>3. clf = Outside /\ Writes(n, meant) /\ shown' = shown
    BY <1>3, <2>1 DEF NoticeLine
  <2>4. meant = <<ev>>
    OBVIOUS
  <2>5. ev.kind # "output"
    BY KindsDiffer
  <2> HIDE DEF ev, meant
  <2>6. QED
    BY <1>2, <2>2, <2>3, <2>4, <2>5
<1>8. CASE BeginLine
  <2>1. PICK f \in {0, 1} : Writes(Guard("%begin", block', f), <<Block("begin", block', f)>>)
    BY <1>8 DEF BeginLine
  <2>2. block' \in Nat /\ clf = Outside /\ shown' = shown
    BY <1>3, <1>8 DEF BeginLine, Framing, CountsOK
  <2>3. Feed(clf, Guard("%begin", block', f)).out = <<Block("begin", block', f)>>
    BY <2>2, BeginOpens
  <2>4. Block("begin", block', f).kind # "output"
    BY KindsDiffer
  <2>5. QED
    BY <1>2, <2>1, <2>2, <2>3, <2>4
<1>9. CASE \E l \in BodyLines : BodyLine(l)
  <2>1. PICK l \in BodyLines : BodyLine(l)
    BY <1>9
  <2>2. PICK f \in {0, 1} : clf = InsideBlock(block, f)
    BY <2>1, OpenBlock DEF BodyLine
  <2>3. Feed(clf, l).out = <<BlockLine(block, l)>>
    BY <2>1, <2>2, BodyStays, InsideStays
  <2>4. Writes(l, <<BlockLine(block, l)>>) /\ shown' = shown
    BY <2>1 DEF BodyLine
  <2>5. BlockLine(block, l).kind # "output"
    BY KindsDiffer
  <2>6. QED
    BY <1>2, <2>3, <2>4, <2>5
<1>10. CASE \E ok \in BOOLEAN : EndLine(ok)
  <2>1. PICK ok \in BOOLEAN : EndLine(ok)
    BY <1>10
  <2>2. PICK f \in {0, 1} : clf = InsideBlock(block, f)
    BY <2>1, OpenBlock DEF EndLine
  <2>3. clf.flags = f
    BY <2>2, StatesDiffer
  <2> DEFINE line == Guard(IF ok THEN "%end" ELSE "%error", block, clf.flags)
             ev   == Block(IF ok THEN "end" ELSE "error", block, clf.flags)
  <2>4. Feed(clf, line).out = <<ev>>
    BY <2>2, <2>3, EndCloses
  <2>5. Writes(line, <<ev>>) /\ shown' = shown
    BY <2>1 DEF EndLine
  <2>6. ev.kind # "output"
    BY KindsDiffer
  <2> HIDE DEF line, ev
  <2>7. QED
    BY <1>2, <2>4, <2>5, <2>6
<1>11. CASE \E k \in Keys : Stdin(k)
  BY <1>1, <1>11 DEF Stdin, liveVars
<1>12. CASE UNCHANGED vars
  BY <1>1, <1>12 DEF vars, liveVars
<1>13. QED
  BY <1>4, <1>5, <1>6, <1>7, <1>8, <1>9, <1>10, <1>11, <1>12 DEF Next

(* The browser has what filter() makes of all that was read of its pane, in    *)
(* one piece, wherever tmux cut the output: inside an escape sequence or       *)
(* between reads (outbound.rs:31, ws_pane.rs:283).  And it is all that the     *)
(* pane showed, unless a line cut a character in two: then that line is lost.  *)
THEOREM LiveCorrect == Spec => []LiveIsFiltered
<1>1. Streamed => LiveIsFiltered
  BY DEF Streamed, LiveIsFiltered, Filter, OutOf
<1>2. Meaning => UnsentOK
  BY DEF Meaning
<1>3. QED
  BY FramingInit, FramingStep, MeaningInit, MeaningStep, StreamedInit, StreamedStep,
     <1>1, <1>2, PTL DEF Spec

(* What the filter wrote is safe, and so harmless to the browser's terminal. *)
LEMMA StreamedHarmless == Streamed => LiveIsHarmless
<1> SUFFICES ASSUME Streamed PROVE LiveIsHarmless
  OBVIOUS
<1> DEFINE acts == Reading(Ground, read).acts
           q    == Reading(Ground, read).p
           out  == OutOf(Ground, read)
<1>1. read \in Seq(Byte) /\ live = out.out
  BY DEF Streamed
<1>2. Does(Ground, read, q, acts)
  BY <1>1, GroundIsParser, ReadingDoes
<1> HIDE DEF acts, q
<1>3. out = [p |-> q, out |-> Put(acts)]
  BY <1>1, <1>2, AdvanceReads
<1> HIDE DEF out
<1>4. live = Put(acts)
  BY <1>1, <1>3
<1>5. Safe(live)
  BY <1>2, <1>4, PutSafe DEF Does
<1>6. PICK seen : Does(Ground, live, Ground, seen) /\ Meek(seen) /\ Put(seen) = live
  BY <1>5 DEF Safe
<1>7. live \in Seq(Byte)
  BY <1>6 DEF Does
<1> DEFINE told == Performed(live)
           again == OutOf(Ground, live)
<1>8. told = [p |-> Ground, acts |-> seen]
  <2>1. told = Reading(Ground, live)
    BY DEF Performed, Reading, Unread, PerformOn, Performs!Folded, FoldLeft,
           MapThenFoldSet, Performs!MapThenFoldSet, Max, Performs!Max
  <2>2. QED
    BY <1>6, <2>1 DEF Does
<1>9. again = [p |-> Ground, out |-> live]
  BY <1>6, <1>7, AdvanceReads
<1>10. Filter("outbound", live) = again.out
  BY DEF Filter, OutOf
<1> HIDE DEF told, again
<1>11. told.p = Ground /\ told.acts = seen /\ again.out = live
  BY <1>8, <1>9
<1>12. \A i \in DOMAIN told.acts : Harmless(told.acts[i])
  BY <1>6, <1>11 DEF Meek
<1>13. QED
  BY <1>10, <1>11, <1>12 DEF LiveIsHarmless, told

(* Whatever programs write, and wherever it is cut: the terminal of the browser *)
(* is told nothing but what may pass, and would be told the same if it were    *)
(* filtered twice.  No mouse report, mode, clipboard or link arises from the   *)
(* parts of the sequences that were held back (outbound.rs:7).                *)
THEOREM HarmlessCorrect == Spec => []LiveIsHarmless
<1>1. Meaning => UnsentOK
  BY DEF Meaning
<1>2. QED
  BY FramingInit, FramingStep, MeaningInit, MeaningStep, StreamedInit, StreamedStep,
     StreamedHarmless, <1>1, PTL DEF Spec

(***************************************************************************)
(* The way in: what the inbound filter sends to tmux of what was typed.      *)
(***************************************************************************)
LEMMA CodesAreBytes == Final \subseteq Byte /\ EscFinal \subseteq Byte /\ ESC \in Byte
BY NumbersAre DEF Final, EscFinal, ESC

LEMMA InboundType == \A a \in Acted : Inbound(a) \in Seq(Byte)
<1>0. <<>> \in Seq(Byte)
  OBVIOUS
<1>1. ASSUME NEW a \in [do : {"print"}, bytes : {<<b>> : b \in Byte \ C0}]
                       \cup [do : {"execute"}, bytes : {<<b>> : b \in C0 \ {ESC}}]
      PROVE  Inbound(a) \in Seq(Byte)
  <2>1. \A b \in C0 : b \in Byte
    BY DEF C0, Byte
  <2>2. PICK b \in Byte : a.bytes = <<b>> /\ a.do \in {"print", "execute"}
    BY <2>1
  <2>3. QED
    BY <2>2 DEF Inbound
<1>2. ASSUME NEW a \in [do : {"csi"}, params : Params, inter : Seq(Byte), final : Final]
      PROVE  Inbound(a) \in Seq(Byte)
  <2>1. a.do = "csi" /\ a.inter \in Seq(Byte) /\ a.params \in Params /\ a.final \in Byte
    <3>1. a.do = "csi" /\ a.inter \in Seq(Byte) /\ a.params \in Params /\ a.final \in Final
      OBVIOUS
    <3>2. QED
      BY <3>1, CodesAreBytes
  <2>2. Inbound(a) = EmitCsi(a)
    BY <2>1 DEF Inbound
  <2>3. QED
    BY <2>1, <2>2, EmitCsiType
<1>3. ASSUME NEW a \in [do : {"osc"}, params : Some(Seq(OscByte))]
      PROVE  Inbound(a) \in Seq(Byte)
  BY <1>0 DEF Inbound
<1>4. ASSUME NEW a \in [do : {"esc"}, inter : Seq(Byte), final : EscFinal]
      PROVE  Inbound(a) \in Seq(Byte)
  <2> DEFINE i == a.inter
             f == a.final
  <2>1. a.do = "esc" /\ i \in Seq(Byte) /\ f \in Byte /\ ESC \in Byte
    <3>1. a.do = "esc" /\ i \in Seq(Byte) /\ f \in EscFinal
      OBVIOUS
    <3>2. QED
      BY <3>1, CodesAreBytes
  <2>2. Inbound(a) = <<ESC>> \o i \o <<f>>
    BY <2>1 DEF Inbound
  <2> HIDE DEF i, f
  <2>3. <<ESC>> \in Seq(Byte) /\ <<f>> \in Seq(Byte)
    BY <2>1
  <2>4. <<ESC>> \o i \in Seq(Byte)
    BY <2>1, <2>3, Concatenation
  <2>5. <<ESC>> \o i \o <<f>> \in Seq(Byte)
    BY <2>3, <2>4, Concatenation
  <2>6. QED
    BY <2>2, <2>5
<1>5. QED
  BY <1>1, <1>2, <1>3, <1>4 DEF Acted

(***************************************************************************)
(* Advance, on the way in, is what a parser performs, sent.  The argument is *)
(* that of the way out, with what Inbound writes for what Outbound does.     *)
(***************************************************************************)
PutIn(o, a) == o \o Written("inbound", a)
PassBy(r, b) ==
    LET s == VtStep(r.p, b)
    IN  [p |-> s.p, out |-> FoldLeft(LAMBDA o, a : o \o Written("inbound", a), r.out, s.acts)]
Ins     == INSTANCE FoldFacts WITH Op <- PutIn
Passes == INSTANCE FoldFacts WITH Op <- PassBy

Sent(acts)   == Ins!Folded(<<>>, acts)
InOf(p, s) == Advance("inbound", p, s)

LEMMA InsOnto ==
    \A acts \in Seq(Acted) : \A o \in Seq(Byte) :
        /\ Ins!Folded(o, acts) \in Seq(Byte)
        /\ Ins!Folded(o, acts) = o \o Ins!Folded(<<>>, acts)
<1>0. <<>> \in Seq(Byte) /\ \A o \in Seq(Byte) : o = o \o <<>>
  OBVIOUS
<1>1. ASSUME NEW o \in Seq(Byte), NEW a \in Acted
      PROVE  PutIn(o, a) = o \o Inbound(a) /\ Inbound(a) \in Seq(Byte)
  BY InboundType DEF PutIn, Written
<1> DEFINE T == {acts \in Seq(Acted) : \A o \in Seq(Byte) :
                    /\ Ins!Folded(o, acts) \in Seq(Byte)
                    /\ Ins!Folded(o, acts) = o \o Ins!Folded(<<>>, acts)}
<1>2. <<>> \in T
  <2>1. <<>> \in Seq(Acted)
    OBVIOUS
  <2>2. QED
    BY <1>0, <2>1, Ins!FoldEmpty
<1>3. ASSUME NEW acts \in Seq(Acted), NEW a \in Acted, acts \in T
      PROVE  Append(acts, a) \in T
  <2>1. \A o \in Seq(Byte) : Ins!Folded(o, Append(acts, a)) = Ins!Folded(o, acts) \o Inbound(a)
    <3>1. \A o \in Seq(Byte) : Ins!Folded(o, acts) \in Seq(Byte)
      BY <1>3
    <3>2. \A o \in Seq(Byte) : Ins!Folded(o, Append(acts, a)) = PutIn(Ins!Folded(o, acts), a)
      BY Ins!FoldAppend
    <3>3. QED
      BY <1>1, <3>1, <3>2
  <2> SUFFICES ASSUME NEW o \in Seq(Byte)
               PROVE  /\ Ins!Folded(o, Append(acts, a)) \in Seq(Byte)
                      /\ Ins!Folded(o, Append(acts, a)) = o \o Ins!Folded(<<>>, Append(acts, a))
    OBVIOUS
  <2>2. Ins!Folded(o, acts) = o \o Ins!Folded(<<>>, acts) /\ Ins!Folded(<<>>, acts) \in Seq(Byte)
    BY <1>0, <1>3
  <2>3. Inbound(a) \in Seq(Byte)
    BY <1>1
  <2>4. /\ Ins!Folded(o, Append(acts, a)) = (o \o Ins!Folded(<<>>, acts)) \o Inbound(a)
        /\ Ins!Folded(<<>>, Append(acts, a)) = Ins!Folded(<<>>, acts) \o Inbound(a)
    BY <1>0, <2>1, <2>2
  <2> DEFINE w == Ins!Folded(<<>>, acts)
             v == Inbound(a)
  <2>5. w \in Seq(Byte) /\ v \in Seq(Byte)
    BY <2>2, <2>3
  <2> HIDE DEF T, w, v
  <2>6. o \o w \in Seq(Byte) /\ (o \o w) \o v = o \o (w \o v)
    BY <2>5, Concatenation
  <2>7. (o \o w) \o v \in Seq(Byte)
    BY <2>5, <2>6, Concatenation
  <2>8. QED
    BY <2>4, <2>6, <2>7 DEF w, v
<1>4. \A acts \in Seq(Acted) : acts \in T
  <2> HIDE DEF T
  <2>1. QED
    BY <1>2, <1>3, Enc!SequencesByInduction
<1>5. QED
  BY <1>4

LEMMA SentFacts ==
    /\ Sent(<<>>) = <<>>
    /\ \A acts \in Seq(Acted), a \in Acted : Sent(Append(acts, a)) = Sent(acts) \o Inbound(a)
    /\ \A acts \in Seq(Acted) : Sent(acts) \in Seq(Byte)
    /\ \A acts, more \in Seq(Acted) : Sent(acts \o more) = Sent(acts) \o Sent(more)
<1>1. Sent(<<>>) = <<>>
  BY Ins!FoldEmpty DEF Sent
<1>2. \A acts \in Seq(Acted), a \in Acted : Sent(Append(acts, a)) = Sent(acts) \o Inbound(a)
  BY Ins!FoldAppend DEF Sent, PutIn, Written
<1>3. \A acts \in Seq(Acted) : Sent(acts) \in Seq(Byte)
  <2>1. <<>> \in Seq(Byte)
    OBVIOUS
  <2>2. QED
    BY <2>1, InsOnto DEF Sent
<1> DEFINE T == {more \in Seq(Acted) :
                    \A acts \in Seq(Acted) : Sent(acts \o more) = Sent(acts) \o Sent(more)}
<1>4. <<>> \in T
  <2> SUFFICES ASSUME NEW acts \in Seq(Acted) PROVE Sent(acts \o <<>>) = Sent(acts) \o Sent(<<>>)
    OBVIOUS
  <2>1. Sent(acts) \o <<>> = Sent(acts) /\ acts \o <<>> = acts
    BY <1>3
  <2>2. QED
    BY <1>1, <2>1
<1>5. ASSUME NEW more \in Seq(Acted), NEW a \in Acted, more \in T PROVE Append(more, a) \in T
  <2> SUFFICES ASSUME NEW acts \in Seq(Acted)
               PROVE  Sent(acts \o Append(more, a)) = Sent(acts) \o Sent(Append(more, a))
    OBVIOUS
  <2> DEFINE x == Sent(acts)
             y == Sent(more)
             z == Inbound(a)
  <2>1. acts \o Append(more, a) = Append(acts \o more, a) /\ acts \o more \in Seq(Acted)
    OBVIOUS
  <2>2. Sent(acts \o more) = x \o y
    BY <1>5
  <2>3. Sent(acts \o Append(more, a)) = (x \o y) \o z
    BY <1>2, <2>1, <2>2
  <2>4. Sent(Append(more, a)) = y \o z
    BY <1>2
  <2>5. x \in Seq(Byte) /\ y \in Seq(Byte) /\ z \in Seq(Byte)
    BY <1>3, InboundType
  <2> HIDE DEF x, y, z
  <2>6. (x \o y) \o z = x \o (y \o z)
    BY <2>5, Concatenation, SMTT(60)
  <2>7. QED
    BY <2>3, <2>4, <2>6 DEF x
<1>6. \A more \in Seq(Acted) : more \in T
  <2> HIDE DEF T
  <2>1. QED
    BY <1>4, <1>5, Enc!SequencesByInduction
<1>7. QED
  BY <1>1, <1>2, <1>3, <1>6

LEMMA PassFolds ==
    \A p, s : InOf(p, s) = Passes!Folded([p |-> p, out |-> <<>>], s)
BY DEF InOf, Advance, PassBy, Passes!Folded, FoldLeft, MapThenFoldSet,
       Passes!MapThenFoldSet, Max, Passes!Max

LEMMA PassByIns ==
    ASSUME NEW r, NEW b
    PROVE  PassBy(r, b) = [p   |-> VtStep(r.p, b).p,
                              out |-> Ins!Folded(r.out, VtStep(r.p, b).acts)]
<1>1. \A u, s : FoldLeft(LAMBDA x, a : x \o Written("inbound", a), u, s) = Ins!Folded(u, s)
  BY DEF PutIn, Ins!Folded, FoldLeft, MapThenFoldSet,
         Ins!MapThenFoldSet, Max, Ins!Max
<1>2. QED
  BY <1>1, Zenon DEF PassBy

LEMMA PassReads ==
    \A s \in Seq(Byte) : \A p, q, acts :
        Does(p, s, q, acts) => InOf(p, s) = [p |-> q, out |-> Sent(acts)]
<1> DEFINE T == {s \in Seq(Byte) : \A p, q, acts :
                    Does(p, s, q, acts) => InOf(p, s) = [p |-> q, out |-> Sent(acts)]}
<1>1. ASSUME NEW p, NEW q, NEW acts, Does(p, <<>>, q, acts)
      PROVE  InOf(p, <<>>) = [p |-> q, out |-> Sent(acts)]
  <2>1. Reading(p, <<>>) = [p |-> p, acts |-> <<>>] /\ Reading(p, <<>>) = [p |-> q, acts |-> acts]
    BY <1>1, ReadingEquations DEF Does, Unread
  <2>2. q = p /\ acts = <<>>
    BY <2>1
  <2>3. InOf(p, <<>>) = [p |-> p, out |-> <<>>]
    BY PassFolds, Passes!FoldEmpty
  <2>4. QED
    BY <2>2, <2>3, SentFacts
<1>2. ASSUME NEW s \in Seq(Byte), NEW b \in Byte, s \in T,
             NEW p, NEW q, NEW acts, Does(p, Append(s, b), q, acts)
      PROVE  InOf(p, Append(s, b)) = [p |-> q, out |-> Sent(acts)]
  <2> DEFINE m == Reading(p, s).p
             c == Reading(p, s).acts
             e == VtStep(m, b).acts
             n == VtStep(m, b).p
  <2>1. Does(p, s, m, c)
    BY <1>2, ReadingDoes DEF Does
  <2> HIDE DEF m, c
  <2>2. Does(p, Append(s, b), n, c \o e)
    BY <2>1, DoesOneMore
  <2>3. [p |-> q, acts |-> acts] = [p |-> n, acts |-> c \o e]
    BY <1>2, <2>2 DEF Does
  <2>4. m \in Parser /\ c \in Seq(Acted)
    BY <2>1 DEF Does
  <2>5. e \in Seq(Acted)
    BY <2>4, VtStepType
  <2>6. InOf(p, Append(s, b)) = PassBy(InOf(p, s), b)
    BY PassFolds, Passes!FoldAppend
  <2>7. InOf(p, s) = [p |-> m, out |-> Sent(c)]
    BY <1>2, <2>1
  <2>8. PassBy([p |-> m, out |-> Sent(c)], b) = [p |-> n, out |-> Ins!Folded(Sent(c), e)]
    BY PassByIns
  <2>9. Ins!Folded(Sent(c), e) = Sent(c) \o Sent(e)
    <3>1. Sent(c) \in Seq(Byte)
      BY <2>4, SentFacts
    <3>2. QED
      BY <2>5, <3>1, InsOnto DEF Sent
  <2> HIDE DEF e, n
  <2>10. q = n /\ acts = c \o e
    BY <2>3
  <2>11. Sent(acts) = Sent(c) \o Sent(e)
    BY <2>4, <2>5, <2>10, SentFacts
  <2>12. QED
    BY <2>6, <2>7, <2>8, <2>9, <2>10, <2>11
<1>3. <<>> \in T
  <2>1. <<>> \in Seq(Byte)
    OBVIOUS
  <2>2. QED
    BY <1>1, <2>1
<1>4. ASSUME NEW s \in Seq(Byte), NEW b \in Byte, s \in T PROVE Append(s, b) \in T
  <2>1. Append(s, b) \in Seq(Byte)
    OBVIOUS
  <2>2. QED
    BY <1>2, <1>4, <2>1
<1>5. \A s \in Seq(Byte) : s \in T
  <2> HIDE DEF T
  <2>1. QED
    BY <1>3, <1>4, Enc!SequencesByInduction
<1>6. QED
  BY <1>5

(* What the filter makes of a whole is what it makes of the first part and,    *)
(* from the state that leaves the parser in, of the second, wherever the cut is *)
(* (ws_pane.rs:189).                                         *)
THEOREM PassInParts ==
    ASSUME NEW p \in Parser, NEW s \in Seq(Byte), NEW t \in Seq(Byte)
    PROVE  InOf(p, s \o t) = [p   |-> InOf(InOf(p, s).p, t).p,
                               out |-> InOf(p, s).out \o InOf(InOf(p, s).p, t).out]
<1> DEFINE q == Reading(p, s).p
           a == Reading(p, s).acts
           r == Reading(q, t).p
           c == Reading(q, t).acts
<1>1. Does(p, s, q, a)
  BY ReadingDoes
<1>2. Does(q, t, r, c)
  BY <1>1, ReadingDoes DEF Does
<1> HIDE DEF q, a, r, c
<1>3. Does(p, s \o t, r, a \o c)
  BY <1>1, <1>2, DoesThen
<1>4. s \o t \in Seq(Byte)
  OBVIOUS
<1>5. InOf(p, s) = [p |-> q, out |-> Sent(a)]
  BY <1>1, PassReads
<1>6. InOf(q, t) = [p |-> r, out |-> Sent(c)]
  BY <1>2, PassReads
<1>7. InOf(p, s \o t) = [p |-> r, out |-> Sent(a \o c)]
  <2> DEFINE u == s \o t
             e == a \o c
  <2>1. u \in Seq(Byte) /\ Does(p, u, r, e)
    BY <1>3, <1>4
  <2> HIDE DEF u, e
  <2>2. InOf(p, u) = [p |-> r, out |-> Sent(e)]
    BY <2>1, PassReads
  <2>3. QED
    BY <2>2 DEF u, e
<1>8. Sent(a \o c) = Sent(a) \o Sent(c)
  BY <1>1, <1>2, SentFacts DEF Does
<1> DEFINE first  == InOf(p, s)
           second == InOf(q, t)
           x      == Sent(a)
           y      == Sent(c)
<1>9. first = [p |-> q, out |-> x] /\ second = [p |-> r, out |-> y]
  BY <1>5, <1>6
<1> HIDE DEF first, second, x, y
<1>10. first.p = q /\ first.out = x /\ second.p = r /\ second.out = y
  BY <1>9
<1>11. InOf(p, s \o t) = [p |-> second.p, out |-> first.out \o second.out]
  BY <1>7, <1>8, <1>10 DEF x, y
<1>12. QED
  BY <1>10, <1>11 DEF first, second
(***************************************************************************)
(* What may be typed: a character or a control, a letter with Alt, and a key *)
(* that is a sequence, its numbers written as they are written by the filter. *)
(***************************************************************************)
Stroke ==
    {<<b>> : b \in Byte \ {ESC}} \cup {<<ESC, b>> : b \in AltFinal}
    \cup {EmitCsi(Told(inter, ps, b)) : inter \in Marks, ps \in Params, b \in Final}

StrokeOnto(s, k) == s \o k
Strikes == INSTANCE FoldFacts WITH Op <- StrokeOnto

(* One stroke after the other, and all there is to type in this way. *)
Struck(ks) == Strikes!Folded(<<>>, ks)
Typeable   == {Struck(ks) : ks \in Seq(Stroke)}

(* What reaches tmux whole, and leaves the filter as it found it. *)
Kept(w) == w \in Seq(Byte) /\ InOf(Ground, w) = [p |-> Ground, out |-> w]

LEMMA KeptEmpty == Kept(<<>>)
<1> DEFINE none == <<>>
<1>1. none \in Seq(Byte)
  OBVIOUS
<1>2. Does(Ground, none, Ground, none)
  BY GroundIsParser, DoesNothing
<1>3. Sent(none) = none
  BY SentFacts
<1> HIDE DEF none
<1>4. InOf(Ground, none) = [p |-> Ground, out |-> Sent(none)]
  BY <1>1, <1>2, PassReads
<1>5. Kept(none)
  BY <1>1, <1>3, <1>4 DEF Kept
<1>6. QED
  BY <1>5 DEF none

LEMMA KeptJoin ==
    ASSUME NEW v, NEW w, Kept(v), Kept(w)
    PROVE  Kept(v \o w)
<1>1. v \in Seq(Byte) /\ w \in Seq(Byte)
  BY DEF Kept
<1> DEFINE first  == InOf(Ground, v)
           second == InOf(Ground, w)
           all    == InOf(Ground, v \o w)
<1>2. first.p = Ground /\ first.out = v /\ second.p = Ground /\ second.out = w
  BY DEF Kept
<1>3. all = [p |-> InOf(first.p, w).p, out |-> first.out \o InOf(first.p, w).out]
  BY <1>1, GroundIsParser, PassInParts
<1>4. v \o w \in Seq(Byte)
  BY <1>1
<1> DEFINE u == v \o w
<1> HIDE DEF first, all
<1>5. all = [p |-> second.p, out |-> v \o second.out]
  BY <1>2, <1>3
<1> HIDE DEF second
<1>6. all = [p |-> Ground, out |-> u]
  BY <1>2, <1>5
<1>7. QED
  BY <1>4, <1>6 DEF Kept, all

(* One action that is sent as it was read. *)
LEMMA KeptOne ==
    ASSUME NEW w, NEW a \in Acted, Does(Ground, w, Ground, <<a>>), Inbound(a) = w
    PROVE  Kept(w)
<1>1. w \in Seq(Byte) /\ <<a>> \in Seq(Acted)
  BY DEF Does
<1>2. Sent(<<a>>) = w
  <2>1. <<>> \in Seq(Acted) /\ <<a>> = Append(<<>>, a)
    OBVIOUS
  <2>2. Sent(Append(<<>>, a)) = Sent(<<>>) \o Inbound(a)
    BY <2>1, SentFacts
  <2>3. <<>> \o w = w
    BY <1>1
  <2>4. QED
    BY <2>1, <2>2, <2>3, SentFacts
<1>3. InOf(Ground, w) = [p |-> Ground, out |-> Sent(<<a>>)]
  BY <1>1, PassReads
<1>4. QED
  BY <1>1, <1>2, <1>3 DEF Kept

LEMMA GroundReads ==
    ASSUME NEW b \in Byte \ {ESC}
    PROVE  VtStep(Ground, b) = Step(Ground, <<Act(IF b \in C0 THEN "execute" ELSE "print", <<b>>)>>)
<1> DEFINE a == Act(IF b \in C0 THEN "execute" ELSE "print", <<b>>)
<1>1. Ground.st = "ground" /\ OscEnd(Ground) = <<>>
  BY DEF Ground, Start, OscEnd
<1>2. VtStep(Ground, b) = Step(Ground, <<a>>)
  <2>1. CASE b \in {CAN, SUBST}
    <3>1. b \in C0
      BY <2>1 DEF C0, CAN, SUBST
    <3>2. Append(OscEnd(Ground), Act("execute", <<b>>)) = <<Act("execute", <<b>>)>>
      BY <1>1
    <3>3. VtStep(Ground, b) = Step(Ground, Append(OscEnd(Ground), Act("execute", <<b>>)))
      BY <2>1 DEF VtStep
    <3>4. QED
      BY <3>1, <3>2, <3>3
  <2>2. CASE b \notin {CAN, SUBST}
    BY <1>1, <2>2 DEF VtStep
  <2>3. QED
    BY <2>1, <2>2
<1>3. QED
  BY <1>2

LEMMA PlainKept ==
    ASSUME NEW b \in Byte \ {ESC}
    PROVE  Kept(<<b>>)
<1> DEFINE a == Act(IF b \in C0 THEN "execute" ELSE "print", <<b>>)
<1>1. VtStep(Ground, b) = Step(Ground, <<a>>)
  BY GroundReads
<1>2. a \in Acted
  BY ActedFacts, GroundIsParser
<1>3. Inbound(a) = <<b>>
  BY DEF Inbound, Act
<1> HIDE DEF a
<1>4. Does(Ground, <<b>>, Ground, <<a>>)
  BY <1>1, ReadOne
<1>5. QED
  BY <1>2, <1>3, <1>4, KeptOne

LEMMA AltKept ==
    ASSUME NEW b \in AltFinal
    PROVE  Kept(<<ESC, b>>)
<1> DEFINE e == Start("esc")
           a == Ended(b)
<1>1. b \in Byte /\ VtStep(e, b) = Step(Ground, <<a>>)
  BY EscapeEnds
<1>2. ESC \in Byte /\ VtStep(Ground, ESC) = Step(e, <<>>)
  BY NumbersAre DEF VtStep, OscEnd, Ground, Start, ESC
<1>3. e \in Parser
  BY StartType
<1>4. a \in Acted /\ Inbound(a) = <<ESC>> \o <<>> \o <<b>>
  <2>1. b \in EscFinal /\ <<>> \in Seq(Byte)
    BY DEF AltFinal
  <2>2. QED
    BY <2>1 DEF Ended, Acted, Inbound
<1> HIDE DEF e, a
<1>5. Quiet(Ground, <<ESC>>, e)
  <2>1. Quiet(Ground, Append(<<>>, ESC), e)
    BY <1>2, GroundIsParser, QuietFacts
  <2>2. QED
    BY <2>1, Append(<<>>, ESC) = <<ESC>>
<1>6. Does(Ground, Append(<<ESC>>, b), Ground, <<>> \o <<a>>)
  BY <1>1, <1>5, DoesStep DEF Quiet
<1>7. Append(<<ESC>>, b) = <<ESC, b>> /\ <<>> \o <<a>> = <<a>> /\ <<ESC>> \o <<>> \o <<b>> = <<ESC, b>>
  <2>1. <<>> \o <<a>> = <<a>>
    OBVIOUS
  <2>2. <<ESC>> \in Seq(Byte)
    BY <1>2
  <2>3. Append(<<ESC>>, b) = <<ESC>> \o <<b>>
    BY <1>1, <2>2
  <2>4. <<ESC>> \o <<>> = <<ESC>>
    BY <2>2, Concatenation
  <2>5. QED
    BY <2>1, <2>3, <2>4, TwoOf
<1>8. Does(Ground, <<ESC, b>>, Ground, <<a>>)
  BY <1>6, <1>7
<1>9. QED
  BY <1>4, <1>7, <1>8, KeptOne

LEMMA CsiKept ==
    ASSUME NEW inter \in Marks, NEW ps \in Params, NEW b \in Final
    PROVE  Kept(EmitCsi(Told(inter, ps, b)))
<1> DEFINE a == Told(inter, ps, b)
<1>1. a \in [do : {"csi"}, params : Params, inter : Seq(Byte), final : Final] /\ a.inter \in Marks
  <2>1. <<>> \in Seq(Byte) /\ <<63>> \in Seq(Byte)
    BY NumbersAre
  <2>2. inter \in Seq(Byte)
    BY <2>1 DEF Marks
  <2>3. QED
    BY <2>2 DEF Told
<1>2. a \in Acted /\ Inbound(a) = EmitCsi(a)
  BY <1>1 DEF Acted, Inbound
<1>3. Does(Ground, EmitCsi(a), Ground, <<a>>)
  <2> HIDE DEF a
  <2>1. QED
    BY <1>1, EmitReads
<1> HIDE DEF a
<1>4. Kept(EmitCsi(a))
  BY <1>2, <1>3, KeptOne
<1>5. QED
  BY <1>4 DEF a

LEMMA StrokeKept == \A k \in Stroke : Kept(k)
BY PlainKept, AltKept, CsiKept DEF Stroke

(* All that may be typed reaches tmux, stroke by stroke. *)
LEMMA TypeableKept == \A w \in Typeable : Kept(w)
<1> DEFINE T == {ks \in Seq(Stroke) : Kept(Struck(ks))}
<1>1. <<>> \in T
  <2>1. Struck(<<>>) = <<>>
    BY Strikes!FoldEmpty DEF Struck
  <2>2. <<>> \in Seq(Stroke)
    OBVIOUS
  <2>3. QED
    BY <2>1, <2>2, KeptEmpty
<1>2. ASSUME NEW ks \in Seq(Stroke), NEW k \in Stroke, ks \in T PROVE Append(ks, k) \in T
  <2>1. Struck(Append(ks, k)) = Struck(ks) \o k
    BY Strikes!FoldAppend DEF Struck, StrokeOnto
  <2>2. Kept(Struck(ks)) /\ Kept(k)
    BY <1>2, StrokeKept
  <2>3. Kept(Struck(ks) \o k)
    BY <2>2, KeptJoin
  <2>4. Append(ks, k) \in Seq(Stroke)
    OBVIOUS
  <2>5. QED
    BY <2>1, <2>3, <2>4
<1>3. \A ks \in Seq(Stroke) : ks \in T
  <2> HIDE DEF T
  <2>1. QED
    BY <1>1, <1>2, Enc!SequencesByInduction
<1>4. QED
  BY <1>3 DEF Typeable

(***************************************************************************)
(* Keys arrive.  The filter has read what was typed, in frames of any cut.   *)
(***************************************************************************)
Typed ==
    /\ typed \in Seq(Byte)
    /\ inp = InOf(Ground, typed).p
    /\ sent = InOf(Ground, typed).out

LEMMA TypedInit == Init => Typed
<1> SUFFICES ASSUME Init PROVE Typed
  OBVIOUS
<1> DEFINE none == <<>>
           r == InOf(Ground, none)
<1>1. Kept(none)
  BY KeptEmpty
<1>2. typed = none /\ sent = none /\ inp = Ground
  BY DEF Init
<1> HIDE DEF none
<1>3. none \in Seq(Byte) /\ r = [p |-> Ground, out |-> none]
  BY <1>1 DEF Kept
<1> HIDE DEF r
<1>4. r.p = Ground /\ r.out = none
  BY <1>3
<1>5. QED
  BY <1>2, <1>3, <1>4 DEF Typed, r

LEMMA StdinTyped ==
    ASSUME Typed, NEW keys \in Keys, Stdin(keys)
    PROVE  Typed'
<1> DEFINE all  == InOf(Ground, typed \o keys)
           more == InOf(inp, keys)
<1>1. keys \in Seq(Byte) /\ typed \in Seq(Byte)
  BY PaneIOAssumption DEF Typed
<1>2. inp' = more.p /\ sent' = sent \o more.out /\ typed' = typed \o keys
  BY DEF Stdin, InOf
<1>3. all = [p |-> more.p, out |-> sent \o more.out]
  BY <1>1, GroundIsParser, PassInParts DEF Typed
<1> HIDE DEF more, all
<1>4. all.p = inp' /\ all.out = sent'
  BY <1>2, <1>3
<1>5. typed' \in Seq(Byte) /\ all = InOf(Ground, typed')
  BY <1>1, <1>2 DEF all
<1>6. QED
  BY <1>4, <1>5 DEF Typed

LEMMA TypedStep == Typed /\ [Next]_vars => Typed'
<1> SUFFICES ASSUME Typed, [Next]_vars PROVE Typed'
  OBVIOUS
<1>1. UNCHANGED keyVars /\ typed' = typed => Typed'
  BY DEF Typed, keyVars
<1>2. CASE \E p \in Panes, w \in Shows : Shown(p, w)
  BY <1>1, <1>2 DEF Shown, keyVars
<1>3. CASE \E p \in Panes : OutputLine(p)
  BY <1>1, <1>3 DEF OutputLine, Writes, keyVars
<1>4. CASE \E p \in Panes : PaneChangedLine(p)
  BY <1>1, <1>4 DEF PaneChangedLine, Writes, keyVars
<1>5. CASE \E n \in Notices : NoticeLine(n)
  BY <1>1, <1>5 DEF NoticeLine, Writes, keyVars
<1>6. CASE BeginLine
  BY <1>1, <1>6 DEF BeginLine, Writes, keyVars
<1>7. CASE \E l \in BodyLines : BodyLine(l)
  BY <1>1, <1>7 DEF BodyLine, Writes, keyVars
<1>8. CASE \E ok \in BOOLEAN : EndLine(ok)
  BY <1>1, <1>8 DEF EndLine, Writes, keyVars
<1>9. CASE \E k \in Keys : Stdin(k)
  BY <1>9, StdinTyped
<1>10. CASE UNCHANGED vars
  BY <1>1, <1>10 DEF vars, keyVars
<1>11. QED
  BY <1>2, <1>3, <1>4, <1>5, <1>6, <1>7, <1>8, <1>9, <1>10 DEF Next

LEMMA TypeableArrives == Typed => (typed \in Typeable => KeysArrive)
<1> SUFFICES ASSUME Typed, typed \in Typeable PROVE KeysArrive
  OBVIOUS
<1> DEFINE r == InOf(Ground, typed)
<1>1. r = [p |-> Ground, out |-> typed] /\ sent = r.out
  BY TypeableKept DEF Kept, Typed
<1> HIDE DEF r
<1>2. QED
  BY <1>1 DEF KeysArrive

(* Whatever the frames, and wherever they cut a key: once what was typed is   *)
(* whole keys, every byte of it has reached tmux as it was typed, nothing is  *)
(* held back and nothing was lost on the way (ws_pane.rs:189, inbound.rs:126). *)
THEOREM WholeKeysArrive == Spec => [](typed \in Typeable => KeysArrive)
<1>1. QED
  BY TypedInit, TypedStep, TypeableArrives, PTL DEF Spec

(* If each frame brings whole keys, as the frames of a terminal do, each key    *)
(* is with tmux when its frame was handled.                                 *)
THEOREM KeysCorrect == ASSUME Keys \subseteq Typeable PROVE Spec => []KeysArrive
<1>1. Init => Typed /\ Kept(typed)
  BY TypedInit, KeptEmpty DEF Init
<1>2. Typed /\ Kept(typed) /\ [Next]_vars => Typed' /\ Kept(typed)'
  <2> SUFFICES ASSUME Typed, Kept(typed), [Next]_vars PROVE Typed' /\ Kept(typed')
    BY DEF Kept
  <2>1. CASE \E k \in Keys : Stdin(k)
    <3>1. PICK k \in Keys : Stdin(k)
      BY <2>1
    <3>2. Kept(k) /\ typed' = typed \o k
      BY <3>1, TypeableKept DEF Stdin
    <3>3. QED
      BY <3>2, KeptJoin, TypedStep
  <2>2. CASE ~\E k \in Keys : Stdin(k)
    <3>1. typed' = typed
      BY <2>2 DEF Next, vars, keyVars, Shown, OutputLine, PaneChangedLine, NoticeLine, BeginLine,
                  BodyLine, EndLine, Writes
    <3>2. QED
      BY <3>1, TypedStep
  <2>3. QED
    BY <2>1, <2>2
<1>3. Typed /\ Kept(typed) => KeysArrive
  <2> SUFFICES ASSUME Typed, Kept(typed) PROVE KeysArrive
    OBVIOUS
  <2> DEFINE r == InOf(Ground, typed)
  <2>1. r = [p |-> Ground, out |-> typed] /\ sent = r.out
    BY DEF Kept, Typed
  <2> HIDE DEF r
  <2>2. QED
    BY <2>1 DEF KeysArrive
<1>4. QED
  BY <1>1, <1>2, <1>3, PTL DEF Spec

(***************************************************************************)
(* What is sent holds no sequence but the plain ones.  A parser is tidy when *)
(* what it keeps between the introducer and the parameters may stand there,   *)
(* and so are the actions of a tidy parser.                                  *)
(***************************************************************************)
CsiStates == {"entry", "param", "inter", "ignore"}
CsiByte   == 32..63
Tidy(p) ==
    /\ p.st = "esc" => p.inter \in Seq(Inter)
    /\ p.st \in CsiStates => p.inter \in Seq(CsiByte)
TidyAct(a) ==
    /\ a.do = "csi" => a.inter \in Seq(CsiByte)
    /\ a.do = "esc" => a.inter \in Seq(Inter) /\ (a.inter = <<>> => a.final \in AltFinal)
TidyActs(acts) == \A i \in DOMAIN acts : TidyAct(acts[i])
TidyStep(r)    == Tidy(r.p) /\ TidyActs(r.acts)

LEMMA TidyFacts ==
    /\ \A p, q : Tidy(p) /\ q.st = p.st /\ q.inter = p.inter => Tidy(q)
    /\ \A st \in {"ground", "esc", "entry", "osc", "string"} : Tidy(Start(st))
    /\ Tidy(Ground)
    /\ TidyActs(<<>>)
    /\ \A a : TidyAct(a) => TidyActs(<<a>>)
    /\ \A a : a.do \in {"print", "execute", "osc"} => TidyAct(a)
    /\ \A p : TidyActs(OscEnd(p))
<1>0. <<>> \in Seq(Inter) /\ <<>> \in Seq(CsiByte)
  OBVIOUS
<1>1. \A p, q : Tidy(p) /\ q.st = p.st /\ q.inter = p.inter => Tidy(q)
  BY DEF Tidy
<1>2. \A st \in {"ground", "esc", "entry", "osc", "string"} : Tidy(Start(st))
  BY <1>0 DEF Tidy, Start
<1>3. Tidy(Ground)
  BY <1>2 DEF Ground
<1>4. TidyActs(<<>>)
  BY DEF TidyActs
<1>5. ASSUME NEW a, TidyAct(a) PROVE TidyActs(<<a>>)
  <2>1. DOMAIN <<a>> = {1} /\ <<a>>[1] = a
    OBVIOUS
  <2>2. QED
    BY <1>5, <2>1 DEF TidyActs
<1>6. \A a : a.do \in {"print", "execute", "osc"} => TidyAct(a)
  BY DEF TidyAct
<1>7. ASSUME NEW p PROVE TidyActs(OscEnd(p))
  <2> DEFINE a == [do |-> "osc", params |-> p.osc]
  <2>1. TidyAct(a)
    BY <1>6
  <2>2. OscEnd(p) = <<>> \/ OscEnd(p) = <<a>>
    BY DEF OscEnd
  <2> HIDE DEF a
  <2>3. QED
    BY <1>4, <1>5, <2>1, <2>2
<1>8. QED
  BY <1>1, <1>2, <1>3, <1>4, <1>5, <1>6, <1>7

(* A step, of its state and its actions. *)
LEMMA StepTidy ==
    ASSUME NEW p, Tidy(p)
    PROVE  /\ TidyStep(Step(p, <<>>))
           /\ \A a : TidyAct(a) => TidyStep(Step(p, <<a>>))
           /\ \A acts : TidyActs(acts) => TidyStep(Step(p, acts))
BY TidyFacts DEF TidyStep, Step

LEMMA InEscapeTidy ==
    ASSUME NEW p \in Parser, Tidy(p), p.st = "esc", NEW b \in Byte, b # ESC
    PROVE  TidyStep(InEscape(p, b))
<1> DEFINE high == b \in 127..255
           ctrl == b \in C0
           part == b \in Inter
           q == [p EXCEPT !.inter = Append(@, b)]
<1>1. p.inter \in Seq(Inter)
  BY DEF Tidy
<1>2. part => TidyStep(Step(q, <<>>))
  <2> SUFFICES ASSUME part PROVE TidyStep(Step(q, <<>>))
    OBVIOUS
  <2>1. q.st = "esc" /\ q.inter = Append(p.inter, b)
    BY DEF Parser
  <2>2. q.inter \in Seq(Inter)
    BY <1>1, <2>1
  <2>3. "esc" \notin CsiStates
    BY DEF CsiStates
  <2>4. Tidy(q)
    BY <2>1, <2>2, <2>3 DEF Tidy
  <2> HIDE DEF q
  <2>5. QED
    BY <2>4, StepTidy
<1>3. ctrl => TidyStep(Step(p, <<Act("execute", <<b>>)>>))
  <2>1. TidyAct(Act("execute", <<b>>))
    BY TidyFacts DEF Act
  <2>2. QED
    BY <2>1, StepTidy
<1>4. /\ TidyStep(Step(Start("entry"), <<>>)) /\ TidyStep(Step(Start("osc"), <<>>))
      /\ TidyStep(Step(Start("string"), <<>>)) /\ TidyStep(Step(p, <<>>))
  BY TidyFacts, StepTidy
<1>5. ASSUME ~ctrl, ~part, ~high,
             p.inter = <<>> => b \notin {80, 88, 91, 93, 94, 95}
      PROVE  TidyStep(Step(Ground, <<Esc(p, b)>>))
  <2>1. b \in EscFinal
    <3>1. b \in Nat /\ b <= 255
      BY NumbersAre
    <3>2. QED
      BY <1>5, <3>1 DEF C0, Inter, EscFinal
  <2>2. p.inter = <<>> => b \in AltFinal
    BY <1>5, <2>1 DEF AltFinal
  <2>3. TidyAct(Esc(p, b))
    BY <1>1, <2>2 DEF TidyAct, Esc
  <2>4. QED
    BY <2>3, TidyFacts, StepTidy
<1>6. InEscape(p, b) =
          CASE ctrl -> Step(p, <<Act("execute", <<b>>)>>)
            [] part -> Step(q, <<>>)
            [] b = 91 /\ p.inter = <<>> -> Step(Start("entry"), <<>>)
            [] b = 93 /\ p.inter = <<>> -> Step(Start("osc"), <<>>)
            [] b \in {80, 88, 94, 95} /\ p.inter = <<>> -> Step(Start("string"), <<>>)
            [] high -> Step(p, <<>>)
            [] OTHER -> Step(Ground, <<Esc(p, b)>>)
  BY DEF InEscape
<1> HIDE DEF high, ctrl, part, q
<1>7. \/ ctrl /\ InEscape(p, b) = Step(p, <<Act("execute", <<b>>)>>)
      \/ part /\ InEscape(p, b) = Step(q, <<>>)
      \/ InEscape(p, b) = Step(Start("entry"), <<>>)
      \/ InEscape(p, b) = Step(Start("osc"), <<>>)
      \/ InEscape(p, b) = Step(Start("string"), <<>>)
      \/ InEscape(p, b) = Step(p, <<>>)
      \/ /\ ~ctrl /\ ~part /\ ~high
         /\ ~(b = 91 /\ p.inter = <<>>) /\ ~(b = 93 /\ p.inter = <<>>)
         /\ ~(b \in {80, 88, 94, 95} /\ p.inter = <<>>)
         /\ InEscape(p, b) = Step(Ground, <<Esc(p, b)>>)
  BY <1>6
<1>8. QED
  BY <1>2, <1>3, <1>4, <1>5, <1>7

(* What a CSI sequence does with a byte, to what stands before its parameters. *)
LEMMA InCsiTidy ==
    ASSUME NEW p \in Parser, Tidy(p), p.st \in CsiStates, NEW b \in Byte, b # ESC
    PROVE  TidyStep(InCsi(p, b))
<1> DEFINE ps == CASE b = 59 -> Append(p.params, <<0>>)
                   [] b = 58 -> AddLast(p.params, 0)
                   [] OTHER -> AddDigit(p.params, b)
<1>1. p.inter \in Seq(CsiByte)
  BY DEF Tidy
<1>2. ASSUME NEW x \in CsiStates, NEW y \in Seq(CsiByte), NEW q, q.st = x, q.inter = y
      PROVE  TidyStep(Step(q, <<>>))
  <2>1. x # "esc"
    BY DEF CsiStates
  <2>2. Tidy(q)
    BY <1>2, <2>1 DEF Tidy
  <2>3. QED
    BY <2>2, StepTidy
<1>3. "ignore" \in CsiStates /\ "inter" \in CsiStates /\ "param" \in CsiStates
  BY DEF CsiStates
<1>4. ASSUME b \in Inter \cup Marker, NEW x \in {"ignore", "inter", "param"}
      PROVE  TidyStep(Step([p EXCEPT !.st = x, !.inter = Append(@, b)], <<>>))
  <2> DEFINE q == [p EXCEPT !.st = x, !.inter = Append(@, b)]
  <2>1. b \in CsiByte
    BY <1>4 DEF Inter, Marker, CsiByte
  <2>2. q.st = x /\ q.inter = Append(p.inter, b)
    BY DEF Parser
  <2>3. Append(p.inter, b) \in Seq(CsiByte)
    BY <1>1, <2>1
  <2> HIDE DEF q
  <2>4. TidyStep(Step(q, <<>>))
    BY <1>2, <1>3, <2>2, <2>3
  <2>5. QED
    BY <2>4 DEF q
<1>5. /\ TidyStep(Step([p EXCEPT !.st = "ignore"], <<>>))
      /\ TidyStep(Step([p EXCEPT !.st = "param", !.params = ps], <<>>))
  <2> HIDE DEF ps
  <2> DEFINE u == [p EXCEPT !.st = "ignore"]
             v == [p EXCEPT !.st = "param", !.params = ps]
  <2>1. u.st = "ignore" /\ u.inter = p.inter /\ v.st = "param" /\ v.inter = p.inter
    BY DEF Parser
  <2> HIDE DEF u, v
  <2>2. TidyStep(Step(u, <<>>)) /\ TidyStep(Step(v, <<>>))
    BY <1>1, <1>2, <1>3, <2>1
  <2>3. QED
    BY <2>2 DEF u, v
<1>6. TidyStep(Step(p, <<>>)) /\ TidyStep(Step(p, <<Act("execute", <<b>>)>>))
  <2>1. TidyAct(Act("execute", <<b>>))
    BY TidyFacts DEF Act
  <2>2. QED
    BY <2>1, StepTidy
<1>7. TidyStep(Step(Ground, <<>>)) /\ TidyStep(Step(Ground, <<Csi(p, b)>>))
  <2>1. TidyAct(Csi(p, b))
    BY <1>1 DEF TidyAct, Csi
  <2>2. QED
    BY <2>1, TidyFacts, StepTidy
<1>8. \/ InCsi(p, b) = Step(p, <<Act("execute", <<b>>)>>)
      \/ InCsi(p, b) = Step(Ground, <<>>)
      \/ InCsi(p, b) = Step(Ground, <<Csi(p, b)>>)
      \/ InCsi(p, b) = Step(p, <<>>)
      \/ b \in Inter /\ InCsi(p, b) = Step([p EXCEPT !.st = "ignore", !.inter = Append(@, b)], <<>>)
      \/ b \in Inter /\ InCsi(p, b) = Step([p EXCEPT !.st = "inter", !.inter = Append(@, b)], <<>>)
      \/ InCsi(p, b) = Step([p EXCEPT !.st = "ignore"], <<>>)
      \/ b \in Marker /\ InCsi(p, b) = Step([p EXCEPT !.st = "param", !.inter = Append(@, b)], <<>>)
      \/ InCsi(p, b) = Step([p EXCEPT !.st = "param", !.params = ps], <<>>)
  BY DEF InCsi
<1> HIDE DEF ps
<1>9. QED
  BY <1>4, <1>5, <1>6, <1>7, <1>8

LEMMA TidyJoin ==
    ASSUME NEW x \in Seq(Acted), NEW y \in Seq(Acted), TidyActs(x), TidyActs(y)
    PROVE  x \o y \in Seq(Acted) /\ TidyActs(x \o y)
<1>1. \A i \in DOMAIN (x \o y) : \/ i \in DOMAIN x /\ (x \o y)[i] = x[i]
                                 \/ i - Len(x) \in DOMAIN y /\ (x \o y)[i] = y[i - Len(x)]
  OBVIOUS
<1>2. QED
  BY <1>1 DEF TidyActs

LEMMA VtStepTidy ==
    ASSUME NEW p \in Parser, Tidy(p), NEW b \in Byte
    PROVE  TidyStep(VtStep(p, b))
<1>1. CASE b = ESC
  <2>1. VtStep(p, b) = Step(Start("esc"), OscEnd(p))
    BY <1>1 DEF VtStep
  <2>2. QED
    BY <2>1, TidyFacts, StepTidy
<1>2. CASE b # ESC /\ b \in {CAN, SUBST}
  <2> DEFINE a == Act("execute", <<b>>)
  <2>1. VtStep(p, b) = Step(Ground, Append(OscEnd(p), a))
    BY <1>2 DEF VtStep
  <2>2. TidyAct(a)
    BY TidyFacts DEF Act
  <2>3. OscEnd(p) \in Seq(Acted) /\ TidyActs(OscEnd(p))
    BY ActedFacts, TidyFacts
  <2> DEFINE s == OscEnd(p)
  <2> HIDE DEF a, s
  <2>4. a \in Acted /\ s \in Seq(Acted) /\ TidyActs(s) /\ TidyActs(<<a>>)
    <3>1. b \in C0 \ {ESC}
      BY <1>2 DEF C0, CAN, SUBST
    <3>2. a \in Acted
      BY <3>1, ActedFacts DEF a
    <3>3. TidyActs(<<a>>)
      BY <2>2, TidyFacts
    <3>4. QED
      BY <2>3, <3>2, <3>3 DEF s
  <2>5. TidyActs(Append(s, a))
    <3>1. Append(s, a) = s \o <<a>> /\ <<a>> \in Seq(Acted)
      BY <2>4
    <3>2. QED
      BY <2>4, <3>1, TidyJoin
  <2>6. QED
    BY <2>1, <2>5, TidyFacts, StepTidy DEF s
<1>3. CASE b # ESC /\ b \notin {CAN, SUBST}
  <2>1. ASSUME NEW do \in {"execute", "print"} PROVE TidyStep(Step(p, <<Act(do, <<b>>)>>))
    <3>1. TidyAct(Act(do, <<b>>))
      BY TidyFacts DEF Act
    <3>2. QED
      BY <3>1, StepTidy
  <2>2. TidyStep(Step(p, <<>>))
    BY StepTidy
  <2>3. p.st = "osc" => TidyStep(InOsc(p, b))
    <3> SUFFICES ASSUME p.st = "osc" PROVE TidyStep(InOsc(p, b))
      OBVIOUS
    <3>1. TidyStep(Step(Ground, OscEnd(p)))
      BY TidyFacts, StepTidy
    <3>2. ASSUME NEW o PROVE TidyStep(Step([p EXCEPT !.osc = o], <<>>))
      <4> DEFINE q == [p EXCEPT !.osc = o]
      <4>1. q.st = p.st /\ q.inter = p.inter
        BY DEF Parser
      <4> HIDE DEF q
      <4>2. Tidy(q)
        BY <4>1, TidyFacts
      <4>3. TidyStep(Step(q, <<>>))
        BY <4>2, StepTidy
      <4>4. QED
        BY <4>3 DEF q
    <3>3. \/ InOsc(p, b) = Step(Ground, OscEnd(p))
          \/ InOsc(p, b) = Step(p, <<>>)
          \/ InOsc(p, b) = Step([p EXCEPT !.osc = Append(p.osc, <<>>)], <<>>)
          \/ InOsc(p, b) = Step([p EXCEPT !.osc = AddLast(p.osc, b)], <<>>)
      BY DEF InOsc
    <3>4. QED
      BY <2>2, <3>1, <3>2, <3>3
  <2>4. p.st = "esc" => TidyStep(InEscape(p, b))
    BY <1>3, InEscapeTidy
  <2>5. p.st \in CsiStates => TidyStep(InCsi(p, b))
    BY <1>3, InCsiTidy
  <2>6. p.st \in {"ground", "esc", "osc", "string"} \/ p.st \in CsiStates
    BY DEF Parser, CsiStates
  <2>7. \/ \E do \in {"execute", "print"} : VtStep(p, b) = Step(p, <<Act(do, <<b>>)>>)
        \/ p.st = "esc" /\ VtStep(p, b) = InEscape(p, b)
        \/ p.st = "osc" /\ VtStep(p, b) = InOsc(p, b)
        \/ VtStep(p, b) = Step(p, <<>>)
        \/ p.st \in CsiStates /\ VtStep(p, b) = InCsi(p, b)
    BY <1>3, <2>6 DEF VtStep
  <2>8. QED
    BY <2>1, <2>2, <2>3, <2>4, <2>5, <2>7
<1>4. QED
  BY <1>1, <1>2, <1>3

LEMMA ReadingTidy ==
    \A s \in Seq(Byte) : TidyActs(Reading(Ground, s).acts)
<1> DEFINE R == {r \in ReadOK : TidyStep(r)}
<1>1. Unread(Ground) \in R
  <2>1. <<>> \in Seq(Acted)
    OBVIOUS
  <2>2. QED
    BY <2>1, GroundIsParser, TidyFacts DEF Unread, ReadOK, TidyStep
<1>2. ASSUME NEW r \in R, NEW b \in Byte PROVE PerformOn(r, b) \in R
  <2> DEFINE e == VtStep(r.p, b)
  <2>1. r.p \in Parser /\ r.acts \in Seq(Acted) /\ Tidy(r.p) /\ TidyActs(r.acts)
    BY DEF ReadOK, TidyStep
  <2>2. e.p \in Parser /\ e.acts \in Seq(Acted) /\ Tidy(e.p) /\ TidyActs(e.acts)
    BY <2>1, VtStepType, VtStepTidy DEF TidyStep
  <2>3. PerformOn(r, b) = [p |-> e.p, acts |-> r.acts \o e.acts]
    BY DEF PerformOn
  <2> HIDE DEF R, e
  <2> DEFINE x == r.acts
             y == e.acts
  <2>4. x \o y \in Seq(Acted) /\ TidyActs(x \o y)
    <3>1. x \in Seq(Acted) /\ y \in Seq(Acted) /\ TidyActs(x) /\ TidyActs(y)
      BY <2>1, <2>2
    <3> HIDE DEF x, y
    <3>2. QED
      BY <3>1, TidyJoin
  <2> DEFINE z == x \o y
  <2>5. PerformOn(r, b) = [p |-> e.p, acts |-> z] /\ z \in Seq(Acted) /\ TidyActs(z)
    BY <2>3, <2>4
  <2> HIDE DEF z
  <2>6. QED
    BY <2>2, <2>5 DEF R, ReadOK, TidyStep
<1>3. \A s \in Seq(Byte) : Reading(Ground, s) \in R
  <2> HIDE DEF R
  <2>1. QED
    BY <1>1, <1>2, Performs!FoldKeeps DEF Reading
<1>4. QED
  BY <1>3 DEF TidyStep

(***************************************************************************)
(* Words that are read from Ground to Ground, with no OSC on the way.        *)
(***************************************************************************)
NoOsc(acts) == acts \in Seq(Acted) /\ \A i \in DOMAIN acts : acts[i].do # "osc"
Clean(w)    == w \in Seq(Byte) /\ \E acts : Does(Ground, w, Ground, acts) /\ NoOsc(acts)

LEMMA CleanEmpty == Clean(<<>>)
<1>1. <<>> \in Seq(Byte) /\ <<>> \in Seq(Acted) /\ DOMAIN <<>> = {}
  OBVIOUS
<1>2. Does(Ground, <<>>, Ground, <<>>)
  BY GroundIsParser, DoesNothing
<1>3. QED
  BY <1>1, <1>2 DEF Clean, NoOsc

LEMMA CleanOne ==
    ASSUME NEW w, NEW a \in Acted, a.do # "osc", Does(Ground, w, Ground, <<a>>)
    PROVE  Clean(w)
<1>1. <<a>> \in Seq(Acted) /\ DOMAIN <<a>> = {1} /\ <<a>>[1] = a
  OBVIOUS
<1>2. NoOsc(<<a>>)
  BY <1>1 DEF NoOsc
<1>3. QED
  BY <1>2 DEF Clean, Does

LEMMA CleanJoin ==
    ASSUME NEW v, NEW w, Clean(v), Clean(w)
    PROVE  Clean(v \o w)
<1>1. PICK x : Does(Ground, v, Ground, x) /\ NoOsc(x)
  BY DEF Clean
<1>2. PICK y : Does(Ground, w, Ground, y) /\ NoOsc(y)
  BY DEF Clean
<1>3. v \in Seq(Byte) /\ w \in Seq(Byte)
  BY DEF Clean
<1>4. v \o w \in Seq(Byte)
  BY <1>3
<1>5. Does(Ground, v \o w, Ground, x \o y)
  BY <1>1, <1>2, <1>3, DoesThen
<1>6. NoOsc(x \o y)
  <2>1. x \in Seq(Acted) /\ y \in Seq(Acted)
    BY <1>1, <1>2 DEF NoOsc
  <2>2. x \o y \in Seq(Acted)
    BY <2>1
  <2>3. \A i \in DOMAIN (x \o y) : \/ i \in DOMAIN x /\ (x \o y)[i] = x[i]
                                   \/ i - Len(x) \in DOMAIN y /\ (x \o y)[i] = y[i - Len(x)]
    BY <2>1
  <2>4. QED
    BY <1>1, <1>2, <2>2, <2>3 DEF NoOsc
<1>7. QED
  BY <1>4, <1>5, <1>6 DEF Clean

LEMMA AppendTo ==
    \A x, y \in Seq(Byte) : \A c \in Byte : Append(x \o y, c) = x \o Append(y, c)
<1> SUFFICES ASSUME NEW x \in Seq(Byte), NEW y \in Seq(Byte), NEW c \in Byte
             PROVE  Append(x \o y, c) = x \o Append(y, c)
  OBVIOUS
<1> DEFINE z == <<c>>
           u == x \o y
<1>1. z \in Seq(Byte) /\ u \in Seq(Byte)
  OBVIOUS
<1>2. Append(y, c) = y \o z
  OBVIOUS
<1>3. \A t \in Seq(Byte) : Append(t, c) = t \o z
  OBVIOUS
<1> HIDE DEF u, z
<1>4. Append(u, c) = u \o z
  BY <1>1, <1>3
<1>5. (x \o y) \o z = x \o (y \o z)
  BY <1>1, Concatenation
<1>6. QED
  BY <1>2, <1>4, <1>5 DEF u

(* Within a CSI sequence nothing is performed before its final byte. *)
LEMMA CsiStays ==
    ASSUME NEW p \in Parser, p.st \in CsiStates, NEW b \in CsiByte
    PROVE  \E q \in Parser : q.st \in CsiStates /\ VtStep(p, b) = Step(q, <<>>)
<1> DEFINE ps == CASE b = 59 -> Append(p.params, <<0>>)
                   [] b = 58 -> AddLast(p.params, 0)
                   [] OTHER -> AddDigit(p.params, b)
<1>1. b \in Byte /\ b # ESC /\ b \notin {CAN, SUBST} /\ b \notin C0 /\ b \notin Final
      /\ b \notin 127..255
  BY NumbersAre DEF CsiByte, ESC, CAN, SUBST, C0, Final
<1>2. p.st \notin {"ground", "esc", "osc", "string"}
  BY DEF CsiStates
<1>3. VtStep(p, b) = InCsi(p, b)
  BY <1>1, <1>2 DEF VtStep
<1>4. /\ "ignore" \in CsiStates /\ "inter" \in CsiStates /\ "param" \in CsiStates
  BY DEF CsiStates
<1>5. \E q : /\ InCsi(p, b) = Step(q, <<>>)
             /\ q = p \/ q.st \in {"ignore", "inter", "param"}
  <2>1. \/ InCsi(p, b) = Step(p, <<>>)
        \/ InCsi(p, b) = Step([p EXCEPT !.st = "ignore", !.inter = Append(@, b)], <<>>)
        \/ InCsi(p, b) = Step([p EXCEPT !.st = "inter", !.inter = Append(@, b)], <<>>)
        \/ InCsi(p, b) = Step([p EXCEPT !.st = "ignore"], <<>>)
        \/ InCsi(p, b) = Step([p EXCEPT !.st = "param", !.inter = Append(@, b)], <<>>)
        \/ InCsi(p, b) = Step([p EXCEPT !.st = "param", !.params = ps], <<>>)
    BY <1>1 DEF InCsi
  <2> HIDE DEF ps
  <2>2. /\ \A st : [p EXCEPT !.st = st, !.inter = Append(@, b)].st = st
        /\ \A st : [p EXCEPT !.st = st].st = st
        /\ \A st : [p EXCEPT !.st = st, !.params = ps].st = st
    BY DEF Parser
  <2>3. QED
    BY <2>1, <2>2
<1>6. PICK q : InCsi(p, b) = Step(q, <<>>) /\ (q = p \/ q.st \in {"ignore", "inter", "param"})
  BY <1>5
<1>7. q.st \in CsiStates
  BY <1>4, <1>6
<1>8. q \in Parser
  <2>1. VtStep(p, b).p = q
    BY <1>3, <1>6 DEF Step
  <2>2. QED
    BY <1>1, <2>1, VtStepType
<1>9. QED
  BY <1>3, <1>6, <1>7, <1>8

LEMMA CsiWordClean ==
    ASSUME NEW w \in Seq(CsiByte), NEW b \in Final
    PROVE  Clean(<<ESC, 91>> \o w \o <<b>>)
<1>0. CsiByte \subseteq Byte
  BY DEF CsiByte, Byte
<1> DEFINE o == <<ESC, 91>>
           T == {v \in Seq(CsiByte) : \E q \in Parser : q.st \in CsiStates /\ Quiet(Ground, o \o v, q)}
<1>1. o \in Seq(Byte) /\ Quiet(Ground, o, Start("entry"))
  BY Opening
<1>2. <<>> \in T
  <2>1. Start("entry") \in Parser /\ Start("entry").st \in CsiStates
    BY StartType DEF Start, CsiStates
  <2> HIDE DEF o
  <2>2. o \o <<>> = o /\ <<>> \in Seq(CsiByte)
    BY <1>1
  <2>3. QED
    BY <1>1, <2>1, <2>2
<1> HIDE DEF o
<1>3. ASSUME NEW v \in Seq(CsiByte), NEW c \in CsiByte, v \in T PROVE Append(v, c) \in T
  <2>1. PICK q \in Parser : q.st \in CsiStates /\ Quiet(Ground, o \o v, q)
    BY <1>3
  <2>2. PICK r \in Parser : r.st \in CsiStates /\ VtStep(q, c) = Step(r, <<>>)
    BY <2>1, CsiStays
  <2>3. Quiet(Ground, Append(o \o v, c), r)
    BY <1>0, <2>1, <2>2, QuietFacts
  <2>4. Append(o \o v, c) = o \o Append(v, c) /\ Append(v, c) \in Seq(CsiByte)
    <3>1. v \in Seq(Byte) /\ c \in Byte
      BY <1>0
    <3>2. Append(o \o v, c) = o \o Append(v, c)
      BY <1>1, <3>1, AppendTo
    <3>3. Append(v, c) \in Seq(CsiByte)
      OBVIOUS
    <3>4. QED
      BY <3>2, <3>3
  <2>5. QED
    BY <2>2, <2>3, <2>4
<1>4. w \in T
  <2>1. \A v \in Seq(CsiByte) : v \in T
    <3> HIDE DEF T
    <3>1. QED
      BY <1>2, <1>3, Enc!SequencesByInduction
  <2>2. QED
    BY <2>1
<1>5. PICK p \in Parser : p.st \in CsiStates /\ Quiet(Ground, o \o w, p)
  BY <1>4
<1> DEFINE a == Csi(p, b)
<1>6. b \in Byte /\ a \in Acted /\ a.do = "csi"
  BY CodesAreBytes, ActedFacts DEF Csi
<1>7. VtStep(p, b) = Step(Ground, <<>>) \/ VtStep(p, b) = Step(Ground, <<a>>)
  <2>1. b # ESC /\ b \notin {CAN, SUBST} /\ b \notin C0
    BY DEF Final, ESC, CAN, SUBST, C0
  <2>2. p.st \notin {"ground", "esc", "osc", "string"}
    BY <1>5 DEF CsiStates
  <2>3. VtStep(p, b) = InCsi(p, b)
    BY <2>1, <2>2 DEF VtStep
  <2>4. QED
    BY <2>1, <2>3 DEF InCsi
<1> HIDE DEF a, T
<1> DEFINE u == o \o w
<1>8. u \in Seq(Byte) /\ u \o <<b>> = Append(u, b)
  <2>1. u \in Seq(Byte)
    BY <1>5, QuietFacts
  <2> HIDE DEF u
  <2>2. QED
    BY <1>6, <2>1
<1> HIDE DEF u
<1>9. Does(Ground, u, p, <<>>)
  BY <1>5 DEF Quiet, u
<1>10. Clean(Append(u, b))
  <2>1. CASE VtStep(p, b) = Step(Ground, <<>>)
    <3>1. Does(Ground, Append(u, b), Ground, <<>> \o <<>>)
      BY <1>6, <1>9, <2>1, DoesStep
    <3>2. <<>> \o <<>> = <<>> /\ NoOsc(<<>>)
      <4>1. <<>> \in Seq(Acted) /\ DOMAIN <<>> = {} /\ <<>> \o <<>> = <<>>
        OBVIOUS
      <4>2. QED
        BY <4>1 DEF NoOsc
    <3>3. QED
      BY <3>1, <3>2 DEF Clean, Does
  <2>2. CASE VtStep(p, b) = Step(Ground, <<a>>)
    <3>1. Does(Ground, Append(u, b), Ground, <<>> \o <<a>>)
      BY <1>6, <1>9, <2>2, DoesStep
    <3>2. <<>> \o <<a>> = <<a>>
      OBVIOUS
    <3>3. QED
      BY <1>6, <3>1, <3>2, CleanOne
  <2>3. QED
    BY <1>7, <2>1, <2>2
<1>11. QED
  BY <1>8, <1>10 DEF u, o

(* Within an escape sequence the intermediates are kept, and nothing else. *)
EscAt(i) == State("esc", i, <<<<0>>>>, <<<<>>>>)
WithInter(p, i) == [p EXCEPT !.inter = i]

LEMMA EscGoesOn ==
    \A i, c : [EscAt(i) EXCEPT !.inter = Append(@, c)] = EscAt(Append(i, c))
<1>1. \A i, j : WithInter(EscAt(i), j) = EscAt(j)
  BY DEF WithInter, EscAt, State
<1>2. \A i : EscAt(i).inter = i
  BY DEF EscAt, State
<1>3. \A p, c : [p EXCEPT !.inter = Append(@, c)] = WithInter(p, Append(p.inter, c))
  BY DEF WithInter
<1>4. ASSUME NEW i, NEW c
      PROVE  [EscAt(i) EXCEPT !.inter = Append(@, c)] = EscAt(Append(i, c))
  <2> DEFINE p == EscAt(i)
             j == Append(i, c)
             f == EscAt(j)
  <2>1. p.inter = i /\ WithInter(p, j) = f
    BY <1>1, <1>2
  <2>2. [p EXCEPT !.inter = Append(@, c)] = WithInter(p, Append(p.inter, c))
    BY <1>3
  <2> HIDE DEF p, f
  <2>3. WithInter(p, Append(p.inter, c)) = f
    BY <2>1
  <2>4. QED
    BY <2>2, <2>3 DEF p, f
<1>5. QED
  BY <1>4

LEMMA EscWordClean ==
    ASSUME NEW w \in Seq(Inter), NEW b \in EscFinal, w = <<>> => b \in AltFinal
    PROVE  Clean(<<ESC>> \o w \o <<b>>)
<1>0. Inter \subseteq Byte
  BY DEF Inter, Byte
<1> DEFINE o == <<ESC>>
           T == {v \in Seq(Inter) : Quiet(Ground, o \o v, EscAt(v))}
<1>1. o \in Seq(Byte) /\ Quiet(Ground, o, EscAt(<<>>))
  <2>1. EscAt(<<>>) = Start("esc")
    BY DEF EscAt, State, Start
  <2>2. QED
    BY <2>1, Opening
<1>2. <<>> \in T
  <2> HIDE DEF o
  <2>1. o \o <<>> = o /\ <<>> \in Seq(Inter)
    BY <1>1
  <2>2. QED
    BY <1>1, <2>1
<1> HIDE DEF o
<1>3. ASSUME NEW v \in Seq(Inter), NEW c \in Inter, v \in T PROVE Append(v, c) \in T
  <2> DEFINE e == EscAt(v)
             f == EscAt(Append(v, c))
  <2>1. e.st = "esc"
    BY DEF EscAt, State
  <2>2. f = [e EXCEPT !.inter = Append(@, c)]
    BY EscGoesOn
  <2> HIDE DEF e, f
  <2>3. VtStep(e, c) = Step(f, <<>>)
    BY <2>1, <2>2, EscKeeps
  <2>4. Quiet(Ground, Append(o \o v, c), EscAt(Append(v, c)))
    <3>1. Quiet(Ground, o \o v, e)
      BY <1>3 DEF e
    <3>2. QED
      BY <1>0, <2>3, <3>1, QuietFacts DEF f
  <2>5. Append(o \o v, c) = o \o Append(v, c) /\ Append(v, c) \in Seq(Inter)
    <3>1. v \in Seq(Byte) /\ c \in Byte
      BY <1>0
    <3>2. Append(o \o v, c) = o \o Append(v, c)
      BY <1>1, <3>1, AppendTo
    <3>3. Append(v, c) \in Seq(Inter)
      OBVIOUS
    <3>4. QED
      BY <3>2, <3>3
  <2>6. QED
    BY <2>4, <2>5
<1>4. w \in T
  <2>1. \A v \in Seq(Inter) : v \in T
    <3> HIDE DEF T
    <3>1. QED
      BY <1>2, <1>3, Enc!SequencesByInduction
  <2>2. QED
    BY <2>1
<1>5. Quiet(Ground, o \o w, EscAt(w))
  BY <1>4
<1> DEFINE p == EscAt(w)
           a == Esc(p, b)
<1>6. b \in Byte /\ p \in Parser
  BY <1>5, CodesAreBytes, QuietFacts
<1>7. a \in Acted /\ a.do # "osc"
  BY <1>6, ActedFacts DEF Esc
<1>8. p.st = "esc" /\ p.inter = w
  BY DEF EscAt, State
<1>9. VtStep(p, b) = Step(Ground, <<a>>)
  BY <1>8, EscFinishes
<1> HIDE DEF a, p, T
<1> DEFINE u == o \o w
<1>10. u \in Seq(Byte) /\ u \o <<b>> = Append(u, b)
  <2>1. u \in Seq(Byte)
    BY <1>5, QuietFacts
  <2> HIDE DEF u
  <2>2. QED
    BY <1>6, <2>1
<1> HIDE DEF u
<1>11. Does(Ground, u, p, <<>>)
  BY <1>5 DEF Quiet, u, p
<1>12. Does(Ground, Append(u, b), Ground, <<>> \o <<a>>)
  BY <1>6, <1>9, <1>11, DoesStep
<1>13. <<>> \o <<a>> = <<a>>
  OBVIOUS
<1>14. Clean(Append(u, b))
  BY <1>7, <1>12, <1>13, CleanOne
<1>15. QED
  BY <1>10, <1>14 DEF u, o

(* The parameters are digits and separators. *)
LEMMA BodyText ==
    ASSUME NEW ps \in Params
    PROVE  Body(ps) \in Seq(CsiByte)
<1>1. <<>> \in Seq(CsiByte) /\ 58 \in CsiByte /\ 59 \in CsiByte /\ Digit \subseteq CsiByte
  BY DEF CsiByte, Digit
<1>2. \A s, t \in Seq(CsiByte), b \in CsiByte : Append(s, b) \o t \in Seq(CsiByte)
  OBVIOUS
<1>3. \A s, t \in Seq(CsiByte) : /\ JoinColon(s, t) \in Seq(CsiByte)
                                 /\ JoinSemicolon(s, t) \in Seq(CsiByte)
  BY <1>1, <1>2 DEF JoinColon, JoinSemicolon
<1>4. \A s \in Seq(Seq(CsiByte)) : Joined(s, 58) \in Seq(CsiByte)
  <2>1. \A s \in Seq(Seq(CsiByte)) : Colon!Folded(<<>>, s) \in Seq(CsiByte)
    BY <1>1, <1>3, Colon!FoldKeeps
  <2>2. QED
    BY <2>1, JoinedIsFold
<1>5. \A s \in Seq(Seq(CsiByte)) : Joined(s, 59) \in Seq(CsiByte)
  <2>1. \A s \in Seq(Seq(CsiByte)) : Semicolon!Folded(<<>>, s) \in Seq(CsiByte)
    BY <1>1, <1>3, Semicolon!FoldKeeps
  <2>2. QED
    BY <2>1, JoinedIsFold
<1>6. ASSUME NEW ns \in Seq(Num) PROVE Numbers(ns, 58) \in Seq(CsiByte)
  <2>1. DOMAIN ns = 1..Len(ns) /\ Len(ns) \in Nat /\ \A i \in DOMAIN ns : ns[i] \in Num
    OBVIOUS
  <2>2. \A i \in DOMAIN ns : Dec[ns[i]] \in Seq(CsiByte)
    BY <1>1, <2>1, DecDigits
  <2>3. [i \in DOMAIN ns |-> Dec[ns[i]]] \in Seq(Seq(CsiByte))
    BY <2>1, <2>2
  <2>4. QED
    BY <1>4, <2>3 DEF Numbers
<1> DEFINE parts == [i \in DOMAIN ps |-> Numbers(ps[i], 58)]
<1>7. parts \in Seq(Seq(CsiByte))
  <2>1. \A i \in DOMAIN ps : Numbers(ps[i], 58) \in Seq(CsiByte)
    BY <1>6, ParamsFacts
  <2>2. QED
    BY <2>1, ParamsFacts
<1> HIDE DEF parts
<1>8. QED
  BY <1>5, <1>7 DEF Body, parts

LEMMA InboundClean ==
    ASSUME NEW a \in Acted, TidyAct(a)
    PROVE  Clean(Inbound(a))
<1>1. CASE a \in [do : {"print"}, bytes : {<<b>> : b \in Byte \ C0}]
                 \cup [do : {"execute"}, bytes : {<<b>> : b \in C0 \ {ESC}}]
  <2>1. PICK b \in Byte \ {ESC} : a = Act(IF b \in C0 THEN "execute" ELSE "print", <<b>>)
    <3>1. C0 \subseteq Byte /\ ESC \in C0
      BY DEF C0, Byte, ESC
    <3>2. \E b \in Byte \ {ESC} : /\ a.bytes = <<b>>
                                  /\ a.do = (IF b \in C0 THEN "execute" ELSE "print")
                                  /\ a = [do |-> a.do, bytes |-> a.bytes]
      BY <1>1, <3>1
    <3>3. QED
      BY <3>2 DEF Act
  <2>2. Inbound(a) = <<b>>
    BY <2>1 DEF Inbound, Act
  <2>3. VtStep(Ground, b) = Step(Ground, <<a>>)
    BY <2>1, GroundReads
  <2>4. Does(Ground, <<b>>, Ground, <<a>>) /\ a.do # "osc"
    BY <2>1, <2>3, ReadOne DEF Act
  <2>5. QED
    BY <2>2, <2>4, CleanOne
<1>2. CASE a \in [do : {"csi"}, params : Params, inter : Seq(Byte), final : Final]
  <2> DEFINE i == a.inter
             f == a.final
             mid == IF IsDefault(a.params) THEN <<>> ELSE Body(a.params)
  <2>1. Inbound(a) = <<ESC, 91>> \o i \o mid \o <<f>>
    BY <1>2 DEF Inbound, EmitCsi, Body
  <2>2. i \in Seq(CsiByte) /\ f \in Final
    BY <1>2 DEF TidyAct
  <2>3. mid \in Seq(CsiByte)
    <3>1. <<>> \in Seq(CsiByte)
      OBVIOUS
    <3>2. QED
      BY <1>2, <3>1, BodyText
  <2>4. <<ESC, 91>> \in Seq(Byte) /\ CsiByte \subseteq Byte
    BY Opening DEF CsiByte, Byte
  <2> HIDE DEF i, f, mid
  <2>5. i \o mid \in Seq(CsiByte)
    BY <2>2, <2>3
  <2>6. i \in Seq(Byte) /\ mid \in Seq(Byte)
    BY <2>2, <2>3, <2>4
  <2>7. (<<ESC, 91>> \o i) \o mid = <<ESC, 91>> \o (i \o mid)
    BY <2>4, <2>6, Concatenation
  <2>8. Clean(<<ESC, 91>> \o (i \o mid) \o <<f>>)
    BY <2>2, <2>5, CsiWordClean
  <2>9. QED
    BY <2>1, <2>7, <2>8
<1>3. CASE a \in [do : {"osc"}, params : Some(Seq(OscByte))]
  <2>1. Inbound(a) = <<>>
    BY <1>3 DEF Inbound
  <2>2. QED
    BY <2>1, CleanEmpty
<1>4. CASE a \in [do : {"esc"}, inter : Seq(Byte), final : EscFinal]
  <2> DEFINE i == a.inter
             f == a.final
  <2>1. Inbound(a) = <<ESC>> \o i \o <<f>>
    BY <1>4 DEF Inbound
  <2>2. i \in Seq(Inter) /\ f \in EscFinal /\ (i = <<>> => f \in AltFinal)
    BY <1>4 DEF TidyAct
  <2> HIDE DEF i, f
  <2>3. QED
    BY <2>1, <2>2, EscWordClean
<1>5. QED
  BY <1>1, <1>2, <1>3, <1>4 DEF Acted

LEMMA SentClean == \A acts \in Seq(Acted) : TidyActs(acts) => Clean(Sent(acts))
<1> DEFINE T == {acts \in Seq(Acted) : TidyActs(acts) => Clean(Sent(acts))}
<1>1. <<>> \in T
  <2>1. <<>> \in Seq(Acted)
    OBVIOUS
  <2>2. QED
    BY <2>1, SentFacts, CleanEmpty
<1>2. ASSUME NEW acts \in Seq(Acted), NEW a \in Acted, acts \in T PROVE Append(acts, a) \in T
  <2> SUFFICES ASSUME TidyActs(Append(acts, a)) PROVE Clean(Sent(Append(acts, a)))
    <3>1. Append(acts, a) \in Seq(Acted)
      OBVIOUS
    <3>2. QED
      BY <3>1
  <2>1. /\ \A i \in DOMAIN acts : i \in DOMAIN Append(acts, a) /\ Append(acts, a)[i] = acts[i]
        /\ Len(acts) + 1 \in DOMAIN Append(acts, a) /\ Append(acts, a)[Len(acts) + 1] = a
    OBVIOUS
  <2>2. TidyActs(acts) /\ TidyAct(a)
    BY <2>1 DEF TidyActs
  <2>3. Clean(Sent(acts)) /\ Clean(Inbound(a))
    BY <1>2, <2>2, InboundClean
  <2>4. Sent(Append(acts, a)) = Sent(acts) \o Inbound(a)
    BY SentFacts
  <2>5. QED
    BY <2>3, <2>4, CleanJoin
<1>3. \A acts \in Seq(Acted) : acts \in T
  <2> HIDE DEF T
  <2>1. QED
    BY <1>1, <1>2, Enc!SequencesByInduction
<1>4. QED
  BY <1>3

(* What the pane's terminal is told to do by all that was sent: to the last    *)
(* sequence whole, and no OSC among them.                                   *)
SentIsClean ==
    LET seen == Performed(sent)
    IN  /\ seen.p = Ground
        /\ \A i \in DOMAIN seen.acts : seen.acts[i].do # "osc"

LEMMA TypedClean == Typed => SentIsClean
<1> SUFFICES ASSUME Typed PROVE SentIsClean
  OBVIOUS
<1> DEFINE acts == Reading(Ground, typed).acts
           q    == Reading(Ground, typed).p
           in   == InOf(Ground, typed)
<1>1. typed \in Seq(Byte) /\ sent = in.out
  BY DEF Typed
<1>2. Does(Ground, typed, q, acts) /\ TidyActs(acts)
  BY <1>1, GroundIsParser, ReadingDoes, ReadingTidy
<1> HIDE DEF acts, q
<1>3. in = [p |-> q, out |-> Sent(acts)]
  BY <1>1, <1>2, PassReads
<1> HIDE DEF in
<1>4. sent = Sent(acts)
  BY <1>1, <1>3
<1>5. Clean(sent)
  BY <1>2, <1>4, SentClean DEF Does
<1>6. PICK done : Does(Ground, sent, Ground, done) /\ NoOsc(done)
  BY <1>5 DEF Clean
<1> DEFINE told == Performed(sent)
<1>7. told = [p |-> Ground, acts |-> done]
  <2>1. told = Reading(Ground, sent)
    BY DEF Performed, Reading, Unread, PerformOn, Performs!Folded, FoldLeft,
           MapThenFoldSet, Performs!MapThenFoldSet, Max, Performs!Max
  <2>2. QED
    BY <1>6, <2>1 DEF Does
<1> HIDE DEF told
<1>8. told.p = Ground /\ told.acts = done
  BY <1>7
<1>9. QED
  BY <1>6, <1>8 DEF SentIsClean, NoOsc, told

(* Whatever the browser sends, and however it is cut into frames: what reaches *)
(* tmux are whole sequences, and no OSC or control string is begun by them,    *)
(* though parts of one may have passed (inbound.rs:10, inbound.rs:15).         *)
THEOREM SentClosed == Spec => []SentIsClean
<1>1. QED
  BY TypedInit, TypedStep, TypedClean, PTL DEF Spec

================================================================================
