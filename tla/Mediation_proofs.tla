-------------------------- MODULE Mediation_proofs --------------------------
(* Theorems about Mediation, for every value of its constants.             *)
EXTENDS Mediation, SequenceTheorems, TLAPS

-----------------------------------------------------------------------------
(* Texts: while every field keeps to its place, a text determines the      *)
(* object it was written of, and tells its family by its length.           *)

\* The two halves of a text, taken apart before its last piece or after its first.
AllButLast(x)  == [k \in 1..(Len(x) - 1) |-> x[k]]
LastPiece(x)   == <<x[Len(x)]>>
FirstPiece(x)  == <<x[1]>>
AllButFirst(x) == [k \in 1..(Len(x) - 1) |-> x[k + 1]]

\* What joins a string of one piece to another string can be taken apart again.
LEMMA Apart ==
  \A s, t \in Strings :
    /\ Len(t) = 1 => AllButLast(s \o t) = s /\ LastPiece(s \o t) = t
    /\ Len(s) = 1 => FirstPiece(s \o t) = s /\ AllButFirst(s \o t) = t
<1> SUFFICES ASSUME NEW s \in Strings, NEW t \in Strings
             PROVE  /\ Len(t) = 1 => AllButLast(s \o t) = s /\ LastPiece(s \o t) = t
                    /\ Len(s) = 1 => FirstPiece(s \o t) = s /\ AllButFirst(s \o t) = t
  OBVIOUS
<1> DEFINE x == s \o t
<1>1. s \in Seq(Pieces) /\ t \in Seq(Pieces)
  BY DEF Strings
<1>2. /\ Len(x) = Len(s) + Len(t)
      /\ \A k \in 1..Len(s) + Len(t) : x[k] = IF k <= Len(s) THEN s[k] ELSE t[k - Len(s)]
      /\ Len(s) \in Nat /\ Len(t) \in Nat
  BY <1>1, ConcatProperties
<1>3. s = [k \in 1..Len(s) |-> s[k]] /\ t = [k \in 1..Len(t) |-> t[k]]
  BY <1>1
<1>4. Len(s) >= 1 /\ Len(t) >= 1
  BY <1>1, <1>2, EmptySeq DEF Strings
<1> HIDE DEF x
<1>5. ASSUME Len(t) = 1 PROVE AllButLast(x) = s
  <2>1. [k \in 1..(Len(x) - 1) |-> x[k]] = [k \in 1..Len(s) |-> s[k]]
    BY <1>2, <1>5
  <2> QED
    BY <1>3, <2>1, Zenon DEF AllButLast
<1>6. ASSUME Len(t) = 1 PROVE LastPiece(x) = t
  <2>1. x[Len(x)] = t[1]
    BY <1>2, <1>6
  <2>2. t = <<t[1]>>
    BY <1>1, <1>6
  <2> QED
    BY <2>1, <2>2, Zenon DEF LastPiece
<1>7. ASSUME Len(s) = 1 PROVE FirstPiece(x) = s
  <2>1. x[1] = s[1]
    BY <1>2, <1>4, <1>7
  <2>2. s = <<s[1]>>
    BY <1>1, <1>7
  <2> QED
    BY <2>1, <2>2, Zenon DEF FirstPiece
<1>8. ASSUME Len(s) = 1 PROVE AllButFirst(x) = t
  <2>1. [k \in 1..(Len(x) - 1) |-> x[k + 1]] = [k \in 1..Len(t) |-> t[k]]
    BY <1>2, <1>8
  <2> QED
    BY <1>3, <2>1, Zenon DEF AllButFirst
<1> QED
  BY <1>5, <1>6, <1>7, <1>8 DEF x
\* A concatenation of strings is a string, as long as its parts together.
LEMMA JoinedLength ==
  \A s, t \in Strings :
    s \o t \in Strings /\ Len(s \o t) = Len(s) + Len(t) /\ Len(s) \in Nat \ {0}
<1> SUFFICES ASSUME NEW s \in Strings, NEW t \in Strings
             PROVE  s \o t \in Strings /\ Len(s \o t) = Len(s) + Len(t) /\ Len(s) \in Nat \ {0}
  OBVIOUS
<1>1. s \in Seq(Pieces) /\ t \in Seq(Pieces) /\ s # <<>> /\ t # <<>>
  BY DEF Strings
<1>2. s \o t \in Seq(Pieces) /\ Len(s \o t) = Len(s) + Len(t)
  BY <1>1, ConcatProperties
<1>3. Len(s) \in Nat \ {0} /\ Len(t) \in Nat \ {0}
  BY <1>1, EmptySeq
<1>4. s \o t # <<>>
  BY <1>2, <1>3, EmptySeq
<1> QED
  BY <1>2, <1>3, <1>4 DEF Strings

\* What Gate writes of a number, a truth value or an optional string is a string.
LEMMA WrittenStrings ==
  /\ \A n \in Int : Number(n) \in Strings /\ Len(Number(n)) = 1
  /\ \A b \in BOOLEAN : Truth(b) \in Strings /\ Len(Truth(b)) = 1
  /\ \A d \in Digests : d \in Strings /\ Len(d) = 1
  /\ \A x \in Strings \cup {None} : OrEmpty(x) \in Strings
<1>0. <<Empty>> \in Strings /\ Len(<<Empty>>) = 1
  BY DEF Strings, Pieces
<1>1. \A n \in Int : Number(n) \in Strings /\ Len(Number(n)) = 1
  BY DEF Number, Strings, Pieces
<1>2. \A b \in BOOLEAN : Truth(b) \in Strings /\ Len(Truth(b)) = 1
  BY DEF Truth, Strings, Pieces
<1>3. ASSUME NEW c \in Artifacts PROVE digest_of(c) \in Strings /\ Len(digest_of(c)) = 1
  BY DEF digest_of, Strings, Pieces
<1>4. \A d \in Digests : d \in Strings /\ Len(d) = 1
  BY <1>0, <1>3 DEF Digests, EmptyDigest
<1>5. \A x \in Strings \cup {None} : OrEmpty(x) \in Strings
  BY <1>0 DEF OrEmpty
<1> QED
  BY <1>1, <1>2, <1>4, <1>5

\* A set of plain kinds is joined into one piece.
LEMMA JoinedKinds ==
  ASSUME NEW kinds \in SUBSET Kinds
  PROVE  /\ Joined[kinds] \in Strings
         /\ kinds \subseteq PlainKinds => Len(Joined[kinds]) = 1
BY JoinedAssumption

\* What is written of a number, a truth value and an optional string determines it.
LEMMA WrittenOnce ==
  /\ \A m, n \in Int : Number(m) = Number(n) => m = n
  /\ \A b, c \in BOOLEAN : Truth(b) = Truth(c) => b = c
  /\ \A x, y : /\ (x # None => Separate(x))
               /\ (y # None => Separate(y))
               /\ OrEmpty(x) = OrEmpty(y)
               => x = y
<1>1. ASSUME NEW m \in Int, NEW n \in Int, Number(m) = Number(n) PROVE m = n
  <2>1. Number(m)[1] = Number(n)[1]
    BY <1>1
  <2>2. [num |-> m].num = [num |-> n].num
    BY <2>1 DEF Number
  <2> QED
    BY <2>2
<1>2. ASSUME NEW b \in BOOLEAN, NEW c \in BOOLEAN, Truth(b) = Truth(c) PROVE b = c
  <2>1. Truth(b)[1] = Truth(c)[1]
    BY <1>2
  <2>2. [bool |-> b].bool = [bool |-> c].bool
    BY <2>1 DEF Truth
  <2> QED
    BY <2>2
<1>3. \A x, y : /\ (x # None => Separate(x))
               /\ (y # None => Separate(y))
               /\ OrEmpty(x) = OrEmpty(y)
               => x = y
  BY DEF OrEmpty, Separate
<1> QED
  BY <1>1, <1>2, <1>3

\* What is signed of an Order, an Authority and a Decision.
OrderText(o) ==
  order_canonical(o.order_id, o.issuer, o.granted_kinds, o.max_delegation_depth)

AuthorityText(a) ==
  authority_canonical(a.authority_id, a.principal_id, a.order_id, a.parent_authority_id,
                      a.allowed_kinds, a.remaining_delegation_depth)

DecisionText(d) ==
  canonical(d.intent_id, d.principal_id, d.kind, d.permitted, d.execution_class,
            d.artifact_digest, d.authority_id, d.order_id)

\* The text of an Order is a string; while its fields keep to their places it has four
\* or five pieces, and taking it apart gives the fields back.
LEMMA OrderTexts ==
  ASSUME NEW tokens, NEW o \in OrderObjects(tokens)
  PROVE  LET text == OrderText(o)
             t3   == AllButLast(text)
             t2   == AllButLast(t3)
         IN  /\ text \in Strings
             /\ SeparateOrder(o) =>
                  /\ Len(text) \in 4..5
                  /\ LastPiece(text) = Number(o.max_delegation_depth)
                  /\ LastPiece(t3) = Joined[o.granted_kinds]
                  /\ FirstPiece(t2) = o.order_id
                  /\ AllButFirst(t2) = o.issuer
<1>1. o.order_id \in Strings /\ o.issuer \in Strings
  BY StringsAssumption DEF OrderObjects
<1>2. /\ Joined[o.granted_kinds] \in Strings
      /\ SeparateOrder(o) => Len(Joined[o.granted_kinds]) = 1
  BY JoinedKinds DEF OrderObjects, SeparateOrder
<1>3. /\ Number(o.max_delegation_depth) \in Strings
      /\ Len(Number(o.max_delegation_depth)) = 1
  BY DepthsAssumption, WrittenStrings DEF OrderObjects
<1> DEFINE t2 == o.order_id \o o.issuer
           t3 == t2 \o Joined[o.granted_kinds]
           t4 == t3 \o Number(o.max_delegation_depth)
<1>4. t2 \in Strings /\ Len(t2) = Len(o.order_id) + Len(o.issuer) /\ Len(o.issuer) \in Nat \ {0}
  BY <1>1, JoinedLength, Zenon
<1>5. t3 \in Strings /\ Len(t3) = Len(t2) + Len(Joined[o.granted_kinds])
  BY <1>2, <1>4, JoinedLength, Zenon
<1>6. t4 \in Strings /\ Len(t4) = Len(t3) + Len(Number(o.max_delegation_depth))
  BY <1>3, <1>5, JoinedLength, Zenon
<1>7. AllButLast(t4) = t3 /\ LastPiece(t4) = Number(o.max_delegation_depth)
  BY <1>3, <1>5, Apart, Zenon
<1>8. SeparateOrder(o) => AllButLast(t3) = t2 /\ LastPiece(t3) = Joined[o.granted_kinds]
  BY <1>2, <1>4, Apart, Zenon
<1>9. SeparateOrder(o) => Len(o.order_id) = 1 /\ Len(o.issuer) <= 2
  BY DEF SeparateOrder, Separate
<1>10. SeparateOrder(o) => FirstPiece(t2) = o.order_id /\ AllButFirst(t2) = o.issuer
  BY <1>1, <1>9, Apart, Zenon
<1>11. OrderText(o) = t4
  BY DEF OrderText, order_canonical
<1> HIDE DEF t2, t3, t4
<1>12. ASSUME SeparateOrder(o) PROVE Len(t4) \in 4..5
  <2>1. Len(o.order_id) = 1 /\ Len(o.issuer) <= 2 /\ Len(Joined[o.granted_kinds]) = 1
    BY <1>2, <1>9, <1>12, Zenon
  <2> QED
    BY <1>3, <1>4, <1>5, <1>6, <2>1
<1> QED
  BY <1>6, <1>7, <1>8, <1>10, <1>11, <1>12, Zenon

\* The same of the text of an Authority, which has six pieces.
LEMMA AuthorityTexts ==
  ASSUME NEW tokens, NEW a \in AuthorityObjects(Int, tokens)
  PROVE  LET text == AuthorityText(a)
             t5   == AllButLast(text)
             t4   == AllButLast(t5)
             t3   == AllButLast(t4)
             t2   == AllButLast(t3)
         IN  /\ text \in Strings
             /\ SeparateAuthority(a) =>
                  /\ Len(text) = 6
                  /\ LastPiece(text) = Number(a.remaining_delegation_depth)
                  /\ LastPiece(t5) = Joined[a.allowed_kinds]
                  /\ LastPiece(t4) = OrEmpty(a.parent_authority_id)
                  /\ LastPiece(t3) = a.order_id
                  /\ LastPiece(t2) = a.principal_id
                  /\ AllButLast(t2) = a.authority_id
<1> DEFINE f4 == OrEmpty(a.parent_authority_id)
           f5 == Joined[a.allowed_kinds]
           f6 == Number(a.remaining_delegation_depth)
           t2 == a.authority_id \o a.principal_id
           t3 == t2 \o a.order_id
           t4 == t3 \o f4
           t5 == t4 \o f5
           t6 == t5 \o f6
<1>1. a.authority_id \in Strings /\ a.principal_id \in Strings /\ a.order_id \in Strings
  BY StringsAssumption DEF AuthorityObjects
<1>2. f4 \in Strings
  BY StringsAssumption, WrittenStrings DEF AuthorityObjects
<1>3. f5 \in Strings /\ (SeparateAuthority(a) => Len(f5) = 1)
  BY JoinedKinds DEF AuthorityObjects, SeparateAuthority
<1>4. f6 \in Strings /\ Len(f6) = 1
  BY WrittenStrings DEF AuthorityObjects
<1>5. SeparateAuthority(a) => /\ Len(a.authority_id) = 1
                              /\ Len(a.principal_id) = 1
                              /\ Len(a.order_id) = 1
                              /\ Len(f4) = 1
  BY DEF SeparateAuthority, Separate, OrEmpty
<1>6. AuthorityText(a) = t6
  BY DEF AuthorityText, authority_canonical
<1> HIDE DEF f4, f5, f6
<1>7. t2 \in Strings /\ Len(t2) = Len(a.authority_id) + Len(a.principal_id)
  BY <1>1, JoinedLength, Zenon
<1>8. t3 \in Strings /\ Len(t3) = Len(t2) + Len(a.order_id)
  BY <1>1, <1>7, JoinedLength, Zenon
<1>9. t4 \in Strings /\ Len(t4) = Len(t3) + Len(f4)
  BY <1>2, <1>8, JoinedLength, Zenon
<1>10. t5 \in Strings /\ Len(t5) = Len(t4) + Len(f5)
  BY <1>3, <1>9, JoinedLength, Zenon
<1>11. t6 \in Strings /\ Len(t6) = Len(t5) + Len(f6)
  BY <1>4, <1>10, JoinedLength, Zenon
<1>12. AllButLast(t6) = t5 /\ LastPiece(t6) = f6
  BY <1>4, <1>10, Apart, Zenon
<1>13. SeparateAuthority(a) => AllButLast(t5) = t4 /\ LastPiece(t5) = f5
  BY <1>3, <1>9, Apart, Zenon
<1>14. SeparateAuthority(a) => AllButLast(t4) = t3 /\ LastPiece(t4) = f4
  BY <1>2, <1>5, <1>8, Apart, Zenon
<1>15. SeparateAuthority(a) => AllButLast(t3) = t2 /\ LastPiece(t3) = a.order_id
  BY <1>1, <1>5, <1>7, Apart, Zenon
<1>16. SeparateAuthority(a) => AllButLast(t2) = a.authority_id /\ LastPiece(t2) = a.principal_id
  BY <1>1, <1>5, Apart, Zenon
<1> HIDE DEF t2, t3, t4, t5, t6
<1>17. ASSUME SeparateAuthority(a) PROVE Len(t6) = 6
  <2>1. /\ Len(a.authority_id) = 1
        /\ Len(a.principal_id) = 1
        /\ Len(a.order_id) = 1
        /\ Len(f4) = 1
        /\ Len(f5) = 1
    BY <1>3, <1>5, <1>17, Zenon
  <2> QED
    BY <1>4, <1>7, <1>8, <1>9, <1>10, <1>11, <2>1
<1> QED
  BY <1>6, <1>11, <1>12, <1>13, <1>14, <1>15, <1>16, <1>17, Zenon DEF f4, f5, f6

\* The same of the text of a Decision, which has eight pieces.
LEMMA DecisionTexts ==
  ASSUME NEW tokens, NEW d \in DecisionObjects(tokens)
  PROVE  LET text == DecisionText(d)
             t7   == AllButLast(text)
             t6   == AllButLast(t7)
             t5   == AllButLast(t6)
             t4   == AllButLast(t5)
             t3   == AllButLast(t4)
             t2   == AllButLast(t3)
         IN  /\ text \in Strings
             /\ SeparateDecision(d) =>
                  /\ Len(text) = 8
                  /\ LastPiece(text) = OrEmpty(d.order_id)
                  /\ LastPiece(t7) = OrEmpty(d.authority_id)
                  /\ LastPiece(t6) = d.artifact_digest
                  /\ LastPiece(t5) = d.execution_class
                  /\ LastPiece(t4) = Truth(d.permitted)
                  /\ LastPiece(t3) = d.kind
                  /\ LastPiece(t2) = d.principal_id
                  /\ AllButLast(t2) = d.intent_id
<1> DEFINE f4 == Truth(d.permitted)
           f7 == OrEmpty(d.authority_id)
           f8 == OrEmpty(d.order_id)
           t2 == d.intent_id \o d.principal_id
           t3 == t2 \o d.kind
           t4 == t3 \o f4
           t5 == t4 \o d.execution_class
           t6 == t5 \o d.artifact_digest
           t7 == t6 \o f7
           t8 == t7 \o f8
<1>1. /\ d.intent_id \in Strings
      /\ d.principal_id \in Strings
      /\ d.kind \in Strings
      /\ d.execution_class \in Strings
  BY StringsAssumption DEF DecisionObjects
<1>2. f4 \in Strings /\ Len(f4) = 1
  BY WrittenStrings DEF DecisionObjects
<1>3. d.artifact_digest \in Strings /\ Len(d.artifact_digest) = 1
  BY WrittenStrings DEF DecisionObjects
<1>4. f7 \in Strings /\ f8 \in Strings
  BY StringsAssumption, WrittenStrings DEF DecisionObjects
<1>5. SeparateDecision(d) => /\ Len(d.intent_id) = 1
                             /\ Len(d.principal_id) = 1
                             /\ Len(d.kind) = 1
                             /\ Len(d.execution_class) = 1
                             /\ Len(f7) = 1
                             /\ Len(f8) = 1
  BY DEF SeparateDecision, Separate, OrEmpty
<1>6. DecisionText(d) = t8
  BY DEF DecisionText, canonical
<1> HIDE DEF f4, f7, f8
<1>7. t2 \in Strings /\ Len(t2) = Len(d.intent_id) + Len(d.principal_id)
  BY <1>1, JoinedLength, Zenon
<1>8. t3 \in Strings /\ Len(t3) = Len(t2) + Len(d.kind)
  BY <1>1, <1>7, JoinedLength, Zenon
<1>9. t4 \in Strings /\ Len(t4) = Len(t3) + Len(f4)
  BY <1>2, <1>8, JoinedLength, Zenon
<1>10. t5 \in Strings /\ Len(t5) = Len(t4) + Len(d.execution_class)
  BY <1>1, <1>9, JoinedLength, Zenon
<1>11. t6 \in Strings /\ Len(t6) = Len(t5) + Len(d.artifact_digest)
  BY <1>3, <1>10, JoinedLength, Zenon
<1>12. t7 \in Strings /\ Len(t7) = Len(t6) + Len(f7)
  BY <1>4, <1>11, JoinedLength, Zenon
<1>13. t8 \in Strings /\ Len(t8) = Len(t7) + Len(f8)
  BY <1>4, <1>12, JoinedLength, Zenon
<1>14. SeparateDecision(d) => AllButLast(t8) = t7 /\ LastPiece(t8) = f8
  BY <1>4, <1>5, <1>12, Apart, Zenon
<1>15. SeparateDecision(d) => AllButLast(t7) = t6 /\ LastPiece(t7) = f7
  BY <1>4, <1>5, <1>11, Apart, Zenon
<1>16. AllButLast(t6) = t5 /\ LastPiece(t6) = d.artifact_digest
  BY <1>3, <1>10, Apart, Zenon
<1>17. SeparateDecision(d) => AllButLast(t5) = t4 /\ LastPiece(t5) = d.execution_class
  BY <1>1, <1>5, <1>9, Apart, Zenon
<1>18. AllButLast(t4) = t3 /\ LastPiece(t4) = f4
  BY <1>2, <1>8, Apart, Zenon
<1>19. SeparateDecision(d) => AllButLast(t3) = t2 /\ LastPiece(t3) = d.kind
  BY <1>1, <1>5, <1>7, Apart, Zenon
<1>20. SeparateDecision(d) => AllButLast(t2) = d.intent_id /\ LastPiece(t2) = d.principal_id
  BY <1>1, <1>5, Apart, Zenon
<1> HIDE DEF t2, t3, t4, t5, t6, t7, t8
<1>21. ASSUME SeparateDecision(d) PROVE Len(t8) = 8
  <2>1. /\ Len(d.intent_id) = 1
        /\ Len(d.principal_id) = 1
        /\ Len(d.kind) = 1
        /\ Len(d.execution_class) = 1
        /\ Len(f7) = 1
        /\ Len(f8) = 1
    BY <1>5, <1>21, Zenon
  <2> QED
    BY <1>2, <1>3, <1>7, <1>8, <1>9, <1>10, <1>11, <1>12, <1>13, <2>1
<1> QED
  BY <1>6, <1>13, <1>14, <1>15, <1>16, <1>17, <1>18, <1>19, <1>20, <1>21, Zenon
     DEF f4, f7, f8

\* While fields keep to their places, two Orders with one token are one Order.
LEMMA SameOrder ==
  ASSUME NEW o \in OrderObjects(SignedTexts), SeparateOrder(o),
         NEW m \in OrderObjects(SignedTexts), SeparateOrder(m),
         OrderText(o) = OrderText(m), o.token = m.token
  PROVE  o = m
<1>1. /\ Number(o.max_delegation_depth) = Number(m.max_delegation_depth)
      /\ Joined[o.granted_kinds] = Joined[m.granted_kinds]
      /\ o.order_id = m.order_id
      /\ o.issuer = m.issuer
  BY OrderTexts
<1>2. o.granted_kinds = m.granted_kinds
  BY <1>1, JoinedAssumption DEF SeparateOrder
<1>3. o.max_delegation_depth = m.max_delegation_depth
  BY <1>1, DepthsAssumption, WrittenOnce DEF OrderObjects
<1> QED
  BY <1>1, <1>2, <1>3 DEF OrderObjects

\* The same of Authorities.
LEMMA SameAuthority ==
  ASSUME NEW a \in AuthorityObjects(Int, SignedTexts), SeparateAuthority(a),
         NEW m \in AuthorityObjects(Int, SignedTexts), SeparateAuthority(m),
         AuthorityText(a) = AuthorityText(m), a.token = m.token
  PROVE  a = m
<1>1. /\ Number(a.remaining_delegation_depth) = Number(m.remaining_delegation_depth)
      /\ Joined[a.allowed_kinds] = Joined[m.allowed_kinds]
      /\ OrEmpty(a.parent_authority_id) = OrEmpty(m.parent_authority_id)
      /\ a.order_id = m.order_id
      /\ a.principal_id = m.principal_id
      /\ a.authority_id = m.authority_id
  BY AuthorityTexts
<1>2. a.allowed_kinds = m.allowed_kinds
  BY <1>1, JoinedAssumption DEF SeparateAuthority
<1>3. a.remaining_delegation_depth = m.remaining_delegation_depth
  BY <1>1, WrittenOnce DEF AuthorityObjects
<1>4. a.parent_authority_id = m.parent_authority_id
  BY <1>1, WrittenOnce DEF SeparateAuthority
<1> QED
  BY <1>1, <1>2, <1>3, <1>4 DEF AuthorityObjects

\* The same of Decisions.
LEMMA SameDecision ==
  ASSUME NEW d \in DecisionObjects(SignedTexts), SeparateDecision(d),
         NEW m \in DecisionObjects(SignedTexts), SeparateDecision(m),
         DecisionText(d) = DecisionText(m), d.token = m.token
  PROVE  d = m
<1>1. /\ OrEmpty(d.order_id) = OrEmpty(m.order_id)
      /\ OrEmpty(d.authority_id) = OrEmpty(m.authority_id)
      /\ d.artifact_digest = m.artifact_digest
      /\ d.execution_class = m.execution_class
      /\ Truth(d.permitted) = Truth(m.permitted)
      /\ d.kind = m.kind
      /\ d.principal_id = m.principal_id
      /\ d.intent_id = m.intent_id
  BY DecisionTexts
<1>2. d.permitted = m.permitted
  BY <1>1, WrittenOnce DEF DecisionObjects
<1>3. d.authority_id = m.authority_id /\ d.order_id = m.order_id
  BY <1>1, WrittenOnce DEF SeparateDecision
<1> QED
  BY <1>1, <1>2, <1>3 DEF DecisionObjects

-----------------------------------------------------------------------------
(* The invariant.                                                          *)

\* Every object Gate returned verifies: its token is the one computed over its own
\* fields.
Genuine ==
  /\ \A o \in orders : verify_order(o)
  /\ \A a \in authorities : verify_authority(a)
  /\ \A d \in decisions : verify(d)

\* What separated remembers of the objects minted.
AllSeparate ==
  separated => /\ \A o \in orders : SeparateOrder(o)
               /\ \A a \in authorities : SeparateAuthority(a)
               /\ \A d \in decisions : SeparateDecision(d)

\* A Decision that names an Authority was made for its principal, under its Order,
\* and is a yes only for a kind the Authority allows.
RestsOnAuthority(d) ==
  d.authority_id # None =>
    \E a \in authorities :
      /\ a.authority_id = d.authority_id
      /\ a.principal_id = d.principal_id
      /\ a.order_id = d.order_id
      /\ d.permitted => d.kind \in a.allowed_kinds

DecisionsGrounded == separated => \A d \in decisions : RestsOnAuthority(d)

DecisionsAnswer == \A d \in decisions : \E j \in Intents : Answers(d, j)

\* A backend call passed the checks that relate the Decision to the Intent presented.
RunsCorrespond ==
  \A n \in DOMAIN ran :
    /\ Corresponds(ran[n].decision, ran[n].intent)
    /\ ProvenanceHolds(ran[n].decision, ran[n].intent)
    /\ ran[n].decision.execution_class \in NeedsArtifact
         => ran[n].intent.artifact_code # None

\* The inductive invariant.
Inv ==
  /\ TypeOK
  /\ Genuine
  /\ AllSeparate
  /\ AttenuatedFromOrder
  /\ SoundLineage
  /\ DecisionsGrounded
  /\ DecisionsAnswer
  /\ RanAsMinted
  /\ RunsCorrespond

-----------------------------------------------------------------------------
(* What a verified object is.                                              *)

\* Two texts with one token are one text: Hmac is ideal.
LEMMA HmacOnce == \A s, t : Hmac(s) = Hmac(t) => s = t
<1> SUFFICES ASSUME NEW s, NEW t, Hmac(s) = Hmac(t) PROVE s = t
  OBVIOUS
<1>1. [hmac |-> s].hmac = [hmac |-> t].hmac
  BY DEF Hmac
<1> QED
  BY <1>1

\* The tokens callers hold are tokens of texts Gate signed.
LEMMA TokensTyped ==
  ASSUME TypeOK
  PROVE  Tokens \subseteq SignedTexts
<1>1. ASSUME NEW x \in orders \cup authorities \cup decisions
      PROVE  x.token \in SignedTexts
  BY DEF TypeOK, OrderObjects, AuthorityObjects, DecisionObjects
<1> QED
  BY <1>1 DEF Tokens

\* What an object minted by Gate is signed over, and how long the text is.
LEMMA MintedTexts ==
  ASSUME Inv, separated
  PROVE  /\ \A o \in orders :
              o.token = Hmac(OrderText(o)) /\ Len(OrderText(o)) \in 4..5
         /\ \A a \in authorities :
              a.token = Hmac(AuthorityText(a)) /\ Len(AuthorityText(a)) = 6
         /\ \A d \in decisions :
              d.token = Hmac(DecisionText(d)) /\ Len(DecisionText(d)) = 8
<1>1. ASSUME NEW o \in orders
      PROVE  o.token = Hmac(OrderText(o)) /\ Len(OrderText(o)) \in 4..5
  <2>1. o \in OrderObjects(SignedTexts) /\ SeparateOrder(o) /\ verify_order(o)
    BY DEF Inv, TypeOK, Genuine, AllSeparate
  <2> QED
    BY <2>1, OrderTexts DEF verify_order, OrderText
<1>2. ASSUME NEW a \in authorities
      PROVE  a.token = Hmac(AuthorityText(a)) /\ Len(AuthorityText(a)) = 6
  <2>1. a \in AuthorityObjects(Int, SignedTexts) /\ SeparateAuthority(a) /\ verify_authority(a)
    BY DEF Inv, TypeOK, Genuine, AllSeparate
  <2> QED
    BY <2>1, AuthorityTexts DEF verify_authority, AuthorityText
<1>3. ASSUME NEW d \in decisions
      PROVE  d.token = Hmac(DecisionText(d)) /\ Len(DecisionText(d)) = 8
  <2>1. d \in DecisionObjects(SignedTexts) /\ SeparateDecision(d) /\ verify(d)
    BY DEF Inv, TypeOK, Genuine, AllSeparate
  <2> QED
    BY <2>1, DecisionTexts DEF verify, DecisionText
<1> QED
  BY <1>1, <1>2, <1>3

\* An Order a caller presents, whose fields keep to their places and which
\* Gate.verify_order accepts, is one Gate issued: no field can differ from the original.
LEMMA VerifiedOrderMinted ==
  ASSUME Inv, separated, NEW o \in PresentedOrders, SeparateOrder(o), verify_order(o)
  PROVE  o \in orders
<1>1. o \in OrderObjects(SignedTexts)
  BY TokensTyped DEF Inv, PresentedOrders, OrderObjects
<1>2. o.token = Hmac(OrderText(o))
  BY DEF verify_order, OrderText
<1>3. Len(OrderText(o)) \in 4..5
  BY <1>1, OrderTexts
<1>4. PICK m \in orders \cup authorities \cup decisions : m.token = o.token
  BY DEF PresentedOrders, OrderObjects, Tokens
<1>5. m \in orders /\ OrderText(m) = OrderText(o)
  BY <1>2, <1>3, <1>4, MintedTexts, HmacOnce
<1>6. m \in OrderObjects(SignedTexts) /\ SeparateOrder(m)
  BY <1>5 DEF Inv, TypeOK, AllSeparate
<1> QED
  BY <1>1, <1>4, <1>5, <1>6, SameOrder

\* The same for Gate.verify_authority.
LEMMA VerifiedAuthorityMinted ==
  ASSUME Inv, separated, NEW a \in PresentedAuthorities, SeparateAuthority(a),
         verify_authority(a)
  PROVE  a \in authorities
<1>1. a \in AuthorityObjects(Int, SignedTexts)
  BY TokensTyped, DepthsAssumption
     DEF Inv, TypeOK, PresentedAuthorities, AuthorityObjects, LiveDepths
<1>2. a.token = Hmac(AuthorityText(a))
  BY DEF verify_authority, AuthorityText
<1>3. Len(AuthorityText(a)) = 6
  BY <1>1, AuthorityTexts
<1>4. PICK m \in orders \cup authorities \cup decisions : m.token = a.token
  BY DEF PresentedAuthorities, AuthorityObjects, Tokens
<1>5. m \in authorities /\ AuthorityText(m) = AuthorityText(a)
  BY <1>2, <1>3, <1>4, MintedTexts, HmacOnce
<1>6. m \in AuthorityObjects(Int, SignedTexts) /\ SeparateAuthority(m)
  BY <1>5 DEF Inv, TypeOK, AllSeparate
<1> QED
  BY <1>1, <1>4, <1>5, <1>6, SameAuthority

\* The same for Gate.verify.
LEMMA VerifiedDecisionMinted ==
  ASSUME Inv, separated, NEW d \in PresentedDecisions, SeparateDecision(d), verify(d)
  PROVE  d \in decisions
<1>1. d \in DecisionObjects(SignedTexts)
  BY TokensTyped DEF Inv, PresentedDecisions, DecisionObjects
<1>2. d.token = Hmac(DecisionText(d))
  BY DEF verify, DecisionText
<1>3. Len(DecisionText(d)) = 8
  BY <1>1, DecisionTexts
<1>4. PICK m \in orders \cup authorities \cup decisions : m.token = d.token
  BY DEF PresentedDecisions, DecisionObjects, Tokens
<1>5. m \in decisions /\ DecisionText(m) = DecisionText(d)
  BY <1>2, <1>3, <1>4, MintedTexts, HmacOnce
<1>6. m \in DecisionObjects(SignedTexts) /\ SeparateDecision(m)
  BY <1>5 DEF Inv, TypeOK, AllSeparate
<1> QED
  BY <1>1, <1>4, <1>5, <1>6, SameDecision

-----------------------------------------------------------------------------
(* One lemma for each operation.                                           *)

\* Gate.issue_order keeps the invariant.
LEMMA IssueOrderStep ==
  ASSUME Inv, NEW id \in OrderIds, NEW issuer \in Issuers, NEW kinds \in SUBSET Kinds,
         NEW depth \in Depths, issue_order(id, issuer, kinds, depth)
  PROVE  Inv'
<1> DEFINE new == OrderOf(id, issuer, kinds, depth)
<1>1. /\ orders' = orders \cup {new}
      /\ separated' = (separated /\ SeparateOrder(new))
      /\ UNCHANGED <<authorities, decisions, backends, ran>>
  BY DEF issue_order
<1>2. verify_order(new) /\ new.token = Hmac(OrderText(new))
  BY DEF OrderOf, verify_order, OrderText
<1>3. new \in OrderObjects({new.token})
  BY DEF OrderOf, OrderObjects
<1>4. OrderText(new) \in Strings
  BY <1>3, OrderTexts
<1> HIDE DEF new
<1>5. new \in OrderObjects(SignedTexts)
  BY <1>2, <1>3, <1>4 DEF OrderObjects, SignedTexts, Hmac
<1>6. TypeOK'
  BY <1>1, <1>5 DEF Inv, TypeOK
<1>7. Genuine' /\ AllSeparate'
  BY <1>1, <1>2 DEF Inv, Genuine, AllSeparate
<1>8. AttenuatedFromOrder'
  BY <1>1 DEF Inv, AttenuatedFromOrder
<1>9. SoundLineage'
  BY <1>1 DEF Inv, SoundLineage
<1>10. DecisionsGrounded' /\ DecisionsAnswer'
  BY <1>1 DEF Inv, DecisionsGrounded, RestsOnAuthority, DecisionsAnswer
<1>11. RanAsMinted' /\ RunsCorrespond'
  BY <1>1 DEF Inv, RanAsMinted, RunsCorrespond
<1> QED
  BY <1>6, <1>7, <1>8, <1>9, <1>10, <1>11 DEF Inv

\* Adding an Authority that Gate made under a fresh id keeps the invariant when, while
\* fields keep to their places, it is grounded in an issued Order and derived from its
\* parent if it names one.
LEMMA NewAuthorityStep ==
  ASSUME Inv,
         NEW id \in AuthorityIds, NEW principal \in Principals, NEW order_id \in OrderIds,
         NEW parent \in AuthorityIds \cup {None}, NEW kinds \in SUBSET Kinds,
         NEW depth \in Int,
         Fresh(id),
         separated' \in BOOLEAN,
         separated' =>
           LET new == AuthorityOf(id, principal, order_id, parent, kinds, depth)
           IN  /\ separated /\ SeparateAuthority(new)
               /\ \E o \in orders : GroundedIn(new, o)
               /\ parent # None => \E p \in authorities : DelegatedFrom(new, p),
         authorities' = authorities \cup
           {AuthorityOf(id, principal, order_id, parent, kinds, depth)},
         UNCHANGED <<orders, decisions, backends, ran>>
  PROVE  Inv'
<1> DEFINE new == AuthorityOf(id, principal, order_id, parent, kinds, depth)
<1>1. /\ new.authority_id = id
      /\ new.parent_authority_id = parent
  BY DEF AuthorityOf
<1>2. verify_authority(new) /\ new.token = Hmac(AuthorityText(new))
  BY DEF AuthorityOf, verify_authority, AuthorityText
<1>3. new \in AuthorityObjects(Int, {new.token})
  BY DEF AuthorityOf, AuthorityObjects
<1>4. AuthorityText(new) \in Strings
  BY <1>3, AuthorityTexts
<1>5. /\ authorities' = authorities \cup {new}
      /\ separated' => separated /\ SeparateAuthority(new)
      /\ separated' => \E o \in orders : GroundedIn(new, o)
      /\ separated' => (parent # None => \E p \in authorities : DelegatedFrom(new, p))
  OBVIOUS
<1> HIDE DEF new
<1>6. new \in AuthorityObjects(Int, SignedTexts)
  BY <1>2, <1>3, <1>4 DEF AuthorityObjects, SignedTexts, Hmac
<1>7. TypeOK'
  BY <1>5, <1>6 DEF Inv, TypeOK
<1>8. Genuine' /\ AllSeparate'
  BY <1>2, <1>5 DEF Inv, Genuine, AllSeparate
<1>9. AttenuatedFromOrder'
  BY <1>5 DEF Inv, AttenuatedFromOrder
<1>10. SoundLineage'
  <2>1. ASSUME separated', NEW a \in authorities', a.parent_authority_id # None
        PROVE  \E p \in authorities' : DelegatedFrom(a, p)
    BY <1>1, <1>5, <2>1 DEF Inv, SoundLineage
  <2>2. ASSUME NEW a \in authorities', NEW b \in authorities', a.authority_id = b.authority_id
        PROVE  a = b
    BY <1>1, <1>5, <2>2 DEF Inv, SoundLineage, Fresh
  <2> QED
    BY <2>1, <2>2 DEF SoundLineage
<1>11. DecisionsGrounded' /\ DecisionsAnswer'
  BY <1>5 DEF Inv, DecisionsGrounded, RestsOnAuthority, DecisionsAnswer
<1>12. RanAsMinted' /\ RunsCorrespond'
  BY <1>5 DEF Inv, RanAsMinted, RunsCorrespond
<1> QED
  BY <1>7, <1>8, <1>9, <1>10, <1>11, <1>12 DEF Inv

\* Gate.grant_root_authority keeps the invariant.
LEMMA GrantRootStep ==
  ASSUME Inv, NEW o \in PresentedOrders, grant_root_authority(o)
  PROVE  Inv'
<1>1. PICK id \in AuthorityIds, principal \in Principals, kinds \in SUBSET Kinds :
        LET new == AuthorityOf(id, principal, o.order_id, None, kinds,
                               o.max_delegation_depth)
        IN /\ kinds \subseteq o.granted_kinds
           /\ Fresh(id)
           /\ authorities' = authorities \cup {new}
           /\ separated' = (separated /\ SeparateOrder(o) /\ SeparateAuthority(new))
  BY DEF grant_root_authority
<1> DEFINE new == AuthorityOf(id, principal, o.order_id, None, kinds, o.max_delegation_depth)
<1>2. o.order_id \in OrderIds /\ o.max_delegation_depth \in Int
  BY DepthsAssumption DEF PresentedOrders, OrderObjects
<1>3. ASSUME separated' PROVE \E x \in orders : GroundedIn(new, x)
  <2>1. o \in orders
    BY <1>1, <1>3, VerifiedOrderMinted DEF grant_root_authority
  <2>2. GroundedIn(new, o)
    BY <1>1, <1>2 DEF GroundedIn, AuthorityOf
  <2> QED
    BY <2>1, <2>2
<1>4. separated' = (separated /\ SeparateOrder(o) /\ SeparateAuthority(new))
  BY <1>1
<1>5. authorities' = authorities \cup {new} /\ Fresh(id)
  BY <1>1
<1>6. UNCHANGED <<orders, decisions, backends, ran>>
  BY DEF grant_root_authority
<1> QED
  BY <1>2, <1>3, <1>4, <1>5, <1>6, NewAuthorityStep

\* Gate.delegate keeps the invariant.
LEMMA DelegateStep ==
  ASSUME Inv, NEW p \in PresentedAuthorities, delegate(p)
  PROVE  Inv'
<1>1. PICK id \in AuthorityIds, principal \in Principals, kinds \in SUBSET Kinds :
        LET new == AuthorityOf(id, principal, p.order_id, p.authority_id, kinds,
                               p.remaining_delegation_depth - 1)
        IN /\ kinds \subseteq p.allowed_kinds
           /\ Fresh(id)
           /\ authorities' = authorities \cup {new}
           /\ separated' = (separated /\ SeparateAuthority(p) /\ SeparateAuthority(new))
  BY DEF delegate, Derives
<1> DEFINE new == AuthorityOf(id, principal, p.order_id, p.authority_id, kinds,
                              p.remaining_delegation_depth - 1)
<1>2. /\ p.order_id \in OrderIds
      /\ p.authority_id \in AuthorityIds
      /\ p.remaining_delegation_depth \in Int
      /\ p.remaining_delegation_depth > 0
  BY DepthsAssumption
     DEF Inv, TypeOK, PresentedAuthorities, AuthorityObjects, LiveDepths, delegate
<1>3. separated' = (separated /\ SeparateAuthority(p) /\ SeparateAuthority(new))
  BY <1>1
<1>4. ASSUME separated'
      PROVE  /\ \E x \in authorities : DelegatedFrom(new, x)
             /\ \E x \in orders : GroundedIn(new, x)
  <2>1. p \in authorities
    BY <1>3, <1>4, VerifiedAuthorityMinted DEF delegate
  <2>2. DelegatedFrom(new, p)
    BY <1>1, <1>2 DEF DelegatedFrom, AuthorityOf
  <2>3. PICK o \in orders : GroundedIn(p, o)
    BY <1>3, <1>4, <2>1 DEF Inv, AttenuatedFromOrder
  <2>4. o.max_delegation_depth \in Int
    BY <2>3, DepthsAssumption DEF Inv, TypeOK, OrderObjects
  <2>5. GroundedIn(new, o)
    BY <1>1, <1>2, <2>3, <2>4 DEF GroundedIn, AuthorityOf
  <2> QED
    BY <2>1, <2>2, <2>5
<1>5. authorities' = authorities \cup {new} /\ Fresh(id)
  BY <1>1
<1>6. UNCHANGED <<orders, decisions, backends, ran>>
  BY DEF delegate, Derives
<1>7. p.authority_id \in AuthorityIds \cup {None} /\ p.remaining_delegation_depth - 1 \in Int
  BY <1>2
<1>8. /\ separated' \in BOOLEAN
      /\ separated' =>
           /\ separated /\ SeparateAuthority(new)
           /\ \E o \in orders : GroundedIn(new, o)
           /\ p.authority_id # None => \E x \in authorities : DelegatedFrom(new, x)
  BY <1>3, <1>4
<1> QED
  BY <1>2, <1>5, <1>6, <1>7, <1>8, NewAuthorityStep, Zenon

\* The Decision made for an intent has the declared shape, a genuine token, and the
\* intent's id, principal, kind and code.
LEMMA DecisionOfTyped ==
  ASSUME NEW i \in Intents, NEW permitted \in BOOLEAN,
         NEW authority_id \in AuthorityIds \cup {None}, NEW order_id \in OrderIds \cup {None}
  PROVE  /\ DecisionOf(i, permitted, authority_id, order_id) \in DecisionObjects(SignedTexts)
         /\ verify(DecisionOf(i, permitted, authority_id, order_id))
         /\ Answers(DecisionOf(i, permitted, authority_id, order_id), i)
<1> DEFINE class  == evaluate(i).execution_class
           digest == artifact_digest(i)
           d      == DecisionOf(i, permitted, authority_id, order_id)
<1>1. /\ i.intent_id \in IntentIds
      /\ i.principal_id \in Principals
      /\ i.kind \in Kinds
      /\ i.consequence \in Consequences
      /\ i.artifact_code \in Artifacts \cup {None}
  BY IntentsAssumption
<1>2. class \in Classes
  BY <1>1, EvaluateAssumption DEF evaluate
<1>3. digest \in Digests
  BY <1>1 DEF Digests, artifact_digest
<1>4. Answers(d, i)
  BY DEF DecisionOf, Answers
<1>5. verify(d) /\ d.token = Hmac(DecisionText(d))
  BY DEF DecisionOf, verify, DecisionText
<1>6. d \in DecisionObjects({d.token})
  <2>1. d = [intent_id |-> i.intent_id, principal_id |-> i.principal_id, kind |-> i.kind,
             permitted |-> permitted, execution_class |-> class, artifact_digest |-> digest,
             authority_id |-> authority_id, order_id |-> order_id,
             token |-> Hmac(canonical(i.intent_id, i.principal_id, i.kind, permitted, class,
                                      digest, authority_id, order_id))]
    BY DEF DecisionOf
  <2> HIDE DEF class, digest
  <2> QED
    BY <1>1, <1>2, <1>3, <2>1 DEF DecisionObjects
<1>7. DecisionText(d) \in Strings
  BY <1>6, DecisionTexts
<1> HIDE DEF d
<1>8. d \in DecisionObjects(SignedTexts)
  BY <1>5, <1>6, <1>7 DEF DecisionObjects, SignedTexts, Hmac
<1> QED
  BY <1>4, <1>5, <1>8 DEF d

\* Adding a Decision that Gate made keeps the invariant when, while fields keep to their
\* places, it rests on the Authority it names.
LEMMA NewDecisionStep ==
  ASSUME Inv, NEW d \in DecisionObjects(SignedTexts), verify(d),
         \E j \in Intents : Answers(d, j),
         separated' \in BOOLEAN,
         separated' => separated /\ SeparateDecision(d) /\ RestsOnAuthority(d),
         decisions' = decisions \cup {d},
         UNCHANGED <<orders, authorities, backends, ran>>
  PROVE  Inv'
<1>1. TypeOK'
  BY DEF Inv, TypeOK
<1>2. Genuine' /\ AllSeparate'
  BY DEF Inv, Genuine, AllSeparate
<1>3. AttenuatedFromOrder' /\ SoundLineage'
  BY DEF Inv, AttenuatedFromOrder, SoundLineage
<1>4. DecisionsGrounded'
  BY DEF Inv, DecisionsGrounded, RestsOnAuthority
<1>5. DecisionsAnswer'
  BY DEF Inv, DecisionsAnswer
<1>6. RanAsMinted' /\ RunsCorrespond'
  BY DEF Inv, RanAsMinted, RunsCorrespond
<1> QED
  BY <1>1, <1>2, <1>3, <1>4, <1>5, <1>6 DEF Inv

\* Gate.submit without an Authority keeps the invariant.
LEMMA SubmitStep ==
  ASSUME Inv, NEW i \in Intents, submit(i)
  PROVE  Inv'
<1> DEFINE d == UngroundedDecision(i)
<1>1. evaluate(i).permitted \in BOOLEAN
  BY IntentsAssumption, EvaluateAssumption DEF evaluate
<1>2. d \in DecisionObjects(SignedTexts) /\ verify(d) /\ Answers(d, i)
  BY <1>1, DecisionOfTyped DEF UngroundedDecision
<1>3. RestsOnAuthority(d)
  BY DEF UngroundedDecision, DecisionOf, RestsOnAuthority
<1>4. /\ decisions' = decisions \cup {d}
      /\ separated' = (separated /\ SeparateDecision(d))
      /\ UNCHANGED <<orders, authorities, backends, ran>>
  BY DEF submit
<1> HIDE DEF d
<1> QED
  BY <1>2, <1>3, <1>4, NewDecisionStep

\* Gate.submit under an Authority keeps the invariant.
LEMMA SubmitUnderStep ==
  ASSUME Inv, NEW i \in Intents, NEW a \in PresentedAuthorities, submit_under(i, a)
  PROVE  Inv'
<1> DEFINE d == AuthorizedDecision(i, a)
<1>1. a.authority_id \in AuthorityIds /\ a.order_id \in OrderIds
  BY DEF PresentedAuthorities, AuthorityObjects
<1>2. /\ OrNone(a.authority_id) \in AuthorityIds \cup {None}
      /\ OrNone(a.order_id) \in OrderIds \cup {None}
  BY <1>1 DEF OrNone
<1>3. (evaluate(i).permitted /\ i.kind \in a.allowed_kinds) \in BOOLEAN
  OBVIOUS
<1>4. d \in DecisionObjects(SignedTexts) /\ verify(d) /\ Answers(d, i)
  BY <1>2, <1>3, DecisionOfTyped DEF AuthorizedDecision
<1>5. /\ d.authority_id = OrNone(a.authority_id)
      /\ d.principal_id = i.principal_id
      /\ d.order_id = OrNone(a.order_id)
      /\ d.permitted => d.kind \in a.allowed_kinds
  BY DEF AuthorizedDecision, DecisionOf
<1>6. /\ decisions' = decisions \cup {d}
      /\ separated' = (separated /\ SeparateAuthority(a) /\ SeparateDecision(d))
      /\ UNCHANGED <<orders, authorities, backends, ran>>
      /\ MayExercise(i, a)
  BY DEF submit_under
<1> HIDE DEF d
<1>7. ASSUME separated' PROVE RestsOnAuthority(d)
  <2>1. a \in authorities /\ i.principal_id = a.principal_id
    BY <1>6, <1>7, VerifiedAuthorityMinted DEF MayExercise
  <2>2. OrNone(a.authority_id) = a.authority_id /\ OrNone(a.order_id) = a.order_id
    BY <1>6, <1>7 DEF SeparateAuthority, Separate, OrNone
  <2> QED
    BY <1>5, <2>1, <2>2 DEF RestsOnAuthority
<1> QED
  BY <1>4, <1>6, <1>7, NewDecisionStep

\* Executor.execute keeps the invariant.
LEMMA ExecuteStep ==
  ASSUME Inv, NEW d \in PresentedDecisions, NEW i \in Intents, execute(d, i)
  PROVE  Inv'
<1> DEFINE run == [decision |-> d, intent |-> i]
<1>1. verify(d) /\ d.permitted /\ d.execution_class \in backends
  BY DEF execute, Accepts
<1>2. /\ ran' = Append(ran, run)
      /\ separated' = (separated /\ SeparateDecision(d))
      /\ UNCHANGED <<orders, authorities, decisions, backends>>
  BY DEF execute
<1>3. d \in DecisionObjects(SignedTexts)
  BY TokensTyped DEF Inv, PresentedDecisions, DecisionObjects
<1>4. run \in Runs /\ ran \in Seq(Runs)
  BY <1>3 DEF Inv, TypeOK, Runs
<1>5. separated' => separated /\ d \in decisions
  BY <1>1, <1>2, VerifiedDecisionMinted
<1>6. TypeOK'
  BY <1>2, <1>4 DEF Inv, TypeOK
<1>7. Genuine' /\ AllSeparate'
  BY <1>2, <1>5 DEF Inv, Genuine, AllSeparate
<1>8. AttenuatedFromOrder' /\ SoundLineage'
  BY <1>2, <1>5 DEF Inv, AttenuatedFromOrder, SoundLineage
<1>9. DecisionsGrounded' /\ DecisionsAnswer'
  BY <1>2, <1>5 DEF Inv, DecisionsGrounded, RestsOnAuthority, DecisionsAnswer
<1>10. ASSUME NEW n \in DOMAIN ran'
       PROVE  (n \in DOMAIN ran /\ ran'[n] = ran[n]) \/ ran'[n] = run
  BY <1>2, <1>4
<1>11. run.decision = d /\ run.intent = i
  OBVIOUS
<1> HIDE DEF run
<1>12. RanAsMinted'
  BY <1>1, <1>2, <1>5, <1>10, <1>11 DEF Inv, RanAsMinted
<1>13. /\ Corresponds(d, i)
       /\ ProvenanceHolds(d, i)
       /\ d.execution_class \in NeedsArtifact => i.artifact_code # None
  BY DEF execute, Accepts
<1>14. RunsCorrespond'
  BY <1>10, <1>11, <1>13 DEF Inv, RunsCorrespond
<1> QED
  BY <1>6, <1>7, <1>8, <1>9, <1>12, <1>14 DEF Inv

\* Executor.register_backend keeps the invariant.
LEMMA RegisterBackendStep ==
  ASSUME Inv, NEW class \in Classes, register_backend(class)
  PROVE  Inv'
<1>1. /\ backends' = backends \cup {class}
      /\ UNCHANGED <<orders, authorities, decisions, ran, separated>>
  BY DEF register_backend
<1>2. TypeOK' /\ Genuine' /\ AllSeparate'
  BY <1>1 DEF Inv, TypeOK, Genuine, AllSeparate
<1>3. /\ AttenuatedFromOrder' /\ SoundLineage'
      /\ DecisionsGrounded' /\ DecisionsAnswer'
  BY <1>1 DEF Inv, AttenuatedFromOrder, SoundLineage, DecisionsGrounded, RestsOnAuthority,
              DecisionsAnswer
<1>4. RanAsMinted' /\ RunsCorrespond'
  BY <1>1 DEF Inv, RanAsMinted, RunsCorrespond
<1> QED
  BY <1>2, <1>3, <1>4 DEF Inv

-----------------------------------------------------------------------------
(* The invariant holds, and what follows from it.                          *)

\* The invariant holds of a fresh Gate and Executor.
LEMMA InitInv == Init => Inv
<1> SUFFICES ASSUME Init PROVE Inv
  OBVIOUS
<1>1. TypeOK
  BY DEF Init, TypeOK
<1>2. /\ Genuine /\ AllSeparate /\ AttenuatedFromOrder /\ SoundLineage
      /\ DecisionsGrounded /\ DecisionsAnswer
  BY DEF Init, Genuine, AllSeparate, AttenuatedFromOrder, SoundLineage, DecisionsGrounded,
         DecisionsAnswer
<1>3. RanAsMinted /\ RunsCorrespond
  BY DEF Init, RanAsMinted, RunsCorrespond
<1> QED
  BY <1>1, <1>2, <1>3 DEF Inv

\* Every operation keeps it, and so does a step that changes nothing.
LEMMA NextInv == Inv /\ [Next]_vars => Inv'
<1> SUFFICES ASSUME Inv, [Next]_vars PROVE Inv'
  OBVIOUS
<1>1. ASSUME NEW id \in OrderIds, NEW issuer \in Issuers, NEW kinds \in SUBSET Kinds,
             NEW depth \in Depths, issue_order(id, issuer, kinds, depth)
      PROVE  Inv'
  BY <1>1, IssueOrderStep
<1>2. ASSUME NEW o \in PresentedOrders, grant_root_authority(o) PROVE Inv'
  BY <1>2, GrantRootStep
<1>3. ASSUME NEW p \in PresentedAuthorities, delegate(p) PROVE Inv'
  BY <1>3, DelegateStep
<1>4. ASSUME NEW i \in Intents, submit(i) PROVE Inv'
  BY <1>4, SubmitStep
<1>5. ASSUME NEW i \in Intents, NEW a \in PresentedAuthorities, submit_under(i, a) PROVE Inv'
  BY <1>5, SubmitUnderStep
<1>6. ASSUME NEW d \in PresentedDecisions, NEW i \in Intents, execute(d, i) PROVE Inv'
  BY <1>6, ExecuteStep
<1>7. ASSUME NEW class \in Classes, register_backend(class) PROVE Inv'
  BY <1>7, RegisterBackendStep
<1>8. CASE UNCHANGED vars
  <2>1. TypeOK' /\ Genuine' /\ AllSeparate'
    BY <1>8 DEF vars, Inv, TypeOK, Genuine, AllSeparate, verify_order, verify_authority,
                verify
  <2>2. /\ AttenuatedFromOrder' /\ SoundLineage'
        /\ DecisionsGrounded' /\ DecisionsAnswer'
    BY <1>8 DEF vars, Inv, AttenuatedFromOrder, SoundLineage, DecisionsGrounded,
                RestsOnAuthority, DecisionsAnswer
  <2>3. RanAsMinted' /\ RunsCorrespond'
    BY <1>8 DEF vars, Inv, RanAsMinted, RunsCorrespond
  <2> QED
    BY <2>1, <2>2, <2>3 DEF Inv
<1> QED
  BY <1>1, <1>2, <1>3, <1>4, <1>5, <1>6, <1>7, <1>8 DEF Next

\* The inductive invariant is an invariant.
LEMMA Invariance == Spec => []Inv
BY InitInv, NextInv, PTL DEF Spec

\* Every variable always holds objects of the shape the dataclasses declare, and what
\* Gate signs is a string whatever the fields.
THEOREM TypeCorrectness == Spec => []TypeOK
<1>1. Inv => TypeOK
  BY DEF Inv
<1> QED
  BY <1>1, Invariance, PTL

\* As long as every field keeps to its place in the texts Gate signs, no chain of grants
\* and delegations, of any length and whatever objects callers present to Gate on the
\* way, ever exceeds the Order at its root.
THEOREM Attenuation == Spec => []AttenuatedFromOrder
<1>1. Inv => AttenuatedFromOrder
  BY DEF Inv
<1> QED
  BY <1>1, Invariance, PTL

\* authority_id is unique whatever happens, and while fields keep to their places every
\* Authority's parent_authority_id leads to the minted Authority it came from.
THEOREM Lineage == Spec => []SoundLineage
<1>1. Inv => SoundLineage
  BY DEF Inv
<1> QED
  BY <1>1, Invariance, PTL

\* A backend acts only on a Decision that says yes, and while fields keep to their
\* places only on one Gate minted, unaltered.
THEOREM MintedBeforeRun == Spec => []RanAsMinted
<1>1. Inv => RanAsMinted
  BY DEF Inv
<1> QED
  BY <1>1, Invariance, PTL

\* The code that runs has the digest its Decision names, and while fields keep to their
\* places it is the code that was hashed when Gate decided, for the same intent id, kind
\* and principal, though the Intent is presented a second time.
THEOREM AuthorizedArtifact == Spec => []RanAuthorizedArtifact
<1>1. Inv => RanAuthorizedArtifact
  <2> SUFFICES ASSUME Inv, NEW n \in DOMAIN ran
               PROVE  /\ ran[n].intent.artifact_code # None
                           => ran[n].decision.artifact_digest
                                = digest_of(ran[n].intent.artifact_code)
                      /\ ran[n].decision.execution_class \in NeedsArtifact
                           => ran[n].intent.artifact_code # None
                      /\ separated => \E j \in Intents :
                           /\ j.intent_id = ran[n].intent.intent_id
                           /\ j.kind = ran[n].intent.kind
                           /\ Answers(ran[n].decision, j)
    BY DEF RanAuthorizedArtifact
  <2>1. /\ ran[n].decision.intent_id = ran[n].intent.intent_id
        /\ ran[n].decision.kind = ran[n].intent.kind
    BY DEF Inv, RunsCorrespond, Corresponds
  <2>2. ASSUME separated PROVE \E j \in Intents : Answers(ran[n].decision, j)
    BY <2>2 DEF Inv, RanAsMinted, DecisionsAnswer
  <2> QED
    BY <2>1, <2>2 DEF Inv, RunsCorrespond, ProvenanceHolds, Answers
<1> QED
  BY <1>1, Invariance, PTL

\* While fields keep to their places, what runs under an Authority is of a kind the Order
\* at its root granted, for the principal the Authority names: verification at execution
\* plus the two facts that Decisions rest on Authorities and Authorities on Orders.
THEOREM EndToEnd == Spec => []RanWithinOrder
<1>1. Inv => RanWithinOrder
  <2> SUFFICES ASSUME Inv, separated, NEW n \in DOMAIN ran,
                      ran[n].decision.authority_id # None
               PROVE  \E a \in authorities, o \in orders :
                        /\ a.authority_id = ran[n].decision.authority_id
                        /\ a.principal_id = ran[n].decision.principal_id
                        /\ ran[n].decision.order_id = o.order_id
                        /\ GroundedIn(a, o)
                        /\ ran[n].decision.kind \in a.allowed_kinds
                        /\ ran[n].decision.kind \in o.granted_kinds
    BY DEF RanWithinOrder
  <2>1. ran[n].decision \in decisions /\ ran[n].decision.permitted
    BY DEF Inv, RanAsMinted
  <2>2. PICK a \in authorities :
          /\ a.authority_id = ran[n].decision.authority_id
          /\ a.principal_id = ran[n].decision.principal_id
          /\ a.order_id = ran[n].decision.order_id
          /\ ran[n].decision.kind \in a.allowed_kinds
    BY <2>1 DEF Inv, DecisionsGrounded, RestsOnAuthority
  <2>3. PICK o \in orders : GroundedIn(a, o)
    BY DEF Inv, AttenuatedFromOrder
  <2> QED
    BY <2>2, <2>3 DEF GroundedIn
<1> QED
  BY <1>1, Invariance, PTL
=============================================================================
