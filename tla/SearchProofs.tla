---------------------------- MODULE SearchProofs ----------------------------
(***************************************************************************)
(* Proofs, for every set of memories, workspaces and docs, every ranking   *)
(* and every limit, of the properties of Search.                           *)
(***************************************************************************)
EXTENDS Search, SequenceLemmas

-----------------------------------------------------------------------------
(* Pieces of sequences and ranks in them                                   *)

LEMMA SliceShape ==
    ASSUME NEW S, NEW s \in Seq(S), NEW offset \in Nat, NEW n \in Nat
    PROVE  /\ Slice(s, offset, n) \in Seq(S)
           /\ Len(Slice(s, offset, n)) = IF offset + n < Len(s) THEN n
                                         ELSE IF offset < Len(s) THEN Len(s) - offset ELSE 0
           /\ \A i \in 1 .. Len(Slice(s, offset, n)) :
                 offset + i \in 1 .. Len(s) /\ Slice(s, offset, n)[i] = s[offset + i]
<1>1. PICK last \in Nat : last = IF offset + n < Len(s) THEN offset + n ELSE Len(s)
  BY LenProperties
<1>2. Slice(s, offset, n) = SubSeq(s, offset + 1, last)
  BY <1>1 DEF Slice
<1>3. Len(s) \in Nat /\ last <= Len(s) /\ \A i \in offset + 1 .. last : s[i] \in S
  BY <1>1, LenProperties, ElementOfSeq
<1>4. /\ SubSeq(s, offset + 1, last) \in Seq(S)
      /\ Len(SubSeq(s, offset + 1, last))
            = IF offset + 1 <= last THEN last - (offset + 1) + 1 ELSE 0
      /\ \A i \in 1 .. last - (offset + 1) + 1 :
            SubSeq(s, offset + 1, last)[i] = s[offset + 1 + i - 1]
  BY <1>3, SubSeqProperties
<1>5. PICK t : t = SubSeq(s, offset + 1, last)
  OBVIOUS
<1>6. Len(t) = IF offset < last THEN last - offset ELSE 0
  BY <1>3, <1>4, <1>5
<1>7. \A i \in 1 .. Len(t) : offset + i \in 1 .. Len(s) /\ t[i] = s[offset + i]
  <2> TAKE i \in 1 .. Len(t)
  <2>1. i \in 1 .. last - (offset + 1) + 1 /\ offset + 1 + i - 1 = offset + i
    BY <1>3, <1>6
  <2>2. t[i] = s[offset + i]
    BY <1>4, <1>5, <2>1
  <2>3. QED
    BY <1>3, <1>6, <2>2
<1>8. Len(t) = IF offset + n < Len(s) THEN n ELSE IF offset < Len(s) THEN Len(s) - offset ELSE 0
  BY <1>1, <1>3, <1>6
<1>9. QED
  BY <1>2, <1>4, <1>5, <1>7, <1>8

LEMMA PrefixShape ==
    ASSUME NEW S, NEW s \in Seq(S), NEW n \in Nat
    PROVE  /\ Slice(s, 0, n) \in Seq(S)
           /\ Len(Slice(s, 0, n)) = IF n < Len(s) THEN n ELSE Len(s)
           /\ \A i \in 1 .. Len(Slice(s, 0, n)) : i \in 1 .. Len(s) /\ Slice(s, 0, n)[i] = s[i]
<1>1. Len(s) \in Nat
  BY LenProperties
<1>2. PICK o \in Nat : o = 0
  OBVIOUS
<1>3. PICK t : t = Slice(s, o, n)
  OBVIOUS
<1>4. /\ t \in Seq(S)
      /\ Len(t) = IF o + n < Len(s) THEN n ELSE IF o < Len(s) THEN Len(s) - o ELSE 0
      /\ \A i \in 1 .. Len(t) : o + i \in 1 .. Len(s) /\ t[i] = s[o + i]
  BY <1>3, SliceShape
<1>5. Len(t) = IF n < Len(s) THEN n ELSE Len(s)
  BY <1>1, <1>2, <1>4
<1>6. \A i \in 1 .. Len(t) : o + i = i
  BY <1>2
<1>7. QED
  BY <1>2, <1>3, <1>4, <1>5, <1>6

LEMMA IdsShape ==
    ASSUME NEW S, NEW s \in Seq(S), NEW m
    PROVE  m \in Ids(s) <=> \E i \in 1 .. Len(s) : s[i].id = m
<1>1. DOMAIN s = 1 .. Len(s)
  BY LenProperties
<1>2. QED
  BY <1>1 DEF Ids, ToSet

LEMMA RankShape ==
    ASSUME NEW S, NEW s \in Seq(S), NEW m
    PROVE  /\ RankIn(s, m) = None <=> m \notin Ids(s)
           /\ RankIn(s, m) # None =>
                 RankIn(s, m) \in 1 .. Len(s) /\ s[RankIn(s, m)].id = m
<1>1. DOMAIN s = 1 .. Len(s) /\ Len(s) \in Nat
  BY LenProperties
<1>2. CASE \E i \in DOMAIN s : s[i].id = m
  <2>1. RankIn(s, m) \in DOMAIN s /\ s[RankIn(s, m)].id = m
    BY <1>2 DEF RankIn
  <2>2. RankIn(s, m) # None
    BY <1>1, <2>1, QueryAssumption
  <2>3. QED
    BY <1>1, <1>2, <2>1, <2>2, IdsShape
<1>3. CASE ~\E i \in DOMAIN s : s[i].id = m
  BY <1>1, <1>3, IdsShape DEF RankIn
<1>4. QED
  BY <1>2, <1>3

-----------------------------------------------------------------------------
(* A hit, and what the fusion makes of it                                  *)

(* What a statement of a search has returned.                              *)
Read(s) == s \in Seq(ReadRow) /\ Len(s) <= Window * Limit

LEMMA SizesShape ==
    /\ Limit \in Nat \ {0} /\ Window \in Nat \ {0} /\ K \in Nat \ {0} /\ PageSize \in Nat \ {0}
    /\ Window * Limit \in Nat
<1>1. Limit \in Nat \ {0} /\ Window \in Nat \ {0} /\ K \in Nat \ {0} /\ PageSize \in Nat \ {0}
  BY SizesAssumption
<1>2. QED
  BY <1>1

LEMMA HitShape ==
    ASSUME NEW text, NEW vec, Read(text), Read(vec), NEW m \in Ids(text) \cup Ids(vec)
    PROVE  LET h == Hit(text, vec, m) IN
           /\ h \in HitRow /\ h.id = m /\ h.text = RankIn(text, m) /\ h.vec = RankIn(vec, m)
           /\ h.vec # None => /\ h.vec \in 1 .. Len(vec) /\ vec[h.vec].id = m
                              /\ h.ws = vec[h.vec].ws /\ h.doc = vec[h.vec].doc
                              /\ h.distance = Distance[h.doc]
           /\ h.vec = None => /\ h.text \in 1 .. Len(text) /\ text[h.text].id = m
                              /\ h.ws = text[h.text].ws /\ h.doc = text[h.text].doc
                              /\ h.distance = None
<1> DEFINE a == RankIn(text, m)
           b == RankIn(vec, m)
<1>1. /\ a = None <=> m \notin Ids(text)
      /\ a # None => a \in 1 .. Len(text) /\ text[a].id = m
  BY RankShape DEF Read
<1>2. /\ b = None <=> m \notin Ids(vec)
      /\ b # None => b \in 1 .. Len(vec) /\ vec[b].id = m
  BY RankShape DEF Read
<1>3. Len(text) \in Nat /\ Len(vec) \in Nat /\ Window * Limit \in Nat
  BY LenProperties, SizesShape DEF Read
<1>4. a \in Rank \cup {None} /\ b \in Rank \cup {None}
  BY <1>1, <1>2, <1>3 DEF Rank, Read
<1>5. /\ a # None => text[a] \in ReadRow
      /\ b # None => vec[b] \in ReadRow
  BY <1>1, <1>2, ElementOfSeq DEF Read
<1> HIDE DEF a, b
<1>6. PICK d \in Nat \cup {None} : d = IF b = None THEN None ELSE Distance[vec[b].doc]
  BY <1>5, QueryAssumption DEF ReadRow
<1>7. PICK z \in ReadRow : z = IF b # None THEN vec[b] ELSE text[a]
  BY <1>1, <1>2, <1>5
<1>8. z.id = m
  BY <1>1, <1>2, <1>7
<1>9. Hit(text, vec, m) = [id |-> m, ws |-> z.ws, doc |-> z.doc, text |-> a, vec |-> b, distance |-> d]
  BY <1>6, <1>7 DEF Hit, Shown, a, b
<1>10. m \in MemIds /\ z.ws \in WsIds /\ z.doc \in Docs
  BY <1>8 DEF ReadRow
<1>11. Hit(text, vec, m) \in HitRow
  BY <1>4, <1>6, <1>9, <1>10 DEF HitRow
<1>12. /\ b # None => d = Distance[z.doc] /\ z = vec[b]
       /\ b = None => d = None /\ z = text[a] /\ a # None
  BY <1>1, <1>2, <1>6, <1>7
<1>13. PICK h : h = Hit(text, vec, m)
  OBVIOUS
<1>14. h.id = m /\ h.ws = z.ws /\ h.doc = z.doc /\ h.text = a /\ h.vec = b /\ h.distance = d
  BY <1>9, <1>13
<1>15. /\ h.id = m /\ h.text = RankIn(text, m) /\ h.vec = RankIn(vec, m)
       /\ h.vec # None => /\ h.vec \in 1 .. Len(vec) /\ vec[h.vec].id = m
                          /\ h.ws = vec[h.vec].ws /\ h.doc = vec[h.vec].doc
                          /\ h.distance = Distance[h.doc]
       /\ h.vec = None => /\ h.text \in 1 .. Len(text) /\ text[h.text].id = m
                          /\ h.ws = text[h.text].ws /\ h.doc = text[h.text].doc
                          /\ h.distance = None
  BY <1>1, <1>2, <1>12, <1>14 DEF a, b
<1>16. QED
  BY <1>11, <1>13, <1>15

LEMMA HitsShape ==
    ASSUME NEW text, NEW vec, Read(text), Read(vec), NEW far
    PROVE  /\ Hits(text, vec, far) \subseteq HitRow /\ IsFiniteSet(Hits(text, vec, far))
           /\ \A h \in Hits(text, vec, far) :
                 /\ h.id \in Ids(text) \cup Ids(vec) /\ h = Hit(text, vec, h.id)
                 /\ h.text = None => h.distance <= far
           /\ \A m \in Ids(text) \cup Ids(vec) :
                 LET h == Hit(text, vec, m) IN
                 (h.text = None => h.distance <= far) => h \in Hits(text, vec, far)
<1> DEFINE M == Ids(text) \cup Ids(vec)
           H == {Hit(text, vec, m) : m \in M}
<1>1. \A m \in M : Hit(text, vec, m) \in HitRow /\ Hit(text, vec, m).id = m
  BY HitShape
<1>2. \A s : Read(s) => IsFiniteSet(Ids(s))
  <2> TAKE s
  <2> HAVE Read(s)
  <2>1. DOMAIN s = 1 .. Len(s) /\ Len(s) \in Nat
    BY LenProperties DEF Read
  <2>2. IsFiniteSet(DOMAIN s)
    BY <2>1, FS_Interval
  <2>3. PICK f : f = [i \in DOMAIN s |-> s[i].id]
    OBVIOUS
  <2>4. Ids(s) = {f[i] : i \in DOMAIN s}
    BY <2>3 DEF Ids, ToSet
  <2>5. QED
    BY <2>2, <2>4, FiniteImage
<1>3. IsFiniteSet(M)
  BY <1>2, FS_Union
<1>4. IsFiniteSet(H)
  <2>1. PICK f : f = [m \in M |-> Hit(text, vec, m)]
    OBVIOUS
  <2>2. H = {f[m] : m \in M}
    BY <2>1
  <2>3. QED
    BY <1>3, <2>2, FiniteImage
<1>5. Hits(text, vec, far) \in SUBSET H
  BY DEF Hits
<1>6. IsFiniteSet(Hits(text, vec, far))
  BY <1>4, <1>5, FS_Subset
<1>7. QED
  BY <1>1, <1>5, <1>6 DEF Hits

(* One rank is better than another; or neither has a rank.                 *)
Ahead(a, b) == a # None /\ (b # None => a < b)
Neither(a, b) == a = None /\ b = None

LEMMA Product ==
    ASSUME NEW a \in Nat \ {0}, NEW b \in Nat \ {0}, NEW c \in Nat \ {0}
    PROVE  a * b \in Nat \ {0} /\ (a < c => a * b < c * b /\ b * a < b * c)
  OBVIOUS

LEMMA FractionOne ==
    ASSUME NEW a \in Nat \ {0}, NEW b \in Nat \ {0}, NEW c \in Nat \ {0}, a < b
    PROVE  /\ (1 * 1 + 0 * a) * (b * 1) > (1 * 1 + 0 * b) * (a * 1)
           /\ (0 * a + 1 * 1) * (1 * b) > (0 * b + 1 * 1) * (1 * a)
           /\ (1 * c + 1 * a) * (b * 1) > (1 * 1 + 0 * b) * (a * c)
           /\ (1 * a + 1 * c) * (1 * b) > (0 * b + 1 * 1) * (c * a)
<1>1. a * c < b * c /\ a * b \in Nat \ {0}
  BY Product
<1>2. QED
  BY <1>1

LEMMA FractionTwo ==
    ASSUME NEW a \in Nat \ {0}, NEW b \in Nat \ {0}, NEW c \in Nat \ {0}, NEW d \in Nat \ {0},
           a < b, c < d
    PROVE  (1 * c + 1 * a) * (b * d) > (1 * d + 1 * b) * (a * c)
<1>1. PICK x \in Nat \ {0} : x = c * d
  BY Product
<1>2. PICK y \in Nat \ {0} : y = a * b
  BY Product
<1>3. a * x < b * x /\ c * y < d * y
  BY Product, <1>1, <1>2
<1>4. (1 * c + 1 * a) * (b * d) = b * x + d * y
  BY <1>1, <1>2
<1>5. (1 * d + 1 * b) * (a * c) = a * x + c * y
  BY <1>1, <1>2
<1>6. a * x \in Nat /\ b * x \in Nat /\ c * y \in Nat /\ d * y \in Nat
  BY <1>1, <1>2
<1>7. QED
  BY <1>3, <1>4, <1>5, <1>6

LEMMA ScoreShape ==
    ASSUME NEW h \in HitRow
    PROVE  LET a == K + h.text b == K + h.vec IN
           /\ h.text # None => a \in Nat \ {0}
           /\ h.vec # None => b \in Nat \ {0}
           /\ (h.text # None /\ h.vec # None) => Score(h) = <<1 * b + 1 * a, a * b>>
           /\ (h.text # None /\ h.vec = None) => Score(h) = <<1 * 1 + 0 * a, a * 1>>
           /\ (h.text = None /\ h.vec # None) => Score(h) = <<0 * b + 1 * 1, 1 * b>>
<1>1. h.text \in Rank \cup {None} /\ h.vec \in Rank \cup {None}
  BY DEF HitRow
<1>2. Rank \subseteq Nat \ {0} /\ K \in Nat \ {0}
  BY SizesShape DEF Rank
<1>3. /\ h.text # None => K + h.text \in Nat \ {0}
      /\ h.vec # None => K + h.vec \in Nat \ {0}
  <2>1. \A n \in Nat \ {0} : K + n \in Nat \ {0}
    BY <1>2
  <2>2. /\ h.text # None => h.text \in Nat \ {0}
        /\ h.vec # None => h.vec \in Nat \ {0}
    BY <1>1, <1>2, Zenon
  <2>3. QED
    BY <2>1, <2>2, Zenon
<1>4. PICK x : x = IF h.text = None THEN <<0, 1>> ELSE <<1, K + h.text>>
  OBVIOUS
<1>5. PICK y : y = IF h.vec = None THEN <<0, 1>> ELSE <<1, K + h.vec>>
  OBVIOUS
<1>6. Score(h) = <<x[1] * y[2] + y[1] * x[2], x[2] * y[2]>>
  BY <1>4, <1>5 DEF Score
<1>7. /\ h.text = None => x[1] = 0 /\ x[2] = 1
      /\ h.text # None => x[1] = 1 /\ x[2] = K + h.text
      /\ h.vec = None => y[1] = 0 /\ y[2] = 1
      /\ h.vec # None => y[1] = 1 /\ y[2] = K + h.vec
  BY <1>4, <1>5
<1>8. QED
  BY <1>3, <1>6, <1>7, Zenon

LEMMA AboveShape ==
    ASSUME NEW h, NEW g, NEW n, NEW p, NEW m, NEW q,
           Score(h) = <<n, p>>, Score(g) = <<m, q>>, n * q > m * p
    PROVE  Above(h, g)
<1>1. Score(h)[1] = n /\ Score(h)[2] = p /\ Score(g)[1] = m /\ Score(g)[2] = q
  OBVIOUS
<1>2. QED
  BY <1>1, Zenon DEF Above

(* The fusion puts first what one statement ranks better and the other not *)
(* worse.                                                                  *)
LEMMA ScoreAbove ==
    ASSUME NEW h \in HitRow, NEW g \in HitRow, g.text # None \/ g.vec # None,
           \/ Ahead(h.text, g.text) /\ (Ahead(h.vec, g.vec) \/ Neither(h.vec, g.vec))
           \/ Ahead(h.vec, g.vec) /\ Neither(h.text, g.text)
    PROVE  Above(h, g)
<1> DEFINE a == K + h.text
           b == K + g.text
           c == K + h.vec
           d == K + g.vec
<1>1. /\ h.text # None => a \in Nat \ {0}
      /\ g.text # None => b \in Nat \ {0}
      /\ h.vec # None => c \in Nat \ {0}
      /\ g.vec # None => d \in Nat \ {0}
  BY ScoreShape
<1>2. /\ (h.text # None /\ g.text # None /\ h.text < g.text) => a < b
      /\ (h.vec # None /\ g.vec # None /\ h.vec < g.vec) => c < d
  <2>1. /\ h.text # None => h.text \in Nat
        /\ g.text # None => g.text \in Nat
        /\ h.vec # None => h.vec \in Nat
        /\ g.vec # None => g.vec \in Nat
    BY DEF HitRow, Rank
  <2>2. QED
    BY <2>1, SizesShape
<1> HIDE DEF a, b, c, d
<1>3. /\ (h.text # None /\ h.vec # None) => Score(h) = <<1 * c + 1 * a, a * c>>
      /\ (h.text # None /\ h.vec = None) => Score(h) = <<1 * 1 + 0 * a, a * 1>>
      /\ (h.text = None /\ h.vec # None) => Score(h) = <<0 * c + 1 * 1, 1 * c>>
  BY ScoreShape DEF a, c
<1>4. /\ (g.text # None /\ g.vec # None) => Score(g) = <<1 * d + 1 * b, b * d>>
      /\ (g.text # None /\ g.vec = None) => Score(g) = <<1 * 1 + 0 * b, b * 1>>
      /\ (g.text = None /\ g.vec # None) => Score(g) = <<0 * d + 1 * 1, 1 * d>>
  BY ScoreShape DEF b, d
<1>5. CASE h.text # None /\ g.text # None /\ a < b /\ h.vec # None /\ g.vec # None /\ c < d
  <2>1. Score(h) = <<1 * c + 1 * a, a * c>> /\ Score(g) = <<1 * d + 1 * b, b * d>>
    BY <1>3, <1>4, <1>5
  <2>2. (1 * c + 1 * a) * (b * d) > (1 * d + 1 * b) * (a * c)
    BY <1>1, <1>5, FractionTwo
  <2>3. QED
    BY <2>1, <2>2, AboveShape
<1>6. CASE h.text # None /\ g.text # None /\ a < b /\ h.vec # None /\ g.vec = None
  <2>1. Score(h) = <<1 * c + 1 * a, a * c>> /\ Score(g) = <<1 * 1 + 0 * b, b * 1>>
    BY <1>3, <1>4, <1>6
  <2>2. (1 * c + 1 * a) * (b * 1) > (1 * 1 + 0 * b) * (a * c)
    BY <1>1, <1>6, FractionOne
  <2>3. QED
    BY <2>1, <2>2, AboveShape
<1>7. CASE h.text # None /\ g.text # None /\ a < b /\ h.vec = None /\ g.vec = None
  <2>1. Score(h) = <<1 * 1 + 0 * a, a * 1>> /\ Score(g) = <<1 * 1 + 0 * b, b * 1>>
    BY <1>3, <1>4, <1>7
  <2>2. (1 * 1 + 0 * a) * (b * 1) > (1 * 1 + 0 * b) * (a * 1)
    BY <1>1, <1>7, FractionOne
  <2>3. QED
    BY <2>1, <2>2, AboveShape
<1>8. CASE h.text # None /\ g.text = None /\ h.vec # None /\ g.vec # None /\ c < d
  <2>1. Score(h) = <<1 * c + 1 * a, a * c>> /\ Score(g) = <<0 * d + 1 * 1, 1 * d>>
    BY <1>3, <1>4, <1>8
  <2>2. (1 * c + 1 * a) * (1 * d) > (0 * d + 1 * 1) * (a * c)
    BY <1>1, <1>8, FractionOne
  <2>3. QED
    BY <2>1, <2>2, AboveShape
<1>9. CASE h.text = None /\ g.text = None /\ h.vec # None /\ g.vec # None /\ c < d
  <2>1. Score(h) = <<0 * c + 1 * 1, 1 * c>> /\ Score(g) = <<0 * d + 1 * 1, 1 * d>>
    BY <1>3, <1>4, <1>9
  <2>2. (0 * c + 1 * 1) * (1 * d) > (0 * d + 1 * 1) * (1 * c)
    BY <1>1, <1>9, FractionOne
  <2>3. QED
    BY <2>1, <2>2, AboveShape
<1>10. QED
  BY <1>2, <1>5, <1>6, <1>7, <1>8, <1>9 DEF Ahead, Neither

BeatsIn(text, vec, m, x) ==
    \/ /\ Ahead(RankIn(text, m), RankIn(text, x))
       /\ Ahead(RankIn(vec, m), RankIn(vec, x)) \/ Neither(RankIn(vec, m), RankIn(vec, x))
    \/ /\ Ahead(RankIn(vec, m), RankIn(vec, x))
       /\ Neither(RankIn(text, m), RankIn(text, x))

(* What is first in the fusion, for whatever the two statements returned.  *)
LEMMA FusionShape ==
    ASSUME NEW text, NEW vec, Read(text), Read(vec), NEW far \in Nat,
           \A i, j \in 1 .. Len(vec) : i < j => ~(Distance[vec[j].doc] < Distance[vec[i].doc]),
           NEW r \in Seq(HitRow), ToSet(r) = Hits(text, vec, far),
           \A i, j \in 1 .. Len(r) : i < j => ~Above(r[j], r[i])
    PROVE  \A i \in 1 .. Len(r), m \in MemIds :
              BeatsIn(text, vec, m, r[i].id) => \E j \in 1 .. i - 1 : r[j].id = m
<1> SUFFICES ASSUME NEW i \in 1 .. Len(r), NEW m \in MemIds, BeatsIn(text, vec, m, r[i].id)
             PROVE  \E j \in 1 .. i - 1 : r[j].id = m
  OBVIOUS
<1>1. DOMAIN r = 1 .. Len(r) /\ Len(r) \in Nat
  BY LenProperties
<1>2. PICK g \in Hits(text, vec, far) : g = r[i]
  BY <1>1 DEF ToSet
<1>3. /\ g.id \in Ids(text) \cup Ids(vec) /\ g \in HitRow /\ g = Hit(text, vec, g.id)
      /\ g.text = None => g.distance <= far
  BY HitsShape
<1>4. /\ g.text = RankIn(text, g.id) /\ g.vec = RankIn(vec, g.id)
      /\ g.vec # None => /\ g.vec \in 1 .. Len(vec)
                         /\ g.doc = vec[g.vec].doc /\ g.distance = Distance[g.doc]
      /\ g.vec = None => g.text \in 1 .. Len(text)
  BY <1>3, HitShape
<1>5. m \in Ids(text) \cup Ids(vec)
  <2>1. RankIn(text, m) # None \/ RankIn(vec, m) # None
    BY DEF BeatsIn, Ahead
  <2>2. QED
    BY <2>1, RankShape DEF Read
<1>6. PICK h \in HitRow : h = Hit(text, vec, m)
  BY <1>5, HitShape
<1>7. /\ h.id = m /\ h.text = RankIn(text, m) /\ h.vec = RankIn(vec, m)
      /\ h.vec # None => /\ h.vec \in 1 .. Len(vec)
                         /\ h.doc = vec[h.vec].doc /\ h.distance = Distance[h.doc]
  BY <1>5, <1>6, HitShape
<1>8. \/ Ahead(h.text, g.text) /\ (Ahead(h.vec, g.vec) \/ Neither(h.vec, g.vec))
      \/ Ahead(h.vec, g.vec) /\ Neither(h.text, g.text)
  BY <1>2, <1>4, <1>7 DEF BeatsIn
<1>9. g.text # None \/ g.vec # None
  <2>1. \A n \in Nat : n # None
    BY QueryAssumption
  <2>2. Len(text) \in Nat
    BY LenProperties DEF Read
  <2>3. QED
    BY <1>4, <2>1, <2>2
<1>10. Above(h, g)
  BY <1>3, <1>8, <1>9, ScoreAbove
<1>11. h \in Hits(text, vec, far)
  <2>1. CASE h.text # None
    BY <1>5, <1>6, <2>1, HitsShape
  <2>2. CASE h.text = None
    <3>1. g.text = None /\ h.vec # None /\ g.vec # None /\ h.vec < g.vec
      BY <1>8, <1>9, <2>2 DEF Ahead, Neither
    <3>2. /\ h.vec \in 1 .. Len(vec) /\ g.vec \in 1 .. Len(vec)
          /\ h.distance = Distance[vec[h.vec].doc] /\ g.distance = Distance[vec[g.vec].doc]
      BY <1>4, <1>7, <3>1
    <3>3. h.distance \in Nat /\ g.distance \in Nat
      <4>1. h.doc \in Docs /\ g.doc \in Docs
        BY <1>3 DEF HitRow
      <4>2. QED
        BY <1>4, <1>7, <3>1, <4>1, QueryAssumption
    <3>4. ~(g.distance < h.distance)
      <4>1. PICK a \in 1 .. Len(vec), b \in 1 .. Len(vec) : a = h.vec /\ b = g.vec
        BY <3>2
      <4>2. a < b
        BY <3>1, <4>1
      <4>3. ~(Distance[vec[b].doc] < Distance[vec[a].doc])
        BY <4>2
      <4>4. QED
        BY <3>2, <4>1, <4>3
    <3>5. h.distance <= far
      BY <1>3, <3>1, <3>3, <3>4
    <3>6. QED
      BY <1>5, <1>6, <3>5, HitsShape
  <2>3. QED
    BY <2>1, <2>2
<1>12. PICK j \in 1 .. Len(r) : r[j] = h
  BY <1>1, <1>11 DEF ToSet
<1>13. ~(i < j)
  BY <1>2, <1>10, <1>12
<1>14. i # j
  <2>1. ~Above(h, h)
    <3>1. PICK n, p : Score(h) = <<n, p>> /\ n \in Nat /\ p \in Nat
      <4>1. h.text # None \/ h.vec # None
        BY <1>8 DEF Ahead
      <4>2. QED
        BY <4>1, ScoreShape
    <3>2. n * p \in Nat
      BY <3>1
    <3>3. QED
      BY <3>1, <3>2 DEF Above
  <2>2. QED
    BY <1>2, <1>10, <1>12, <2>1
<1>15. j \in 1 .. i - 1
  BY <1>1, <1>13, <1>14
<1>16. QED
  BY <1>7, <1>12, <1>15

-----------------------------------------------------------------------------
(* What a statement of the reader does                                     *)

RowsFinite == IsFiniteSet(Live)

LEMMA SearchShape ==
    ASSUME TypeOK, request # Idle, request.op \in Searches
    PROVE  request \in SearchRequest
  BY DEF TypeOK, SearchRequest, TagRequest, ListRequest, Searches

LEMMA WantedShape ==
    ASSUME TypeOK, RowsFinite, request \in SearchRequest
    PROVE  /\ Wanted \subseteq ReadRow /\ IsFiniteSet(Wanted)
           /\ \A x \in Wanted : /\ x.id \in Live /\ x.ws \in request.access
                                /\ memory[x.id].at \in request.period
<1> DEFINE M == {x \in In(request.access) : memory[x].at \in request.period}
           row(m) == [id |-> m, ws |-> memory[m].ws, doc |-> memory[m].doc]
<1>1. M \in SUBSET Live
  BY DEF In
<1>2. IsFiniteSet(M)
  BY <1>1, FS_Subset DEF RowsFinite
<1>3. PICK f : f = [m \in M |-> row(m)]
  OBVIOUS
<1>4. Wanted = {f[m] : m \in M}
  BY <1>3 DEF Wanted
<1>5. ASSUME NEW m \in M PROVE /\ f[m] \in ReadRow /\ f[m].id = m /\ f[m].ws = memory[m].ws
  <2>1. memory[m] \in MemoryRow
    BY <1>1 DEF TypeOK, Live
  <2>2. f[m] = row(m) /\ m \in MemIds
    BY <1>1, <1>3 DEF Live
  <2>3. QED
    BY <2>1, <2>2 DEF MemoryRow, ReadRow
<1>6. IsFiniteSet(Wanted)
  BY <1>2, <1>4, FiniteImage
<1>7. ASSUME NEW x \in Wanted
      PROVE  x \in ReadRow /\ x.id \in Live /\ x.ws \in request.access /\ memory[x.id].at \in request.period
  <2>1. PICK m \in M : x = f[m]
    BY <1>4
  <2>2. QED
    BY <1>1, <1>5, <2>1 DEF In
<1>8. QED
  BY <1>6, <1>7

LEMMA TextMoves ==
    ASSUME TypeOK, RowsFinite, TextSearch
    PROVE  /\ request \in SearchRequest /\ request.step = "text"
           /\ \E text \in Seq(Wanted) :
                 /\ Read(text) /\ ToSet(text) \subseteq Wanted
                 /\ request' = [request EXCEPT !.text = text, !.step = "vec"]
<1>1. request \in SearchRequest /\ request.step = "text"
  BY SearchShape DEF TextSearch, AtStep
<1> DEFINE W == {x \in Wanted : TextRank[x.doc] > 0}
<1>2. PICK s \in SetToSeqs(W) :
         request' = [request EXCEPT !.text = Slice(s, 0, Window * Limit), !.step = "vec"]
  BY DEF TextSearch, Orderings
<1>3. IsFiniteSet(W) /\ W \in SUBSET Wanted
  BY <1>1, WantedShape, FS_Subset
<1> HIDE DEF W
<1>4. s \in Seq(W)
  BY <1>3, OrderOfSet
<1>5. s \in Seq(Wanted)
  BY <1>3, <1>4, SeqMonotonic
<1>6. PICK text : text = Slice(s, 0, Window * Limit)
  OBVIOUS
<1>7. text \in Seq(Wanted) /\ Len(text) <= Window * Limit
  <2>1. PICK n \in Nat : n = Window * Limit
    BY SizesShape
  <2>2. Len(s) \in Nat
    BY <1>5, LenProperties
  <2>3. text \in Seq(Wanted) /\ Len(text) = IF n < Len(s) THEN n ELSE Len(s)
    BY <1>5, <1>6, <2>1, PrefixShape
  <2>4. Len(text) <= n
    BY <2>1, <2>2, <2>3
  <2>5. QED
    BY <2>1, <2>3, <2>4
<1>8. text \in Seq(ReadRow) /\ ToSet(text) \subseteq Wanted
  BY <1>1, <1>7, WantedShape, SeqMonotonic, ToSetShape
<1>9. QED
  BY <1>1, <1>2, <1>6, <1>7, <1>8 DEF Read

LEMMA VectorMoves ==
    ASSUME TypeOK, RowsFinite, VectorSearch, Read(request.text)
    PROVE  /\ request \in SearchRequest /\ request.step = "vec"
           /\ \E vec \in Seq(Wanted), r \in Seq(HitRow) :
                 /\ Read(vec) /\ ToSet(vec) \subseteq Wanted
                 /\ \A i, j \in 1 .. Len(vec) :
                       i < j => ~(Distance[vec[j].doc] < Distance[vec[i].doc])
                 /\ ToSet(r) = Hits(request.text, vec, MaxDistance[request.op])
                 /\ \A i, j \in 1 .. Len(r) : i < j => ~Above(r[j], r[i])
                 /\ request' = [request EXCEPT !.vec = vec, !.answer = Top(r), !.step = "enrich"]
<1>1. request \in SearchRequest /\ request.step = "vec"
  BY SearchShape DEF VectorSearch, AtStep
<1>2. PICK s \in SetToSeqs(Wanted) :
         /\ \A i, j \in DOMAIN s : i < j => ~(Distance[s[j].doc] < Distance[s[i].doc])
         /\ \E r \in SetToSeqs(Hits(request.text, Slice(s, 0, Window * Limit), MaxDistance[request.op])) :
               /\ \A i, j \in DOMAIN r : i < j => ~Above(r[j], r[i])
               /\ request' = [request EXCEPT !.vec = Slice(s, 0, Window * Limit),
                                !.answer = Top(r), !.step = "enrich"]
  BY DEF VectorSearch, Orderings
<1>3. s \in Seq(Wanted) /\ DOMAIN s = 1 .. Len(s) /\ Len(s) \in Nat
  BY <1>1, WantedShape, OrderOfSet, LenProperties
<1>4. PICK vec : vec = Slice(s, 0, Window * Limit)
  OBVIOUS
<1>5. /\ vec \in Seq(Wanted) /\ Len(vec) <= Window * Limit
      /\ \A i \in 1 .. Len(vec) : i \in 1 .. Len(s) /\ vec[i] = s[i]
  <2>1. PICK n \in Nat : n = Window * Limit
    BY SizesShape
  <2>2. /\ vec \in Seq(Wanted)
        /\ Len(vec) = IF n < Len(s) THEN n ELSE Len(s)
        /\ \A i \in 1 .. Len(vec) : i \in 1 .. Len(s) /\ vec[i] = s[i]
    BY <1>3, <1>4, <2>1, PrefixShape
  <2>3. Len(vec) <= n
    BY <1>3, <2>1, <2>2
  <2>4. QED
    BY <2>1, <2>2, <2>3
<1>6. vec \in Seq(ReadRow) /\ ToSet(vec) \subseteq Wanted
  BY <1>1, <1>5, WantedShape, SeqMonotonic, ToSetShape
<1>7. \A i, j \in 1 .. Len(vec) : i < j => ~(Distance[vec[j].doc] < Distance[vec[i].doc])
  BY <1>2, <1>3, <1>5
<1>8. PICK H : H = Hits(request.text, vec, MaxDistance[request.op])
  OBVIOUS
<1>9. PICK r \in SetToSeqs(H) :
         /\ \A i, j \in DOMAIN r : i < j => ~Above(r[j], r[i])
         /\ request' = [request EXCEPT !.vec = vec, !.answer = Top(r), !.step = "enrich"]
  BY <1>2, <1>4, <1>8
<1>10. H \subseteq HitRow /\ IsFiniteSet(H)
  BY <1>5, <1>6, <1>8, HitsShape DEF Read
<1>11. r \in Seq(H) /\ ToSet(r) = H
  BY <1>9, <1>10, OrderOfSet
<1>12. r \in Seq(HitRow) /\ DOMAIN r = 1 .. Len(r)
  BY <1>10, <1>11, SeqMonotonic, LenProperties
<1>13. QED
  BY <1>1, <1>5, <1>6, <1>7, <1>8, <1>9, <1>11, <1>12 DEF Read

LEMMA DatesMove ==
    ASSUME TypeOK, request # Idle, request.op \in Searches, request' = WithDates
    PROVE  /\ request' \in SearchRequest
           /\ request'.op = request.op /\ request'.step = "done"
           /\ request'.text = <<>> /\ request'.vec = <<>>
           /\ request'.answer = request.answer /\ request'.period = request.period
           /\ DOMAIN request.answer = 1 .. Len(request.answer)
           /\ \A i \in 1 .. Len(request.answer) :
                 request'.dates[i] = IF request.answer[i].id \in Live
                                     THEN memory[request.answer[i].id].at ELSE None
<1> DEFINE n == Len(request.answer)
           date(m) == IF m \in Live THEN memory[m].at ELSE None
<1>1. request \in SearchRequest
  BY SearchShape
<1>2. DOMAIN request.answer = 1 .. n /\ n \in Nat
  BY <1>1, LenProperties DEF SearchRequest
<1>3. \A m : date(m) \in Times \cup {None}
  BY DEF Live, TypeOK, MemoryRow
<1>4. PICK d : d = [i \in 1 .. n |-> date(request.answer[i].id)]
  OBVIOUS
<1>5. d \in Seq(Times \cup {None})
  BY <1>2, <1>3, <1>4, SeqDef
<1>6. request' = [request EXCEPT !.step = "done", !.text = <<>>, !.vec = <<>>, !.dates = d]
  BY <1>2, <1>4 DEF WithDates
<1>7. PICK e \in Seq(ReadRow) : e = <<>>
  BY EmptySeq
<1>8. PICK q \in SearchRequest : q = request
  BY <1>1
<1>9. request' = [q EXCEPT !.step = "done", !.text = e, !.vec = e, !.dates = d]
  BY <1>6, <1>7, <1>8
<1>10. /\ request' \in SearchRequest
       /\ request'.op = q.op /\ request'.step = "done"
       /\ request'.text = e /\ request'.vec = e
       /\ request'.answer = q.answer /\ request'.period = q.period /\ request'.dates = d
  BY <1>5, <1>9 DEF SearchRequest
<1>11. \A i \in 1 .. n : d[i] = date(request.answer[i].id)
  BY <1>4
<1>12. QED
  BY <1>2, <1>7, <1>8, <1>10, <1>11

(* A writer changes one row; the reader knows nothing of a new one.        *)
LEMMA WriterMoves ==
    ASSUME TypeOK, NEW m \in MemIds, Store(m) \/ Update(m) \/ Move(m) \/ Delete(m)
    PROVE  /\ Witness
           /\ \E row \in MemoryRow \cup {None} :
                 /\ memory' = [memory EXCEPT ![m] = row]
                 /\ m \in Live => row = None \/ row.at = memory[m].at
                 /\ m \notin Live => m \notin Known
<1>1. CASE Store(m)
  BY <1>1 DEF Store
<1>2. CASE Update(m)
  <2>1. PICK d \in Docs : memory' = [memory EXCEPT ![m].doc = d]
    BY <1>2 DEF Update
  <2>2. memory[m] \in MemoryRow /\ m \in Live
    BY <1>2 DEF Update, Live, TypeOK
  <2>3. PICK row \in MemoryRow : row = [memory[m] EXCEPT !.doc = d] /\ row.at = memory[m].at
    <3>1. PICK old \in MemoryRow : old = memory[m]
      BY <2>2
    <3>2. [old EXCEPT !.doc = d] \in MemoryRow /\ [old EXCEPT !.doc = d].at = old.at
      BY DEF MemoryRow
    <3>3. QED
      BY <3>1, <3>2
  <2>4. memory' = [memory EXCEPT ![m] = row]
    BY <2>1, <2>3 DEF TypeOK
  <2>5. QED
    BY <1>2, <2>2, <2>3, <2>4 DEF Update
<1>3. CASE Move(m)
  <2>1. PICK w \in WsIds : memory' = [memory EXCEPT ![m].ws = w]
    BY <1>3 DEF Move
  <2>2. memory[m] \in MemoryRow /\ m \in Live
    BY <1>3 DEF Move, Live, TypeOK
  <2>3. PICK row \in MemoryRow : row = [memory[m] EXCEPT !.ws = w] /\ row.at = memory[m].at
    <3>1. PICK old \in MemoryRow : old = memory[m]
      BY <2>2
    <3>2. [old EXCEPT !.ws = w] \in MemoryRow /\ [old EXCEPT !.ws = w].at = old.at
      BY DEF MemoryRow
    <3>3. QED
      BY <3>1, <3>2
  <2>4. memory' = [memory EXCEPT ![m] = row]
    BY <2>1, <2>3 DEF TypeOK
  <2>5. QED
    BY <1>3, <2>2, <2>3, <2>4 DEF Move
<1>4. CASE Delete(m)
  BY <1>4 DEF Delete
<1>5. QED
  BY <1>1, <1>2, <1>3, <1>4

LEMMA RowsMove ==
    ASSUME TypeOK, [Next]_vars
    PROVE  \/ UNCHANGED memory
           \/ \E m \in MemIds, row \in MemoryRow \cup {None} :
                 /\ Witness
                 /\ memory' = [memory EXCEPT ![m] = row]
                 /\ m \in Live => row = None \/ row.at = memory[m].at
                 /\ m \notin Live => m \notin Known
<1>1. CASE \E m \in MemIds : Store(m) \/ Update(m) \/ Move(m) \/ Delete(m)
  BY <1>1, WriterMoves
<1>2. CASE ~\E m \in MemIds : Store(m) \/ Update(m) \/ Move(m) \/ Delete(m)
  BY <1>2 DEF Next, vars, SearchBegin, TextSearch, VectorSearch, Enrich, EnrichOrFail,
     TagSearchBegin, TagSearch, ListBegin, ListRows, ListNext, Answered
<1>3. QED
  BY <1>1, <1>2

(* The search goes on, or somebody writes.                                 *)
LEMMA SearchMoves ==
    ASSUME TypeOK, [Next]_vars, request' # Idle, request'.op \in Searches
    PROVE  \/ SearchBegin \/ TextSearch \/ VectorSearch
           \/ /\ AtStep(Searches, "enrich") /\ request' = WithDates /\ UNCHANGED memory
              /\ request.op # "retrieve" => Ids(request.answer) \subseteq Live
           \/ UNCHANGED request
<1>1. CASE Enrich \/ EnrichOrFail
  BY <1>1 DEF Enrich, EnrichOrFail, AtStep, Finish, Searches
<1>2. CASE \E m \in MemIds : Store(m) \/ Update(m) \/ Move(m) \/ Delete(m)
  <2>1. Witness
    BY <1>2 DEF Store, Update, Move, Delete
  <2>2. CASE request = Idle \/ request.op # "list"
    BY <2>1, <2>2 DEF Witness
  <2>3. CASE request # Idle /\ request.op = "list"
    <3>1. request \in ListRequest
      BY <2>3 DEF TypeOK, SearchRequest, TagRequest, Searches
    <3>2. PICK after, tied : request' = Seen(request, In(request.access), after, tied)
      BY <2>1, <2>3 DEF Witness
    <3>3. request'.op = "list"
      BY <3>1, <3>2 DEF Seen, ListRequest
    <3>4. QED
      BY <3>3 DEF Searches
  <2>4. QED
    BY <2>2, <2>3
<1>3. CASE TagSearchBegin \/ ListBegin \/ Answered
  BY <1>3 DEF TagSearchBegin, ListBegin, Answered, Finish, Searches
<1>4. CASE TagSearch
  <2>1. request \in TagRequest
    BY <1>4 DEF TagSearch, AtStep, TypeOK, SearchRequest, ListRequest, Searches
  <2>2. request'.op = request.op
    BY <1>4, <2>1 DEF TagSearch, TagRequest
  <2>3. QED
    BY <2>1, <2>2 DEF TagRequest, Searches
<1>5. CASE ListRows \/ ListNext
  <2>1. request \in ListRequest
    BY <1>5 DEF ListRows, ListNext, AtStep, TypeOK, SearchRequest, TagRequest, Searches
  <2>2. request'.op = request.op
    BY <1>5, <2>1 DEF ListRows, ListNext, ListRequest, Seen
  <2>3. QED
    BY <2>1, <2>2 DEF ListRequest, Searches
<1>6. QED
  BY <1>1, <1>2, <1>3, <1>4, <1>5 DEF Next, vars

(* A memory keeps its time as long as it is there.                         *)
LEMMA TimesStay ==
    ASSUME TypeOK, [Next]_vars
    PROVE  \A x \in MemIds : (x \in Live /\ x \in Live') => memory'[x].at = memory[x].at
<1>1. CASE UNCHANGED memory
  BY <1>1
<1>2. CASE \E m \in MemIds, row \in MemoryRow \cup {None} :
              /\ memory' = [memory EXCEPT ![m] = row]
              /\ m \in Live => row = None \/ row.at = memory[m].at
  BY <1>2 DEF Live, TypeOK
<1>3. QED
  BY <1>1, <1>2, RowsMove

LEMMA RowsInductive ==
    ASSUME TypeOK, RowsFinite, [Next]_vars
    PROVE  RowsFinite' /\ memory' \in [MemIds -> MemoryRow \cup {None}]
<1>1. CASE UNCHANGED memory
  BY <1>1 DEF RowsFinite, Live, TypeOK
<1>2. CASE \E m \in MemIds, row \in MemoryRow \cup {None} : memory' = [memory EXCEPT ![m] = row]
  <2>1. PICK m \in MemIds, row \in MemoryRow \cup {None} : memory' = [memory EXCEPT ![m] = row]
    BY <1>2
  <2>2. memory' \in [MemIds -> MemoryRow \cup {None}]
    BY <2>1 DEF TypeOK
  <2>3. IsFiniteSet(Live \cup {m})
    BY FS_AddElement DEF RowsFinite
  <2>4. Live' \in SUBSET (Live \cup {m})
    BY <2>1 DEF Live, TypeOK
  <2>5. IsFiniteSet(Live')
    BY <2>3, <2>4, FS_Subset
  <2>6. QED
    BY <2>2, <2>5 DEF RowsFinite
<1>3. QED
  BY <1>1, <1>2, RowsMove

(* The other requests of the reader.                                       *)
LEMMA TagShape ==
    ASSUME TypeOK, request # Idle, request.op = "tags"
    PROVE  request \in TagRequest
  BY DEF TypeOK, SearchRequest, ListRequest, Searches

LEMMA ListShape ==
    ASSUME TypeOK, request # Idle, request.op = "list"
    PROVE  request \in ListRequest
  BY DEF TypeOK, SearchRequest, TagRequest, Searches

LEMMA SeenShape ==
    ASSUME NEW q \in ListRequest, NEW before, NEW after, NEW tied \in BOOLEAN
    PROVE  LET p == Seen(q, before, after, tied) IN
           /\ p \in ListRequest /\ p.page = q.page /\ p.access = q.access /\ p.shown = q.shown
           /\ p.step = q.step /\ p.stayed = q.stayed \cap after
           /\ p.shrunk = (q.shrunk \/ ~(before \subseteq after))
           /\ p.tied = (q.tied \/ tied)
<1>1. PICK S \in SUBSET MemIds : S = q.stayed \cap after
  BY DEF ListRequest
<1>2. PICK b \in BOOLEAN : b = (q.shrunk \/ ~(before \subseteq after))
  BY DEF ListRequest
<1>3. PICK t \in BOOLEAN : t = (q.tied \/ tied)
  BY DEF ListRequest
<1>4. Seen(q, before, after, tied) = [q EXCEPT !.stayed = S, !.shrunk = b, !.tied = t]
  BY <1>1, <1>2, <1>3 DEF Seen
<1>5. [q EXCEPT !.stayed = S, !.shrunk = b, !.tied = t] \in ListRequest
  BY DEF ListRequest
<1>6. PICK p : p = [q EXCEPT !.stayed = S, !.shrunk = b, !.tied = t]
  OBVIOUS
<1>7. /\ p.page = q.page /\ p.access = q.access /\ p.shown = q.shown
      /\ p.step = q.step /\ p.stayed = S /\ p.shrunk = b /\ p.tied = t
  BY <1>6 DEF ListRequest
<1>8. QED
  BY <1>1, <1>2, <1>3, <1>4, <1>5, <1>6, <1>7, Zenon

LEMMA RowsMoves ==
    ASSUME TypeOK, RowsFinite, ListRows, request.page \in Nat \ {0}
    PROVE  /\ request \in ListRequest /\ request.step = "rows" /\ UNCHANGED memory
           /\ request' \in ListRequest /\ request'.page = request.page + 1
           /\ request'.access = request.access /\ request'.stayed = request.stayed
           /\ request'.shrunk = request.shrunk /\ request'.tied = request.tied
           /\ \E s \in SetToSeqs(In(request.access)) :
                 /\ \A i, j \in DOMAIN s : i < j => ~(memory[s[j]].at > memory[s[i]].at)
                 /\ LET page == Slice(s, Offset(request.page), PageSize) IN
                    /\ request'.shown = request.shown \cup ToSet(page)
                    /\ request'.step = IF Len(page) < PageSize THEN "done" ELSE "next"
<1>1. request \in ListRequest /\ request.step = "rows" /\ UNCHANGED memory
  BY ListShape DEF ListRows, AtStep
<1>2. PICK s \in SetToSeqs(In(request.access)) :
         /\ \A i, j \in DOMAIN s : i < j => ~(memory[s[j]].at > memory[s[i]].at)
         /\ request' = [request EXCEPT
               !.shown = request.shown \cup ToSet(Slice(s, Offset(request.page), PageSize)),
               !.page = request.page + 1,
               !.step = IF Len(Slice(s, Offset(request.page), PageSize)) < PageSize
                        THEN "done" ELSE "next"]
  BY DEF ListRows, Orderings
<1>3. In(request.access) \in SUBSET Live
  BY DEF In
<1>4. s \in Seq(In(request.access))
  BY <1>3, OrderOfSet, FS_Subset DEF RowsFinite
<1>5. PICK page : page = Slice(s, Offset(request.page), PageSize)
  OBVIOUS
<1>6. Offset(request.page) \in Nat /\ PageSize \in Nat
  BY SizesShape DEF Offset
<1>7. page \in Seq(In(request.access))
  BY <1>4, <1>5, <1>6, SliceShape
<1>8. ToSet(page) \subseteq MemIds
  BY <1>3, <1>7, ToSetShape DEF Live
<1>9. PICK shown \in SUBSET MemIds : shown = request.shown \cup ToSet(page)
  BY <1>1, <1>8 DEF ListRequest
<1>10. PICK n \in Nat : n = request.page + 1
  OBVIOUS
<1>11. PICK step \in {"done", "next"} : step = IF Len(page) < PageSize THEN "done" ELSE "next"
  OBVIOUS
<1>12. PICK q \in ListRequest : q = request
  BY <1>1
<1>13. request' = [q EXCEPT !.shown = shown, !.page = n, !.step = step]
  BY <1>2, <1>5, <1>9, <1>10, <1>11, <1>12
<1>14. /\ request' \in ListRequest /\ request'.page = n /\ request'.access = q.access
       /\ request'.stayed = q.stayed /\ request'.shrunk = q.shrunk /\ request'.tied = q.tied
       /\ request'.shown = shown /\ request'.step = step
  BY <1>13 DEF ListRequest
<1>15. QED
  BY <1>1, <1>2, <1>5, <1>9, <1>10, <1>11, <1>12, <1>14

(* The list as it is in some rows, and whether two of it have one time.    *)
Listed(rows, access) == {m \in MemIds : rows[m] # None /\ rows[m].ws \in access}
TiedIn(rows, list) == \E m, x \in list : m # x /\ rows[m].at = rows[x].at

LEMMA ListedIsIn ==
    ASSUME NEW access
    PROVE  In(access) = Listed(memory, access) /\ Tied(In(access)) = TiedIn(memory, In(access))
  BY DEF In, Live, Listed, Tied, TiedIn

LEMMA PagesMove ==
    ASSUME TypeOK, [Next]_vars, request' # Idle, request'.op = "list"
    PROVE  \/ ListBegin
           \/ ListRows
           \/ UNCHANGED <<memory, request>>
           \/ LET before == Listed(memory, request.access)
                  after == Listed(memory', request'.access)
              IN  /\ request \in ListRequest /\ request' \in ListRequest
                  /\ request'.page = request.page /\ request'.shown = request.shown
                  /\ \/ request'.step = request.step
                     \/ request.step = "next" /\ request'.step = "rows"
                  /\ request'.stayed = request.stayed \cap after
                  /\ request'.shrunk = (request.shrunk \/ ~(before \subseteq after))
                  /\ request'.tied = (request.tied \/ TiedIn(memory', after))
<1>1. CASE \E m \in MemIds : Store(m) \/ Update(m) \/ Move(m) \/ Delete(m)
  <2>1. Witness
    BY <1>1 DEF Store, Update, Move, Delete
  <2>2. request \in ListRequest
    <3>1. request = Idle \/ request.op # "list" => request' = request
      BY <2>1 DEF Witness
    <3>2. request # Idle /\ request.op = "list"
      BY <3>1
    <3>3. QED
      BY <3>2, ListShape
  <2>3. request.op = "list" /\ request # Idle
    BY <2>2 DEF ListRequest, Idle
  <2>4. PICK after : after = {m \in Live' : memory'[m].ws \in request.access}
    OBVIOUS
  <2>5. request' = Seen(request, In(request.access), after, TiedIn(memory', after))
    BY <2>1, <2>3, <2>4 DEF Witness, TiedIn
  <2>6. TiedIn(memory', after) \in BOOLEAN
    BY DEF TiedIn
  <2>7. PICK t \in BOOLEAN : t = TiedIn(memory', after)
    BY <2>6
  <2>8. /\ request' \in ListRequest
        /\ request'.page = request.page /\ request'.shown = request.shown
        /\ request'.access = request.access /\ request'.step = request.step
        /\ request'.stayed = request.stayed \cap after
        /\ request'.shrunk = (request.shrunk \/ ~(In(request.access) \subseteq after))
        /\ request'.tied = (request.tied \/ t)
    BY <2>2, <2>5, <2>7, SeenShape
  <2>9. after = Listed(memory', request.access)
    BY <2>4 DEF Live, Listed
  <2>10. In(request.access) = Listed(memory, request.access)
    BY ListedIsIn
  <2>11. Listed(memory', request'.access) = after
    BY <2>8, <2>9
  <2>12. /\ request'.shrunk = (request.shrunk
                \/ ~(Listed(memory, request.access) \subseteq Listed(memory', request'.access)))
         /\ request'.stayed = request.stayed \cap Listed(memory', request'.access)
         /\ request'.tied = (request.tied \/ TiedIn(memory', Listed(memory', request'.access)))
    BY <2>7, <2>8, <2>10, <2>11
  <2>13. QED
    BY <2>2, <2>8, <2>12, Zenon
<1>2. CASE ListNext
  <2>1. PICK access \in SUBSET WsIds :
           request' = Seen([request EXCEPT !.access = access, !.step = "rows"],
                           In(request.access), In(access), Tied(In(access)))
    BY <1>2 DEF ListNext
  <2>2. request \in ListRequest /\ request.step = "next" /\ UNCHANGED memory
    BY <1>2, ListShape DEF ListNext, AtStep
  <2>3. PICK q : q = [request EXCEPT !.access = access, !.step = "rows"]
    OBVIOUS
  <2>4. /\ q \in ListRequest /\ q.access = access /\ q.step = "rows" /\ q.page = request.page
        /\ q.shown = request.shown /\ q.stayed = request.stayed /\ q.shrunk = request.shrunk
        /\ q.tied = request.tied
    BY <2>2, <2>3 DEF ListRequest
  <2>5. PICK t \in BOOLEAN : t = Tied(In(access))
    BY DEF Tied
  <2>6. PICK before : before = In(request.access)
    OBVIOUS
  <2>7. PICK after : after = In(access)
    OBVIOUS
  <2>8. request' = Seen(q, before, after, t)
    BY <2>1, <2>3, <2>5, <2>6, <2>7
  <2>9. /\ request' \in ListRequest
        /\ request'.page = q.page /\ request'.shown = q.shown
        /\ request'.access = q.access /\ request'.step = q.step
        /\ request'.stayed = q.stayed \cap after
        /\ request'.shrunk = (q.shrunk \/ ~(before \subseteq after))
        /\ request'.tied = (q.tied \/ t)
    BY <2>4, <2>8, SeenShape
  <2>10. /\ Listed(memory', request'.access) = after /\ Listed(memory, request.access) = before
         /\ t = TiedIn(memory', after)
    BY <2>2, <2>4, <2>5, <2>6, <2>7, <2>9, ListedIsIn
  <2>11. /\ request'.shrunk = (request.shrunk
                \/ ~(Listed(memory, request.access) \subseteq Listed(memory', request'.access)))
         /\ request'.stayed = request.stayed \cap Listed(memory', request'.access)
         /\ request'.tied = (request.tied \/ TiedIn(memory', Listed(memory', request'.access)))
    BY <2>4, <2>9, <2>10
  <2>12. QED
    BY <2>2, <2>4, <2>9, <2>11
<1>3. CASE SearchBegin \/ TagSearchBegin \/ Answered \/ Enrich \/ EnrichOrFail
  <2>1. CASE Enrich \/ EnrichOrFail
    <3>1. request # Idle /\ request.op \in Searches /\ request' = WithDates
      BY <2>1 DEF Enrich, EnrichOrFail, AtStep, Finish, Searches
    <3>2. QED
      BY <3>1, DatesMove DEF Searches
  <2>2. QED
    BY <1>3, <2>1 DEF SearchBegin, TagSearchBegin, Answered, Finish, Searches
<1>4. CASE TextSearch \/ VectorSearch \/ TagSearch
  <2>1. request \in SearchRequest \cup TagRequest
    BY <1>4, SearchShape, TagShape DEF TextSearch, VectorSearch, TagSearch, AtStep
  <2>2. request'.op = request.op
    BY <1>4, <2>1 DEF TextSearch, VectorSearch, TagSearch, SearchRequest, TagRequest
  <2>3. QED
    BY <2>1, <2>2 DEF SearchRequest, TagRequest, Searches
<1>5. QED
  BY <1>1, <1>2, <1>3, <1>4 DEF Next, vars

-----------------------------------------------------------------------------
(* The inductive invariant                                                 *)

(* What a search has read: rows of the workspaces that it looks in, and,   *)
(* as long as a memory is there, of the period that it looks in.           *)
InPeriod(x) == x.id \in Live => memory[x.id].at \in request.period

ReadSound ==
    (request # Idle /\ request.op \in Searches) =>
        /\ Read(request.text) /\ Read(request.vec)
        /\ request.step = "vec" =>
              \A x \in ToSet(request.text) : x.ws \in request.access /\ InPeriod(x)
        /\ request.step = "enrich" => \A h \in ToSet(request.answer) : InPeriod(h)

(* As long as no memory left the list and no two have one time: a memory   *)
(* that was there all the time and was not shown yet comes after as many   *)
(* newer ones as there were places on the pages so far.                    *)
Newer(rows, list, m) == {x \in list : rows[x].at > rows[m].at}

PagesKept(rows, q) ==
    LET list == Listed(rows, q.access) IN
    /\ q.page \in Nat \ {0}
    /\ (~q.shrunk /\ ~q.tied) =>
          /\ q.stayed \subseteq list
          /\ ~TiedIn(rows, list)
          /\ q.step = "done" => q.stayed \subseteq q.shown
          /\ q.step # "done" =>
                \A m \in q.stayed \ q.shown : Cardinality(Newer(rows, list, m)) >= Offset(q.page)

PagesSound == (request # Idle /\ request.op = "list") => PagesKept(memory, request)

FusedSound == BetterComesFirst /\ TextHitsKept /\ ShownAsScored

(* The list of tags that a caller gives has an end.                        *)
AskedFinite == (request # Idle /\ request.op = "tags") => IsFiniteSet(request.asked)

IInv ==
    /\ TypeOK /\ RowsFinite /\ ReadSound /\ FusedSound /\ DatedInPeriod
    /\ PagesSound /\ AskedFinite

-----------------------------------------------------------------------------
(* The invariant is inductive                                              *)

LEMMA TopShape ==
    ASSUME NEW S, NEW s \in Seq(S)
    PROVE  /\ Top(s) \in Seq(S) /\ Len(Top(s)) <= Limit
           /\ Len(Top(s)) = IF Limit < Len(s) THEN Limit ELSE Len(s)
           /\ \A i \in 1 .. Len(Top(s)) : i \in 1 .. Len(s) /\ Top(s)[i] = s[i]
<1>1. Limit \in Nat /\ Len(s) \in Nat
  BY SizesShape, LenProperties
<1>2. PICK t : t = Top(s) /\ t = Slice(s, 0, Limit)
  BY DEF Top
<1>3. /\ t \in Seq(S) /\ Len(t) = IF Limit < Len(s) THEN Limit ELSE Len(s)
      /\ \A i \in 1 .. Len(t) : i \in 1 .. Len(s) /\ t[i] = s[i]
  BY <1>1, <1>2, PrefixShape
<1>4. Len(t) <= Limit
  BY <1>1, <1>3
<1>5. QED
  BY <1>2, <1>3, <1>4

(* A search by tags begins or is answered, or somebody writes.             *)
LEMMA TagMoves ==
    ASSUME TypeOK, [Next]_vars, request' # Idle, request'.op \notin Searches \cup {"list"}
    PROVE  TagSearchBegin \/ TagSearch \/ UNCHANGED request
<1>1. CASE TextSearch \/ VectorSearch \/ Enrich \/ EnrichOrFail
  <2>1. request \in SearchRequest
    BY <1>1, SearchShape DEF TextSearch, VectorSearch, Enrich, EnrichOrFail, AtStep, Searches
  <2>2. request'.op = request.op
    BY <1>1, <2>1 DEF TextSearch, VectorSearch, Enrich, EnrichOrFail, WithDates, Finish,
       SearchRequest
  <2>3. QED
    BY <2>1, <2>2 DEF SearchRequest
<1>2. CASE ListRows \/ ListNext
  <2>1. request \in ListRequest
    BY <1>2, ListShape DEF ListRows, ListNext, AtStep
  <2>2. request'.op = request.op
    BY <1>2, <2>1 DEF ListRows, ListNext, ListRequest, Seen
  <2>3. QED
    BY <2>1, <2>2 DEF ListRequest
<1>3. CASE \E m \in MemIds : Store(m) \/ Update(m) \/ Move(m) \/ Delete(m)
  <2>1. Witness
    BY <1>3 DEF Store, Update, Move, Delete
  <2>2. CASE request # Idle /\ request.op = "list"
    <3>1. request \in ListRequest
      BY <2>2, ListShape
    <3>2. request'.op = request.op
      BY <2>1, <2>2, <3>1 DEF Witness, Seen, ListRequest
    <3>3. QED
      BY <3>1, <3>2 DEF ListRequest
  <2>3. QED
    BY <2>1, <2>2 DEF Witness
<1>4. QED
  BY <1>1, <1>2, <1>3 DEF Next, vars, SearchBegin, ListBegin, Answered, Finish

LEMMA RequestTyped ==
    ASSUME TypeOK, RowsFinite, ReadSound, PagesSound, [Next]_vars
    PROVE  request' \in SearchRequest \cup TagRequest \cup ListRequest \cup {Idle}
<1>1. CASE request' # Idle /\ request'.op \in Searches
  <2>1. CASE SearchBegin
    <3>1. PICK op \in Searches, access \in SUBSET WsIds, period \in Periods :
             request' = [op |-> op, access |-> access, period |-> period, text |-> <<>>,
                         vec |-> <<>>, answer |-> <<>>, dates |-> <<>>, step |-> "text"]
      BY <2>1 DEF SearchBegin
    <3>2. period \subseteq Times
      BY DEF Periods
    <3>3. <<>> \in Seq(ReadRow) /\ <<>> \in Seq(HitRow) /\ <<>> \in Seq(Times \cup {None})
      BY EmptySeq
    <3>4. request' \in SearchRequest
      BY <3>1, <3>2, <3>3 DEF SearchRequest
    <3>5. QED
      BY <3>4
  <2>2. CASE TextSearch
    <3>1. PICK text : /\ Read(text) /\ request \in SearchRequest
                      /\ request' = [request EXCEPT !.text = text, !.step = "vec"]
      BY <2>2, TextMoves
    <3>2. QED
      BY <3>1 DEF Read, SearchRequest
  <2>3. CASE VectorSearch
    <3>1. Read(request.text)
      BY <2>3 DEF VectorSearch, AtStep, ReadSound
    <3>2. PICK vec \in Seq(Wanted), r \in Seq(HitRow) :
             /\ Read(vec) /\ request \in SearchRequest
             /\ request' = [request EXCEPT !.vec = vec, !.answer = Top(r), !.step = "enrich"]
      BY <2>3, <3>1, VectorMoves
    <3>3. PICK t \in Seq(HitRow) : t = Top(r)
      BY TopShape
    <3>4. request' = [request EXCEPT !.vec = vec, !.answer = t, !.step = "enrich"]
      BY <3>2, <3>3
    <3>5. request' \in SearchRequest
      BY <3>2, <3>4 DEF Read, SearchRequest
    <3>6. QED
      BY <3>5
  <2>4. CASE AtStep(Searches, "enrich") /\ request' = WithDates
    BY <2>4, DatesMove DEF AtStep
  <2>5. CASE UNCHANGED request
    BY <2>5 DEF TypeOK
  <2>6. QED
    BY <1>1, <2>1, <2>2, <2>3, <2>4, <2>5, SearchMoves
<1>2. CASE request' # Idle /\ request'.op = "list"
  <2>1. CASE ListBegin
    <3>1. PICK access \in SUBSET WsIds :
             request' = [op |-> "list", page |-> 1, access |-> access, shown |-> {},
                         step |-> "rows", stayed |-> In(access), shrunk |-> FALSE,
                         tied |-> Tied(In(access))]
      BY <2>1 DEF ListBegin
    <3>2. In(access) \subseteq MemIds /\ Tied(In(access)) \in BOOLEAN
      BY DEF In, Live, Tied
    <3>3. request' \in ListRequest
      BY <3>1, <3>2 DEF ListRequest
    <3>4. QED
      BY <3>3
  <2>2. CASE ListRows
    <3>1. request.page \in Nat \ {0}
      BY <2>2 DEF ListRows, AtStep, PagesSound, PagesKept
    <3>2. QED
      BY <2>2, <3>1, RowsMoves
  <2>3. CASE UNCHANGED <<memory, request>>
    BY <2>3 DEF TypeOK
  <2>4. QED
    BY <1>2, <2>1, <2>2, <2>3, PagesMove
<1>3. CASE request' # Idle /\ request'.op \notin Searches \cup {"list"}
  <2>1. CASE TagSearchBegin
    <3>1. PICK asked \in SUBSET RawTags, operation \in {"AND", "OR"}, access \in SUBSET WsIds :
             request' = [op |-> "tags", asked |-> asked, operation |-> operation,
                         access |-> access, answer |-> {}, step |-> "select"]
      BY <2>1 DEF TagSearchBegin
    <3>2. QED
      BY <3>1 DEF TagRequest
  <2>2. CASE TagSearch
    <3>1. request \in TagRequest
      BY <2>2, TagShape DEF TagSearch, AtStep
    <3>2. PICK answer \in SUBSET MemIds :
             request' = [request EXCEPT !.step = "done", !.answer = answer]
      <4>1. PICK answer : /\ answer = {m \in In(request.access) :
                                          HasTags(memory[m].doc, request.asked, request.operation)}
                          /\ request' = [request EXCEPT !.step = "done", !.answer = answer]
        BY <2>2 DEF TagSearch
      <4>2. answer \in SUBSET MemIds
        BY <4>1 DEF In, Live
      <4>3. QED
        BY <4>1, <4>2
    <3>3. request' \in TagRequest
      BY <3>1, <3>2 DEF TagRequest
    <3>4. QED
      BY <3>3
  <2>3. CASE UNCHANGED request
    BY <2>3 DEF TypeOK
  <2>4. QED
    BY <1>3, <2>1, <2>2, <2>3, TagMoves
<1>4. QED
  BY <1>1, <1>2, <1>3

(* Only the later statement of a search leads to an answer, or it was      *)
(* there before.                                                           *)
LEMMA FusionMoves ==
    ASSUME TypeOK, RowsFinite, ReadSound, [Next]_vars, AtStep(Searches, "enrich")'
    PROVE  \/ UNCHANGED request
           \/ /\ VectorSearch /\ UNCHANGED memory /\ Read(request.text)
              /\ request \in SearchRequest /\ request # Idle /\ request.step = "vec"
              /\ \E vec \in Seq(Wanted), r \in Seq(HitRow) :
                    /\ Read(vec) /\ ToSet(vec) \subseteq Wanted
                    /\ \A i, j \in 1 .. Len(vec) :
                          i < j => ~(Distance[vec[j].doc] < Distance[vec[i].doc])
                    /\ ToSet(r) = Hits(request.text, vec, MaxDistance[request.op])
                    /\ \A i, j \in 1 .. Len(r) : i < j => ~Above(r[j], r[i])
                    /\ request'.text = request.text /\ request'.vec = vec
                    /\ request'.answer = Top(r)
                    /\ request'.op = request.op /\ request'.access = request.access
                    /\ request'.period = request.period
<1>1. request' # Idle /\ request'.op \in Searches /\ request'.step = "enrich"
  BY DEF AtStep
<1>2. ~SearchBegin
  BY <1>1 DEF SearchBegin
<1>3. ~TextSearch
  <2>1. TextSearch => request'.step = "vec"
    <3>1. ASSUME TextSearch
          PROVE  request \in SearchRequest /\ \E t : request' = [request EXCEPT !.text = t, !.step = "vec"]
      BY <3>1, TextMoves
    <3>2. QED
      BY <3>1 DEF SearchRequest
  <2>2. QED
    BY <1>1, <2>1
<1>4. ~(AtStep(Searches, "enrich") /\ request' = WithDates)
  BY <1>1, DatesMove DEF AtStep
<1>5. CASE VectorSearch
  <2>1. Read(request.text) /\ UNCHANGED memory /\ request # Idle
    BY <1>5 DEF VectorSearch, AtStep, ReadSound
  <2>2. request \in SearchRequest /\ request.step = "vec"
    BY <1>5, <2>1, VectorMoves
  <2>3. PICK vec \in Seq(Wanted), r \in Seq(HitRow) :
           /\ Read(vec) /\ ToSet(vec) \subseteq Wanted
           /\ \A i, j \in 1 .. Len(vec) :
                 i < j => ~(Distance[vec[j].doc] < Distance[vec[i].doc])
           /\ ToSet(r) = Hits(request.text, vec, MaxDistance[request.op])
           /\ \A i, j \in 1 .. Len(r) : i < j => ~Above(r[j], r[i])
           /\ request' = [request EXCEPT !.vec = vec, !.answer = Top(r), !.step = "enrich"]
    BY <1>5, <2>1, VectorMoves
  <2>4. PICK t : t = Top(r)
    OBVIOUS
  <2>5. /\ request'.text = request.text /\ request'.vec = vec /\ request'.answer = t
        /\ request'.op = request.op /\ request'.access = request.access
        /\ request'.period = request.period
    BY <2>2, <2>3, <2>4 DEF SearchRequest
  <2>6. QED
    BY <1>5, <2>1, <2>2, <2>3, <2>4, <2>5
<1>6. QED
  BY <1>1, <1>2, <1>3, <1>4, <1>5, SearchMoves

LEMMA BetterInductive ==
    ASSUME TypeOK, RowsFinite, ReadSound, BetterComesFirst, [Next]_vars
    PROVE  BetterComesFirst'
<1>1. SUFFICES ASSUME AtStep(Searches, "enrich")' PROVE BetterComesFirst'
  BY DEF BetterComesFirst, Fused
<1>2. CASE UNCHANGED request
  BY <1>2 DEF BetterComesFirst, Fused, AtStep, Beats
<1>3. CASE request' # request
  <2>1. PICK vec \in Seq(Wanted), r \in Seq(HitRow) :
           /\ Read(request.text) /\ Read(vec)
           /\ \A i, j \in 1 .. Len(vec) :
                 i < j => ~(Distance[vec[j].doc] < Distance[vec[i].doc])
           /\ ToSet(r) = Hits(request.text, vec, MaxDistance[request.op])
           /\ \A i, j \in 1 .. Len(r) : i < j => ~Above(r[j], r[i])
           /\ request'.text = request.text /\ request'.vec = vec /\ request'.answer = Top(r)
           /\ request.op \in Searches
    BY <1>1, <1>3, FusionMoves DEF SearchRequest
  <2>2. MaxDistance[request.op] \in Nat
    BY <2>1, QueryAssumption DEF Searches
  <2>3. \A i \in 1 .. Len(r), m \in MemIds :
           BeatsIn(request.text, vec, m, r[i].id) => \E j \in 1 .. i - 1 : r[j].id = m
    BY <2>1, <2>2, FusionShape
  <2>4. PICK t : t = Top(r)
    OBVIOUS
  <2>5. /\ t \in Seq(HitRow) /\ DOMAIN t = 1 .. Len(t)
        /\ \A i \in 1 .. Len(t) : i \in 1 .. Len(r) /\ t[i] = r[i]
    BY <2>4, TopShape, LenProperties
  <2>6. ASSUME NEW i \in 1 .. Len(t), NEW m \in MemIds, BeatsIn(request.text, vec, m, t[i].id)
        PROVE  \E j \in 1 .. i - 1 : t[j].id = m
    <3>1. PICK j \in 1 .. i - 1 : r[j].id = m
      BY <2>3, <2>5, <2>6
    <3>2. j \in 1 .. Len(t)
      BY <2>5, LenProperties
    <3>3. QED
      BY <2>5, <3>1, <3>2
  <2>7. \A m, x : Beats(m, x)' <=> BeatsIn(request.text, vec, m, x)
    <3>1. \A m, x : Beats(m, x)' <=> BeatsIn(request'.text, request'.vec, m, x)
      BY DEF Beats, BeatsIn, Ahead, Neither
    <3>2. QED
      BY <2>1, <3>1
  <2>8. request'.answer = t
    BY <2>1, <2>4
  <2>9. ASSUME NEW i \in DOMAIN t, NEW m \in MemIds, Beats(m, t[i].id)'
        PROVE  \E j \in 1 .. i - 1 : t[j].id = m
    <3>1. BeatsIn(request.text, vec, m, t[i].id)
      BY <2>7, <2>9
    <3>2. QED
      BY <2>5, <2>6, <3>1
  <2>10. \A i \in DOMAIN request'.answer, m \in MemIds :
            Beats(m, request.answer[i].id)' => \E j \in 1 .. i - 1 : request'.answer[j].id = m
    BY <2>8, <2>9
  <2>11. QED
    BY <2>10 DEF BetterComesFirst
<1>4. QED
  BY <1>2, <1>3

LEMMA KeptInductive ==
    ASSUME TypeOK, RowsFinite, ReadSound, TextHitsKept, [Next]_vars
    PROVE  TextHitsKept'
<1>1. SUFFICES ASSUME AtStep(Searches, "enrich")' PROVE TextHitsKept'
  BY DEF TextHitsKept, Fused
<1>2. CASE UNCHANGED request
  BY <1>2 DEF TextHitsKept, Fused, AtStep
<1>3. CASE request' # request
  <2>1. PICK vec \in Seq(Wanted), r \in Seq(HitRow) :
           /\ Read(request.text) /\ Read(vec)
           /\ ToSet(r) = Hits(request.text, vec, MaxDistance[request.op])
           /\ request'.text = request.text /\ request'.answer = Top(r) /\ request'.op = request.op
    BY <1>1, <1>3, FusionMoves
  <2> DEFINE far == MaxDistance[request.op]
  <2>2. PICK t : t = Top(r)
    OBVIOUS
  <2>3. /\ t \in Seq(HitRow) /\ DOMAIN t = 1 .. Len(t)
        /\ Len(t) = IF Limit < Len(r) THEN Limit ELSE Len(r)
        /\ \A i \in 1 .. Len(t) : i \in 1 .. Len(r) /\ t[i] = r[i]
    BY <2>2, TopShape, LenProperties
  <2>4. DOMAIN r = 1 .. Len(r)
    BY LenProperties
  <2>5. ASSUME Len(t) # Limit, NEW m \in Ids(request.text) PROVE m \in Ids(t)
    <3>1. Len(t) = Len(r)
      BY <2>3, <2>5
    <3>2. /\ Hit(request.text, vec, m).id = m
          /\ Hit(request.text, vec, m).text # None
      BY <2>1, HitShape, RankShape DEF Read
    <3>3. Hit(request.text, vec, m) \in ToSet(r)
      BY <2>1, <3>2, HitsShape
    <3>4. PICK i \in 1 .. Len(r) : r[i] = Hit(request.text, vec, m)
      BY <2>4, <3>3 DEF ToSet
    <3>5. t[i].id = m
      BY <2>3, <3>1, <3>2, <3>4
    <3>6. QED
      BY <2>3, <3>1, <3>5, IdsShape
  <2>6. ASSUME NEW h \in ToSet(t), h.id \notin Ids(request.text) PROVE Distance[h.doc] <= far
    <3>1. h \in ToSet(r)
      BY <2>3, <2>4 DEF ToSet
    <3>2. /\ h.id \in Ids(request.text) \cup Ids(vec) /\ h = Hit(request.text, vec, h.id)
          /\ h.text = None => h.distance <= far
      BY <2>1, <3>1, HitsShape
    <3>3. h.text = None /\ (h.vec # None => h.distance = Distance[h.doc])
      BY <2>1, <2>6, <3>2, HitShape, RankShape DEF Read
    <3>4. h.vec # None
      <4>1. h.vec = None => h.text \in 1 .. Len(request.text)
        BY <2>1, <3>2, HitShape
      <4>2. Len(request.text) \in Nat
        BY <2>1, LenProperties DEF Read
      <4>3. QED
        BY <3>3, <4>1, <4>2, QueryAssumption
    <3>5. QED
      BY <3>2, <3>3, <3>4
  <2>7. QED
    BY <2>1, <2>2, <2>5, <2>6 DEF TextHitsKept
<1>4. QED
  BY <1>2, <1>3

(* A hit is a row that one of the statements returned.                     *)
LEMMA AnswerShape ==
    ASSUME NEW text, NEW vec, Read(text), Read(vec), NEW far, NEW r \in Seq(HitRow),
           ToSet(r) = Hits(text, vec, far), NEW h \in ToSet(Top(r))
    PROVE  /\ h.distance # None => h.distance = Distance[h.doc]
           /\ \E x \in ToSet(text) \cup ToSet(vec) : h.id = x.id /\ h.ws = x.ws
<1>1. PICK t : t = Top(r)
  OBVIOUS
<1>2. /\ DOMAIN t = 1 .. Len(t)
      /\ \A i \in 1 .. Len(t) : i \in 1 .. Len(r) /\ t[i] = r[i]
  BY <1>1, TopShape, LenProperties
<1>3. DOMAIN r = 1 .. Len(r)
  BY LenProperties
<1>4. h \in ToSet(r)
  BY <1>1, <1>2, <1>3 DEF ToSet
<1>5. h.id \in Ids(text) \cup Ids(vec) /\ h = Hit(text, vec, h.id)
  BY <1>4, HitsShape
<1>6. /\ h.vec # None => /\ h.vec \in 1 .. Len(vec) /\ vec[h.vec].id = h.id
                         /\ h.ws = vec[h.vec].ws /\ h.distance = Distance[h.doc]
      /\ h.vec = None => /\ h.text \in 1 .. Len(text) /\ text[h.text].id = h.id
                         /\ h.ws = text[h.text].ws /\ h.distance = None
  BY <1>5, HitShape
<1>7. DOMAIN text = 1 .. Len(text) /\ DOMAIN vec = 1 .. Len(vec)
  BY LenProperties DEF Read
<1>8. CASE h.vec # None
  BY <1>6, <1>7, <1>8 DEF ToSet
<1>9. CASE h.vec = None
  BY <1>6, <1>7, <1>9 DEF ToSet
<1>10. QED
  BY <1>8, <1>9

LEMMA ShownInductive ==
    ASSUME TypeOK, RowsFinite, ReadSound, ShownAsScored, [Next]_vars
    PROVE  ShownAsScored'
<1>1. SUFFICES ASSUME AtStep(Searches, "enrich")' PROVE ShownAsScored'
  BY DEF ShownAsScored, Fused
<1>2. CASE UNCHANGED request
  BY <1>2 DEF ShownAsScored, Fused, AtStep
<1>3. CASE request' # request
  <2>1. PICK vec \in Seq(Wanted), r \in Seq(HitRow) :
           /\ Read(request.text) /\ Read(vec) /\ ToSet(vec) \subseteq Wanted
           /\ ToSet(r) = Hits(request.text, vec, MaxDistance[request.op])
           /\ request'.answer = Top(r) /\ request'.access = request.access
           /\ request \in SearchRequest /\ request # Idle /\ request.step = "vec"
    BY <1>1, <1>3, FusionMoves
  <2>2. \A x \in ToSet(request.text) \cup ToSet(vec) : x.ws \in request.access
    BY <2>1, WantedShape DEF ReadSound, SearchRequest
  <2>3. \A h \in ToSet(Top(r)) :
           /\ h.ws \in request.access
           /\ h.distance # None => h.distance = Distance[h.doc]
    BY <2>1, <2>2, AnswerShape
  <2>4. QED
    BY <2>1, <2>3 DEF ShownAsScored
<1>4. QED
  BY <1>2, <1>3

(* Somebody writes, but not a memory that the search has seen and that is  *)
(* gone.                                                                   *)
LEMMA KnownStays ==
    ASSUME TypeOK, [Next]_vars, UNCHANGED request, NEW x, x.id \in MemIds, x.id \in Known,
           InPeriod(x)
    PROVE  x.id \in Live' => memory'[x.id].at \in request.period
<1>1. CASE x.id \in Live
  BY <1>1, TimesStay DEF InPeriod
<1>2. CASE x.id \notin Live
  BY <1>2, RowsMove DEF Live, TypeOK
<1>3. QED
  BY <1>1, <1>2

LEMMA ReadInductive ==
    ASSUME TypeOK, RowsFinite, ReadSound, [Next]_vars
    PROVE  ReadSound'
<1>1. SUFFICES ASSUME request' # Idle, request'.op \in Searches PROVE ReadSound'
  BY DEF ReadSound
<1>2. Read(<<>>) /\ <<>> \in Seq(ReadRow)
  <2>1. PICK n \in Nat : n = Window * Limit
    BY SizesShape
  <2>2. <<>> \in Seq(ReadRow) /\ Len(<<>>) = 0
    BY EmptySeq
  <2>3. QED
    BY <2>1, <2>2 DEF Read
<1>3. CASE SearchBegin
  <2>1. request'.text = <<>> /\ request'.vec = <<>> /\ request'.step = "text"
    BY <1>3 DEF SearchBegin
  <2>2. QED
    BY <1>2, <2>1 DEF ReadSound
<1>4. CASE TextSearch
  <2>1. PICK text \in Seq(Wanted) :
           /\ request \in SearchRequest /\ Read(text) /\ ToSet(text) \subseteq Wanted
           /\ request' = [request EXCEPT !.text = text, !.step = "vec"]
    BY <1>4, TextMoves
  <2>2. /\ request'.text = text /\ request'.vec = request.vec /\ request'.step = "vec"
        /\ request'.access = request.access /\ request'.period = request.period
    BY <2>1 DEF SearchRequest
  <2>3. \A x \in ToSet(text) : x.ws \in request.access /\ memory[x.id].at \in request.period
    BY <2>1, WantedShape
  <2>4. Read(request.vec) /\ UNCHANGED memory
    BY <1>4 DEF TextSearch, AtStep, ReadSound
  <2>5. QED
    BY <2>1, <2>2, <2>3, <2>4 DEF ReadSound, InPeriod
<1>5. CASE AtStep(Searches, "enrich") /\ request' = WithDates
  <2>1. request'.text = <<>> /\ request'.vec = <<>> /\ request'.step = "done"
    BY <1>5, DatesMove DEF AtStep
  <2>2. QED
    BY <1>2, <2>1 DEF ReadSound
<1>6. CASE VectorSearch
  <2>1. request \in SearchRequest /\ Read(request.text) /\ request.step = "vec"
          /\ request # Idle /\ UNCHANGED memory
    BY <1>6, SearchShape DEF VectorSearch, AtStep, ReadSound
  <2>2. AtStep(Searches, "enrich")'
    <3>1. PICK v, t : request' = [request EXCEPT !.vec = v, !.answer = t, !.step = "enrich"]
      BY <1>6, <2>1, VectorMoves
    <3>2. request'.step = "enrich"
      BY <2>1, <3>1 DEF SearchRequest
    <3>3. QED
      BY <1>1, <3>2 DEF AtStep
  <2>3. request' # request
    BY <2>1, <2>2 DEF AtStep
  <2>4. PICK vec \in Seq(Wanted), r \in Seq(HitRow) :
           /\ Read(vec) /\ ToSet(vec) \subseteq Wanted
           /\ ToSet(r) = Hits(request.text, vec, MaxDistance[request.op])
           /\ request'.text = request.text /\ request'.vec = vec /\ request'.answer = Top(r)
           /\ request'.period = request.period
    BY <2>2, <2>3, FusionMoves
  <2>5. \A x \in ToSet(request.text) \cup ToSet(vec) :
           x.id \in Live => memory[x.id].at \in request.period
    BY <2>1, <2>4, WantedShape DEF ReadSound, InPeriod, SearchRequest
  <2>6. \A h \in ToSet(Top(r)) : h.id \in Live => memory[h.id].at \in request.period
    BY <2>1, <2>4, <2>5, AnswerShape
  <2>7. request'.step = "enrich" /\ Live' = Live /\ memory' = memory
    BY <2>1, <2>2 DEF AtStep, Live
  <2>8. QED
    BY <2>1, <2>4, <2>6, <2>7 DEF ReadSound, InPeriod
<1>7. CASE UNCHANGED request
  <2>1. request \in SearchRequest
    BY <1>1, <1>7, SearchShape
  <2>2. /\ Read(request.text) /\ Read(request.vec)
        /\ request.step = "vec" =>
              \A x \in ToSet(request.text) : x.ws \in request.access /\ InPeriod(x)
        /\ request.step = "enrich" => \A h \in ToSet(request.answer) : InPeriod(h)
    BY <1>1, <1>7 DEF ReadSound
  <2>3. \A x \in ToSet(request.text) \cup ToSet(request.answer) : x.id \in MemIds /\ x.id \in Known
    <3>1. Known = Ids(request.text) \cup Ids(request.vec) \cup Ids(request.answer)
      <4>1. request # Idle /\ request.op \in Searches
        BY <1>1, <1>7
      <4>2. request.op # "tags" /\ request.op # "list"
        BY <4>1 DEF Searches
      <4>3. QED
        BY <4>1, <4>2, Zenon DEF Known
    <3>2. ToSet(request.text) \subseteq ReadRow /\ ToSet(request.answer) \subseteq HitRow
      BY <2>1, <2>2, ToSetShape DEF Read, SearchRequest
    <3>3. \A x \in ToSet(request.text) \cup ToSet(request.answer) : x.id \in MemIds
      BY <3>2 DEF ReadRow, HitRow
    <3>4. \A x \in ToSet(request.text) \cup ToSet(request.answer) : x.id \in Known
      BY <3>1 DEF Ids
    <3>5. QED
      BY <3>3, <3>4
  <2>4. /\ request.step = "vec" =>
              \A x \in ToSet(request.text) :
                 x.id \in Live' => memory'[x.id].at \in request.period
        /\ request.step = "enrich" =>
              \A h \in ToSet(request.answer) :
                 h.id \in Live' => memory'[h.id].at \in request.period
    BY <1>7, <2>2, <2>3, KnownStays
  <2>5. QED
    BY <1>7, <2>2, <2>4 DEF ReadSound, InPeriod
<1>8. QED
  BY <1>1, <1>3, <1>4, <1>5, <1>6, <1>7, SearchMoves

LEMMA DatedInductive ==
    ASSUME TypeOK, RowsFinite, ReadSound, DatedInPeriod, [Next]_vars
    PROVE  DatedInPeriod'
<1>1. SUFFICES ASSUME AtStep({"recall", "page"}, "done")' PROVE DatedInPeriod'
  BY DEF DatedInPeriod
<1>2. /\ request' # Idle /\ request'.op \in Searches /\ request'.op # "retrieve"
      /\ request'.step = "done"
  BY <1>1 DEF AtStep, Searches
<1>3. CASE UNCHANGED request
  BY <1>3 DEF DatedInPeriod, AtStep
<1>4. CASE SearchBegin \/ TextSearch \/ VectorSearch
  <2>1. ~SearchBegin
    BY <1>2 DEF SearchBegin
  <2>2. request \in SearchRequest /\ \E t, v, a :
           \/ request' = [request EXCEPT !.text = t, !.step = "vec"]
           \/ request' = [request EXCEPT !.vec = v, !.answer = a, !.step = "enrich"]
    BY <1>4, <2>1, TextMoves, VectorMoves DEF VectorSearch, AtStep, ReadSound
  <2>3. QED
    BY <1>2, <2>2 DEF SearchRequest
<1>5. CASE /\ AtStep(Searches, "enrich") /\ request' = WithDates
           /\ request.op # "retrieve" => Ids(request.answer) \subseteq Live
  <2>1. /\ request # Idle /\ request.op \in Searches /\ request.step = "enrich"
        /\ request \in SearchRequest
    BY <1>5, SearchShape DEF AtStep
  <2>2. /\ request'.op = request.op /\ request'.answer = request.answer
        /\ request'.period = request.period
        /\ DOMAIN request.answer = 1 .. Len(request.answer)
        /\ \A i \in 1 .. Len(request.answer) :
              request'.dates[i] = IF request.answer[i].id \in Live
                                  THEN memory[request.answer[i].id].at ELSE None
    BY <1>5, <2>1, DatesMove
  <2>3. \A i \in DOMAIN request.answer :
           /\ request.answer[i].id \in Live
           /\ InPeriod(request.answer[i])
    BY <1>2, <1>5, <2>1, <2>2 DEF ReadSound, Ids, ToSet
  <2>4. \A i \in DOMAIN request.answer : request'.dates[i] \in request.period
    BY <2>2, <2>3 DEF InPeriod
  <2>5. QED
    BY <2>2, <2>4 DEF DatedInPeriod
<1>6. QED
  BY <1>2, <1>3, <1>4, <1>5, SearchMoves

LEMMA KeptSizes ==
    ASSUME TypeOK, RowsFinite, ReadSound, [Next]_vars, request' # Idle, request'.op \in Searches
    PROVE  Len(request'.answer) <= Limit
<1>1. Limit \in Nat /\ Len(<<>>) = 0
  BY SizesShape, EmptySeq
<1>2. CASE SearchBegin
  <2>1. request'.answer = <<>>
    BY <1>2 DEF SearchBegin
  <2>2. QED
    BY <1>1, <2>1
<1>3. CASE TextSearch
  <2>1. request \in SearchRequest /\ \E t : request' = [request EXCEPT !.text = t, !.step = "vec"]
    BY <1>3, TextMoves
  <2>2. request'.answer = request.answer /\ request # Idle /\ request.op \in Searches
    BY <1>3, <2>1 DEF SearchRequest, TextSearch, AtStep
  <2>3. QED
    BY <2>2 DEF TypeOK
<1>4. CASE VectorSearch
  <2>1. Read(request.text)
    BY <1>4 DEF VectorSearch, AtStep, ReadSound
  <2>2. PICK vec \in Seq(Wanted), r \in Seq(HitRow) :
           /\ request \in SearchRequest
           /\ request' = [request EXCEPT !.vec = vec, !.answer = Top(r), !.step = "enrich"]
    BY <1>4, <2>1, VectorMoves
  <2>3. PICK t : t = Top(r) /\ Len(t) <= Limit
    BY TopShape
  <2>4. request'.answer = t
    BY <2>2, <2>3 DEF SearchRequest
  <2>5. QED
    BY <2>3, <2>4
<1>5. CASE AtStep(Searches, "enrich") /\ request' = WithDates
  <2>1. request # Idle /\ request.op \in Searches /\ request'.answer = request.answer
    BY <1>5, DatesMove DEF AtStep
  <2>2. QED
    BY <2>1 DEF TypeOK
<1>6. CASE UNCHANGED request
  BY <1>6 DEF TypeOK
<1>7. QED
  BY <1>2, <1>3, <1>4, <1>5, <1>6, SearchMoves

LEMMA TypeInductive ==
    ASSUME TypeOK, RowsFinite, ReadSound, PagesSound, [Next]_vars
    PROVE  TypeOK'
<1>1. memory' \in [MemIds -> MemoryRow \cup {None}]
  BY RowsInductive
<1>2. request' \in SearchRequest \cup TagRequest \cup ListRequest \cup {Idle}
  BY RequestTyped
<1>3. request' # Idle /\ request'.op \in Searches => Len(request'.answer) <= Limit
  BY KeptSizes
<1>4. QED
  BY <1>1, <1>2, <1>3 DEF TypeOK, MemoryRow, SearchRequest, TagRequest, ListRequest, Idle

LEMMA OffsetShape ==
    ASSUME NEW page \in Nat \ {0}
    PROVE  Offset(page) \in Nat /\ Offset(page + 1) = Offset(page) + PageSize
<1>1. PICK n \in Nat : n = PageSize
  BY SizesShape
<1>2. PICK k \in Nat : k = page - 1
  OBVIOUS
<1>3. k * n \in Nat /\ (k + 1) * n = k * n + n
  OBVIOUS
<1>4. page + 1 - 1 = k + 1
  BY <1>2
<1>5. QED
  BY <1>1, <1>2, <1>3, <1>4 DEF Offset

(* What comes after the first "offset" places of a list is on the page, or  *)
(* after it, and then the page is full.                                    *)
LEMMA PlaceOnPage ==
    ASSUME NEW S, NEW s \in Seq(S), NEW offset \in Nat, NEW n \in Nat,
           NEW i \in 1 .. Len(s), i > offset
    PROVE  \/ s[i] \in ToSet(Slice(s, offset, n))
           \/ i > offset + n /\ Len(Slice(s, offset, n)) = n
<1>1. PICK p : p = Slice(s, offset, n)
  OBVIOUS
<1>2. /\ p \in Seq(S)
      /\ Len(p) = IF offset + n < Len(s) THEN n ELSE IF offset < Len(s) THEN Len(s) - offset ELSE 0
      /\ \A j \in 1 .. Len(p) : offset + j \in 1 .. Len(s) /\ p[j] = s[offset + j]
  BY <1>1, SliceShape
<1>3. PICK l \in Nat, w \in Nat : l = Len(p) /\ w = Len(s)
  BY <1>2, LenProperties
<1>4. l = IF offset + n < w THEN n ELSE IF offset < w THEN w - offset ELSE 0
  BY <1>2, <1>3
<1>5. CASE i <= offset + n
  <2>1. PICK j \in 1 .. l : offset + j = i
    <3>1. PICK j \in Nat : offset + j = i
      OBVIOUS
    <3>2. j \in 1 .. l
      BY <1>3, <1>4, <1>5, <3>1
    <3>3. QED
      BY <3>1, <3>2
  <2>2. p[j] = s[i]
    BY <1>2, <1>3, <2>1
  <2>3. DOMAIN p = 1 .. l
    BY <1>2, <1>3, LenProperties
  <2>4. QED
    BY <1>1, <2>2, <2>3 DEF ToSet
<1>6. CASE ~(i <= offset + n)
  BY <1>1, <1>3, <1>4, <1>6
<1>7. QED
  BY <1>5, <1>6

(* A page of a list in order, newest first and all of different times: who *)
(* has as many newer ones as there are places on earlier pages is on this  *)
(* page, or it is full and there are as many as it has places, too.        *)
LEMMA PageShape ==
    ASSUME NEW S, IsFiniteSet(S), NEW at, \A x \in S : at[x] \in Nat,
           \A x, y \in S : x # y => at[x] # at[y],
           NEW s \in SetToSeqs(S),
           \A i, j \in DOMAIN s : i < j => ~(at[s[j]] > at[s[i]]),
           NEW offset \in Nat, NEW n \in Nat, NEW m \in S,
           Cardinality({x \in S : at[x] > at[m]}) >= offset
    PROVE  \/ m \in ToSet(Slice(s, offset, n))
           \/ /\ Cardinality({x \in S : at[x] > at[m]}) >= offset + n
              /\ Len(Slice(s, offset, n)) = n
<1>1. /\ s \in Seq(S) /\ ToSet(s) = S /\ DOMAIN s = 1 .. Len(s) /\ Len(s) \in Nat
      /\ \A i, j \in 1 .. Len(s) : s[i] = s[j] => i = j
  BY OrderOfSet, LenProperties
<1>2. PICK i \in 1 .. Len(s) : s[i] = m
  BY <1>1 DEF ToSet
<1> DEFINE newer == {x \in S : at[x] > at[m]}
<1>3. newer = {s[j] : j \in 1 .. i - 1}
  <2>1. ASSUME NEW x \in S, at[x] > at[m] PROVE \E j \in 1 .. i - 1 : x = s[j]
    <3>1. PICK j \in 1 .. Len(s) : s[j] = x
      BY <1>1 DEF ToSet
    <3>2. j # i /\ ~(i < j)
      BY <1>1, <1>2, <2>1, <3>1
    <3>3. QED
      BY <3>1, <3>2
  <2>2. ASSUME NEW j \in 1 .. i - 1 PROVE s[j] \in S /\ at[s[j]] > at[m]
    <3>1. j \in 1 .. Len(s) /\ j < i /\ j # i
      OBVIOUS
    <3>2. s[j] \in S /\ s[j] # m
      BY <1>1, <1>2, <3>1, ElementOfSeq
    <3>3. ~(at[m] > at[s[j]]) /\ at[m] # at[s[j]]
      BY <1>1, <1>2, <3>1, <3>2
    <3>4. QED
      BY <3>2, <3>3
  <2>3. QED
    BY <2>1, <2>2
<1>4. PICK k \in Nat : k = i - 1 /\ k < Len(s)
  OBVIOUS
<1>5. Cardinality(newer) = k
  <2>1. PICK I : I = 1 .. k
    OBVIOUS
  <2>2. IsFiniteSet(I) /\ Cardinality(I) = k
    BY <2>1, FS_Interval
  <2>3. \A x, y \in I : s[x] = s[y] => x = y
    BY <1>1, <1>4, <2>1
  <2>4. Cardinality({s[j] : j \in I}) = Cardinality(I)
    BY <2>2, <2>3, InjectiveImage
  <2>5. newer = {s[j] : j \in I}
    BY <1>3, <1>4, <2>1
  <2>6. QED
    BY <2>2, <2>4, <2>5
<1>6. k >= offset
  BY <1>5
<1>7. m \in ToSet(Slice(s, offset, n)) \/ (i > offset + n /\ Len(Slice(s, offset, n)) = n)
  <2>1. i > offset
    BY <1>4, <1>6
  <2>2. s \in Seq(S)
    BY <1>1
  <2>3. s[i] \in ToSet(Slice(s, offset, n)) \/ (i > offset + n /\ Len(Slice(s, offset, n)) = n)
    BY <2>1, <2>2, PlaceOnPage
  <2>4. QED
    BY <1>2, <2>3
<1>8. QED
  BY <1>4, <1>5, <1>7

(* The next page of a list that nothing left.                              *)
LEMMA RowsKept ==
    ASSUME TypeOK, RowsFinite, PagesSound, ListRows
    PROVE  request' \in ListRequest /\ PagesKept(memory', request')
<1>1. request # Idle /\ request.op = "list"
  BY DEF ListRows, AtStep
<1>2. PagesKept(memory, request) /\ request.page \in Nat \ {0}
  BY <1>1 DEF PagesSound, PagesKept
<1>3. PICK S : S = In(request.access) /\ S = Listed(memory, request.access)
  BY ListedIsIn
<1>4. /\ request \in ListRequest /\ request.step = "rows" /\ memory' = memory
      /\ request' \in ListRequest /\ request'.page = request.page + 1
      /\ request'.access = request.access /\ request'.stayed = request.stayed
      /\ request'.shrunk = request.shrunk /\ request'.tied = request.tied
  BY <1>2, RowsMoves
<1>5. PICK s \in SetToSeqs(S) :
         /\ \A i, j \in DOMAIN s : i < j => ~(memory[s[j]].at > memory[s[i]].at)
         /\ request'.shown = request.shown \cup ToSet(Slice(s, Offset(request.page), PageSize))
         /\ request'.step = IF Len(Slice(s, Offset(request.page), PageSize)) < PageSize
                            THEN "done" ELSE "next"
  BY <1>2, <1>3, RowsMoves
<1>6. PICK page \in Nat \ {0}, p \in {Slice(s, Offset(request.page), PageSize)} : page = request.page
  BY <1>2
<1>7. PICK offset \in Nat, n \in Nat :
         offset = Offset(page) /\ n = PageSize /\ Offset(page + 1) = offset + n
  BY OffsetShape, SizesShape
<1>8. IsFiniteSet(S) /\ S \subseteq Live
  <2>1. S \in SUBSET Live
    BY <1>3 DEF In
  <2>2. QED
    BY <2>1, FS_Subset DEF RowsFinite
<1>9. SUFFICES ASSUME ~request.shrunk, ~request.tied
               PROVE  /\ request'.stayed \subseteq S
                      /\ ~TiedIn(memory, S)
                      /\ request'.step = "done" => request'.stayed \subseteq request'.shown
                      /\ request'.step # "done" =>
                            \A m \in request'.stayed \ request'.shown :
                               Cardinality(Newer(memory, S, m)) >= Offset(request'.page)
  <2>1. Listed(memory', request'.access) = S
    BY <1>3, <1>4
  <2>2. request'.page \in Nat \ {0}
    BY <1>2, <1>4
  <2>3. QED
    BY <1>4, <2>1, <2>2 DEF PagesKept
<1>10. /\ request.stayed \subseteq S /\ ~TiedIn(memory, S)
       /\ \A m \in request.stayed \ request.shown : Cardinality(Newer(memory, S, m)) >= offset
  BY <1>2, <1>3, <1>4, <1>6, <1>7, <1>9 DEF PagesKept
<1>11. PICK at : at = [x \in S |-> memory[x].at]
  OBVIOUS
<1>12. \A x \in S : at[x] \in Nat /\ at[x] = memory[x].at
  BY <1>8, <1>11, QueryAssumption DEF Live, TypeOK, MemoryRow
<1>13. ASSUME NEW m \in request.stayed \ request.shown
       PROVE  m \in ToSet(p) \/ (Cardinality(Newer(memory, S, m)) >= offset + n /\ Len(p) = n)
  <2>1. m \in S
    BY <1>10
  <2>2. Newer(memory, S, m) = {x \in S : at[x] > at[m]}
    BY <1>12, <2>1 DEF Newer
  <2>3. \A x, y \in S : x # y => at[x] # at[y]
    BY <1>10, <1>12 DEF TiedIn
  <2>4. \A i, j \in DOMAIN s : i < j => ~(at[s[j]] > at[s[i]])
    <3>1. s \in Seq(S)
      BY <1>8, OrderOfSet
    <3>2. \A i \in DOMAIN s : s[i] \in S
      BY <3>1, LenProperties, ElementOfSeq
    <3>3. QED
      BY <1>5, <1>12, <3>2
  <2>5. Cardinality({x \in S : at[x] > at[m]}) >= offset
    BY <1>10, <2>2
  <2>6. \A x \in S : at[x] \in Nat
    BY <1>12
  <2>7. \/ m \in ToSet(Slice(s, offset, n))
        \/ /\ Cardinality({x \in S : at[x] > at[m]}) >= offset + n
           /\ Len(Slice(s, offset, n)) = n
    BY <1>8, <2>1, <2>3, <2>4, <2>5, <2>6, PageShape
  <2>8. p = Slice(s, offset, n)
    BY <1>6, <1>7
  <2>9. QED
    BY <2>2, <2>7, <2>8
<1>14. request'.shown = request.shown \cup ToSet(p)
  BY <1>5, <1>6
<1>15. request'.step = "done" => Len(p) < n
  BY <1>5, <1>6, <1>7
<1>16. request'.step = "done" => request'.stayed \subseteq request'.shown
  BY <1>4, <1>13, <1>14, <1>15
<1>17. \A m \in request'.stayed \ request'.shown :
          Cardinality(Newer(memory, S, m)) >= Offset(request'.page)
  BY <1>4, <1>6, <1>7, <1>13, <1>14
<1>18. QED
  BY <1>4, <1>10, <1>16, <1>17

(* The list as it changes between pages and while one is read: who was in  *)
(* it all the time is still in it, and so is everything newer.             *)
LEMMA ChangesKept ==
    ASSUME TypeOK, RowsFinite, [Next]_vars,
           request \in ListRequest, request' \in ListRequest, PagesKept(memory, request),
           request'.page = request.page, request'.shown = request.shown,
           \/ request'.step = request.step
           \/ request.step = "next" /\ request'.step = "rows",
           NEW before, before = Listed(memory, request.access),
           NEW after, after = Listed(memory', request'.access),
           request'.stayed = request.stayed \cap after,
           request'.shrunk = (request.shrunk \/ ~(before \subseteq after)),
           request'.tied = (request.tied \/ TiedIn(memory', after))
    PROVE  PagesKept(memory', request')
<1>1. request.page \in Nat \ {0}
  BY DEF PagesKept
<1>2. SUFFICES ASSUME ~request'.shrunk, ~request'.tied
               PROVE  /\ request'.stayed \subseteq after
                      /\ ~TiedIn(memory', after)
                      /\ request'.step = "done" => request'.stayed \subseteq request'.shown
                      /\ request'.step # "done" =>
                            \A m \in request'.stayed \ request'.shown :
                               Cardinality(Newer(memory', after, m)) >= Offset(request'.page)
  BY <1>1 DEF PagesKept
<1>3. ~request.shrunk /\ ~request.tied /\ before \subseteq after /\ ~TiedIn(memory', after)
  BY <1>2
<1>4. /\ request.stayed \subseteq before
      /\ request.step = "done" => request.stayed \subseteq request.shown
      /\ request.step # "done" =>
            \A m \in request.stayed \ request.shown :
               Cardinality(Newer(memory, before, m)) >= Offset(request.page)
  BY <1>3 DEF PagesKept
<1>5. \A x \in before : memory'[x].at = memory[x].at
  <2>1. \A x \in before : x \in MemIds /\ x \in Live /\ x \in Live'
    BY <1>3 DEF Listed, Live
  <2>2. QED
    BY <2>1, TimesStay
<1>6. IsFiniteSet(after)
  <2>1. after \in SUBSET Live'
    BY DEF Listed, Live
  <2>2. IsFiniteSet(Live')
    BY RowsInductive DEF RowsFinite
  <2>3. QED
    BY <2>1, <2>2, FS_Subset
<1>7. ASSUME NEW m \in request'.stayed \ request'.shown, request'.step # "done"
      PROVE  Cardinality(Newer(memory', after, m)) >= Offset(request'.page)
  <2>1. m \in request.stayed \ request.shown /\ m \in before /\ request.step # "done"
    BY <1>4, <1>7
  <2>2. PICK old : old = Newer(memory, before, m)
    OBVIOUS
  <2>3. PICK new : new = Newer(memory', after, m)
    OBVIOUS
  <2>4. old \in SUBSET new /\ new \in SUBSET after
    BY <1>3, <1>5, <2>1, <2>2, <2>3 DEF Newer
  <2>5. IsFiniteSet(new)
    BY <1>6, <2>4, FS_Subset
  <2>6. IsFiniteSet(old) /\ Cardinality(old) <= Cardinality(new)
    BY <2>4, <2>5, FS_Subset
  <2>7. Cardinality(old) \in Nat /\ Cardinality(new) \in Nat
    BY <2>5, <2>6, FS_CardinalityType
  <2>8. Cardinality(old) >= Offset(request.page) /\ Offset(request.page) \in Nat
    BY <1>1, <1>4, <2>1, <2>2, OffsetShape
  <2>9. QED
    BY <2>3, <2>6, <2>7, <2>8
<1>8. request'.stayed \subseteq after
  OBVIOUS
<1>9. request'.step = "done" => request'.stayed \subseteq request'.shown
  BY <1>4
<1>10. QED
  BY <1>3, <1>7, <1>8, <1>9

LEMMA PagesInductive ==
    ASSUME TypeOK, RowsFinite, PagesSound, [Next]_vars
    PROVE  PagesSound'
<1>1. SUFFICES ASSUME request' # Idle, request'.op = "list" PROVE PagesKept(memory', request')
  BY DEF PagesSound
<1>2. CASE ListBegin
  <2>1. PICK access \in SUBSET WsIds :
           request' = [op |-> "list", page |-> 1, access |-> access, shown |-> {},
                       step |-> "rows", stayed |-> In(access), shrunk |-> FALSE,
                       tied |-> Tied(In(access))]
    BY <1>2 DEF ListBegin
  <2>2. memory' = memory
    BY <1>2 DEF ListBegin
  <2>3. PICK list : list = In(access) /\ list = Listed(memory, access) /\ Tied(list) = TiedIn(memory, list)
    BY ListedIsIn
  <2>4. PICK t : t = TiedIn(memory, list)
    OBVIOUS
  <2>5. /\ request'.page = 1 /\ request'.access = access /\ request'.shown = {}
        /\ request'.step = "rows" /\ request'.stayed = list /\ request'.shrunk = FALSE
        /\ request'.tied = t
    BY <2>1, <2>3, <2>4
  <2>6. Offset(1) = 0
    BY SizesShape DEF Offset
  <2>7. \A m : Cardinality(Newer(memory, list, m)) \in Nat
    <3>1. TAKE m
    <3>2. Newer(memory, list, m) \in SUBSET Live
      BY <2>3 DEF Newer, In
    <3>3. IsFiniteSet(Newer(memory, list, m))
      BY <3>2, FS_Subset DEF RowsFinite
    <3>4. QED
      BY <3>3, FS_CardinalityType
  <2>8. Listed(memory', request'.access) = list
    BY <2>2, <2>3, <2>5
  <2>9. \A m : Cardinality(Newer(memory', list, m)) >= Offset(request'.page)
    BY <2>2, <2>5, <2>6, <2>7
  <2>10. ~request'.tied => ~TiedIn(memory', list)
    BY <2>2, <2>4, <2>5
  <2>11. request'.page \in Nat \ {0}
    BY <2>5
  <2>12. QED
    BY <2>5, <2>8, <2>9, <2>10, <2>11 DEF PagesKept
<1>3. CASE ListRows
  BY <1>3, RowsKept
<1>4. CASE UNCHANGED <<memory, request>>
  BY <1>1, <1>4 DEF PagesSound
<1>5. CASE ~ListBegin /\ ~ListRows /\ ~UNCHANGED <<memory, request>>
  <2>1. PICK before, after :
           /\ before = Listed(memory, request.access) /\ after = Listed(memory', request'.access)
           /\ request \in ListRequest /\ request' \in ListRequest
           /\ request'.page = request.page /\ request'.shown = request.shown
           /\ \/ request'.step = request.step
              \/ request.step = "next" /\ request'.step = "rows"
           /\ request'.stayed = request.stayed \cap after
           /\ request'.shrunk = (request.shrunk \/ ~(before \subseteq after))
           /\ request'.tied = (request.tied \/ TiedIn(memory', after))
    BY <1>1, <1>5, PagesMove
  <2>2. request # Idle /\ request.op = "list"
    BY <2>1 DEF ListRequest, Idle
  <2>3. PagesKept(memory, request)
    BY <2>2 DEF PagesSound
  <2>4. QED
    BY <2>1, <2>3, ChangesKept
<1>6. QED
  BY <1>2, <1>3, <1>4, <1>5

LEMMA AskedInductive ==
    ASSUME TypeOK, AskedFinite, [Next]_vars
    PROVE  AskedFinite'
<1>1. SUFFICES ASSUME request' # Idle, request'.op = "tags" PROVE IsFiniteSet(request'.asked)
  BY DEF AskedFinite
<1>2. CASE TagSearchBegin
  <2>1. PICK asked \in {S \in SUBSET RawTags : IsFiniteSet(S)},
             operation \in {"AND", "OR"}, access \in SUBSET WsIds :
           request' = [op |-> "tags", asked |-> asked, operation |-> operation,
                       access |-> access, answer |-> {}, step |-> "select"]
    BY <1>2 DEF TagSearchBegin
  <2>2. QED
    BY <2>1
<1>3. CASE TagSearch
  <2>1. request # Idle /\ request.op = "tags" /\ request \in TagRequest
    BY <1>3, TagShape DEF TagSearch, AtStep
  <2>2. request'.asked = request.asked
    BY <1>3, <2>1 DEF TagSearch, TagRequest
  <2>3. QED
    BY <2>1, <2>2 DEF AskedFinite
<1>4. CASE UNCHANGED request
  BY <1>1, <1>4 DEF AskedFinite
<1>5. QED
  BY <1>1, <1>2, <1>3, <1>4, TagMoves DEF Searches

LEMMA InitIInv == Init => IInv
<1>1. SUFFICES ASSUME Init PROVE IInv
  OBVIOUS
<1>2. request = Idle /\ Live = {}
  BY <1>1 DEF Init, Live
<1>3. TypeOK
  BY <1>1 DEF Init, TypeOK
<1>4. RowsFinite
  BY <1>2, FS_EmptySet DEF RowsFinite
<1>5. ReadSound /\ PagesSound /\ AskedFinite
  BY <1>2 DEF ReadSound, PagesSound, AskedFinite
<1>6. FusedSound /\ DatedInPeriod
  BY <1>2 DEF FusedSound, BetterComesFirst, TextHitsKept, ShownAsScored, Fused, DatedInPeriod, AtStep
<1>7. QED
  BY <1>3, <1>4, <1>5, <1>6 DEF IInv

LEMMA IInvInductive == IInv /\ [Next]_vars => IInv'
<1>1. SUFFICES ASSUME IInv, [Next]_vars PROVE IInv'
  OBVIOUS
<1>2. /\ TypeOK /\ RowsFinite /\ ReadSound /\ DatedInPeriod /\ PagesSound /\ AskedFinite
      /\ BetterComesFirst /\ TextHitsKept /\ ShownAsScored
  BY <1>1 DEF IInv, FusedSound
<1>3. TypeOK' /\ RowsFinite' /\ ReadSound'
  BY <1>1, <1>2, TypeInductive, RowsInductive, ReadInductive
<1>4. FusedSound'
  BY <1>1, <1>2, BetterInductive, KeptInductive, ShownInductive DEF FusedSound
<1>5. DatedInPeriod' /\ PagesSound' /\ AskedFinite'
  BY <1>1, <1>2, DatedInductive, PagesInductive, AskedInductive
<1>6. QED
  BY <1>3, <1>4, <1>5 DEF IInv

LEMMA Invariant == Spec => []IInv
  BY InitIInv, IInvInductive, PTL DEF Spec

-----------------------------------------------------------------------------
(* search_by_tag                                                           *)

(* The tags that are found of those that are asked for: as many as spelled *)
(* out only if they are all there, and if they are all there and spelled   *)
(* once, as many.                                                          *)
LEMMA TagsFound ==
    ASSUME NEW asked \in SUBSET RawTags, IsFiniteSet(asked), NEW doc
    PROVE  LET named == {t \in asked : Normal[t] # Blank}
               has == TagsOf[doc] \cap TagsAsked(named)
           IN  /\ TagsAsked(asked) = TagsAsked(named)
               /\ Cardinality(has) > 0 <=> has # {}
               /\ Cardinality(has) = Cardinality(named) => has = TagsAsked(named)
               /\ (/\ has = TagsAsked(named)
                   /\ \A t, u \in named : Normal[t] = Normal[u] => t = u)
                     => Cardinality(has) = Cardinality(named)
<1>1. PICK named : named = {t \in asked : Normal[t] # Blank}
  OBVIOUS
<1>2. PICK image : image = {Normal[t] : t \in named}
  OBVIOUS
<1>3. PICK has : has = TagsOf[doc] \cap TagsAsked(named)
  OBVIOUS
<1>4. TagsAsked(named) = image /\ TagsAsked(asked) = image
  BY <1>1, <1>2 DEF TagsAsked
<1>5. IsFiniteSet(named)
  BY <1>1, FS_Subset
<1>6. IsFiniteSet(image) /\ Cardinality(image) <= Cardinality(named)
  BY <1>2, <1>5, FiniteImage
<1>7. has \in SUBSET image
  BY <1>3, <1>4
<1>8. /\ IsFiniteSet(has) /\ Cardinality(has) <= Cardinality(image)
      /\ Cardinality(image) = Cardinality(has) => image = has
  BY <1>6, <1>7, FS_Subset
<1>9. Cardinality(has) \in Nat /\ Cardinality(image) \in Nat /\ Cardinality(named) \in Nat
  BY <1>5, <1>6, <1>8, FS_CardinalityType
<1>10. Cardinality(has) > 0 <=> has # {}
  BY <1>8, <1>9, FS_EmptySet
<1>11. Cardinality(has) = Cardinality(named) => has = image
  BY <1>6, <1>8, <1>9
<1>12. ASSUME has = image, \A t, u \in named : Normal[t] = Normal[u] => t = u
       PROVE  Cardinality(has) = Cardinality(named)
  BY <1>2, <1>5, <1>12, InjectiveImage
<1>13. QED
  BY <1>1, <1>3, <1>4, <1>10, <1>11, <1>12

LEMMA TagSearchStep ==
    ASSUME TypeOK, AskedFinite, TagSearch, NEW m \in In(request.access)
    PROVE  LET asked == {t \in request.asked : Normal[t] # Blank}
               has == TagsOf[memory[m].doc] \cap TagsAsked(asked)
               found == m \in request'.answer
           IN  IF request.operation = "OR" THEN found = (has # {})
               ELSE /\ found => has = TagsAsked(asked)
                    /\ (has = TagsAsked(asked) /\ \A t, u \in asked : Normal[t] = Normal[u] => t = u)
                          => found
<1>1. request \in TagRequest /\ IsFiniteSet(request.asked)
  BY TagShape DEF TagSearch, AtStep, AskedFinite
<1>2. PICK answer : /\ answer = {x \in In(request.access) :
                                    HasTags(memory[x].doc, request.asked, request.operation)}
                    /\ request' = [request EXCEPT !.step = "done", !.answer = answer]
  BY DEF TagSearch
<1>3. request'.answer = answer
  BY <1>1, <1>2 DEF TagRequest
<1>4. PICK doc : doc = memory[m].doc
  OBVIOUS
<1>5. PICK named : named = {t \in request.asked : Normal[t] # Blank}
  OBVIOUS
<1>6. PICK has : has = TagsOf[doc] \cap TagsAsked(named)
  OBVIOUS
<1>7. request.asked \in SUBSET RawTags /\ request.operation \in {"AND", "OR"}
  BY <1>1 DEF TagRequest
<1>8. /\ TagsAsked(request.asked) = TagsAsked(named)
      /\ Cardinality(has) > 0 <=> has # {}
      /\ Cardinality(has) = Cardinality(named) => has = TagsAsked(named)
      /\ (/\ has = TagsAsked(named)
          /\ \A t, u \in named : Normal[t] = Normal[u] => t = u)
            => Cardinality(has) = Cardinality(named)
  BY <1>1, <1>5, <1>6, <1>7, TagsFound
<1>9. HasTags(doc, request.asked, request.operation)
         <=> IF request.operation = "AND" THEN Cardinality(has) = Cardinality(named)
                                          ELSE Cardinality(has) > 0
  BY <1>5, <1>6, <1>8 DEF HasTags
<1>10. m \in request'.answer <=> HasTags(doc, request.asked, request.operation)
  BY <1>2, <1>3, <1>4
<1>11. CASE request.operation = "OR"
  BY <1>4, <1>5, <1>6, <1>8, <1>9, <1>10, <1>11
<1>12. CASE request.operation = "AND"
  BY <1>4, <1>5, <1>6, <1>8, <1>9, <1>10, <1>12
<1>13. QED
  BY <1>7, <1>11, <1>12

-----------------------------------------------------------------------------
(* The theorems                                                            *)

(* Memories are rows of the table, the reader's request is one of the      *)
(* three kinds, and a search never answers more than its limit.            *)
THEOREM TypeCorrect == Spec => []TypeOK
<1>1. IInv => TypeOK
  BY DEF IInv
<1>2. QED
  BY <1>1, Invariant, PTL

(* Reciprocal rank fusion, the threshold and the limit of hybrid_search    *)
(* leave every hit after all the memories that one of the statements ranks *)
(* before it and the other does not rank after it, whatever the limit, the *)
(* window and the constant of the formula are, and whatever was written    *)
(* between the statements.                                                 *)
THEOREM BetterTheorem == Spec => []BetterComesFirst
<1>1. IInv => BetterComesFirst
  BY DEF IInv, FusedSound
<1>2. QED
  BY <1>1, Invariant, PTL

(* A search leaves out a full-text match only for other hits, and shows    *)
(* nothing else that is farther than the threshold.                        *)
THEOREM KeptTheorem == Spec => []TextHitsKept
<1>1. IInv => TextHitsKept
  BY DEF IInv, FusedSound
<1>2. QED
  BY <1>1, Invariant, PTL

(* A hit is shown with the workspace, the content and the similarity of    *)
(* one moment, in a workspace of the caller, also when the statements saw  *)
(* the memory in different places or with different content.               *)
THEOREM ShownTheorem == Spec => []ShownAsScored
<1>1. IInv => ShownAsScored
  BY DEF IInv, FusedSound
<1>2. QED
  BY <1>1, Invariant, PTL

(* A recall or a search page that is answered gives every hit its date, in *)
(* the period that was asked for, whatever was deleted meanwhile.          *)
THEOREM DatedTheorem == Spec => []DatedInPeriod
<1>1. IInv => DatedInPeriod
  BY DEF IInv
<1>2. QED
  BY <1>1, Invariant, PTL

(* A client that turns the pages of list_memories to the end has been shown*)
(* every memory that was in the list all the time, for pages of any size   *)
(* and any number of writes, if no memory left the list and no two have    *)
(* the same time.                                                          *)
THEOREM NothingSkippedTheorem == Spec => []NothingSkipped
<1>1. IInv => NothingSkipped
  <2>1. SUFFICES ASSUME IInv, AtStep({"list"}, "done"), ~request.shrunk, ~request.tied
                 PROVE  request.stayed \subseteq request.shown
    BY DEF NothingSkipped
  <2>2. request # Idle /\ request.op = "list" /\ request.step = "done"
    BY <2>1 DEF AtStep
  <2>3. PagesKept(memory, request)
    BY <2>1, <2>2 DEF IInv, PagesSound
  <2>4. QED
    BY <2>1, <2>2, <2>3 DEF PagesKept
<1>2. QED
  BY <1>1, Invariant, PTL

(* search_by_tag finds, with OR, the memories that have one of the tags,   *)
(* and with AND none but those that have them all, and all of those when   *)
(* the caller spelled no tag twice, for any list of tags.                  *)
THEOREM TagSearchTheorem == Spec => TagSearchMeans
<1>1. IInv /\ [Next]_vars =>
             [TagSearch => \A m \in In(request.access) :
                LET asked == {t \in request.asked : Normal[t] # Blank}
                    has == TagsOf[memory[m].doc] \cap TagsAsked(asked)
                    found == m \in request'.answer
                IN  IF request.operation = "OR" THEN found = (has # {})
                    ELSE /\ found => has = TagsAsked(asked)
                         /\ (has = TagsAsked(asked) /\ \A t, u \in asked : Normal[t] = Normal[u] => t = u)
                               => found]_vars
  BY TagSearchStep DEF IInv
<1>2. QED
  BY <1>1, Invariant, PTL DEF Spec, TagSearchMeans

=============================================================================
