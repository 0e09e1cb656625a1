-------------------------- MODULE ContractsProofs --------------------------
(***************************************************************************)
(* More proofs about the parts of ProvedComponents, of the same form: the  *)
(* bus, what a service boots from, and the registry of scopes.             *)
(***************************************************************************)
EXTENDS EdgeProofs

-----------------------------------------------------------------------------
(* IntegrationBus: s1 streams, s2 frames, s3 durables, s4 lent, s5 settled, s6 opened, s7    *)
(* held, s8 declared, s9 said.                                                                *)

\* A name of one token is that token.
LEMMA OneToken ==
  ASSUME NEW name \in Seq(STRING), Len(name) = 1
  PROVE  name = <<name[1]>>
BY LenProperties, SeqEqual

\* A coordinate is of the broker's classes and versions, and its names are of one token.
LEMMA CoordsAre ==
  ASSUME NEW coords \in Bus!Coords
  PROVE  /\ coords = [class |-> coords.class, owner |-> <<coords.owner[1]>>,
                      aggregate |-> <<coords.aggregate[1]>>, fact |-> <<coords.fact[1]>>,
                      version |-> coords.version]
         /\ coords.class \in Bus!Class /\ coords.version \in Bus!VersionToken
<1>1. /\ coords \in BusRaw
      /\ Len(coords.owner) = 1 /\ Len(coords.aggregate) = 1 /\ Len(coords.fact) = 1
  BY DEF Bus!Coords, Bus!IsCoords, Bus!Segment
<1>2. /\ coords.owner = <<coords.owner[1]>> /\ coords.aggregate = <<coords.aggregate[1]>>
      /\ coords.fact = <<coords.fact[1]>>
  BY <1>1, BusConstants, OneToken
<1>3. QED
  BY <1>1, <1>2, BusConstants

\* A sequence of six is its six elements.
LEMMA SixTokens ==
  ASSUME NEW T, NEW s \in Seq(T), Len(s) = 6
  PROVE  s = <<s[1], s[2], s[3], s[4], s[5], s[6]>>
<1>1. /\ DOMAIN s = 1..6
  BY LenProperties
<1>2. s = [i \in 1..6 |-> s[i]]
  BY <1>1
<1>3. QED
  BY <1>1

\* A subject has six tokens: the coordinate's, in their places.
LEMMA SubjectIs ==
  ASSUME NEW coords \in Bus!Coords
  PROVE  Bus!Subject(coords) =
           <<"integration", coords.class, coords.owner[1], coords.aggregate[1], coords.fact[1],
             coords.version>>
<1> DEFINE T == {"integration", coords.class, coords.owner[1], coords.aggregate[1], coords.fact[1],
                 coords.version}
           w2 == <<"integration", coords.class>>
           w3 == w2 \o coords.owner
           w4 == w3 \o coords.aggregate
           w5 == w4 \o coords.fact
           w6 == w5 \o <<coords.version>>
<1>1. /\ coords.owner = <<coords.owner[1]>> /\ coords.aggregate = <<coords.aggregate[1]>>
      /\ coords.fact = <<coords.fact[1]>>
  BY CoordsAre
<1>2. /\ w2 \in Seq(T) /\ Len(w2) = 2
      /\ w2[1] = "integration" /\ w2[2] = coords.class
  OBVIOUS
<1>3. /\ coords.owner \in Seq(T) /\ coords.aggregate \in Seq(T) /\ coords.fact \in Seq(T)
      /\ <<coords.version>> \in Seq(T)
  <2>1. \A S : \A e \in S : <<e>> \in Seq(S)
    OBVIOUS
  <2>2. /\ <<coords.owner[1]>> \in Seq(T) /\ <<coords.aggregate[1]>> \in Seq(T)
        /\ <<coords.fact[1]>> \in Seq(T) /\ <<coords.version>> \in Seq(T)
    BY <2>1
  <2>3. QED
    BY <1>1, <2>2
<1>4. Len(coords.owner) = 1 /\ Len(coords.aggregate) = 1 /\ Len(coords.fact) = 1
  BY <1>1
<1> HIDE DEF T, w2
<1>5. Adds(T, w3, w2, coords.owner[1]) /\ w3 \in Seq(T) /\ Len(w3) = 3
  <2>1. Adds(T, w3, w2, coords.owner[1])
    BY <1>1, <1>2, <1>3, <1>4, Joined
  <2> HIDE DEF w3
  <2>2. w3 \in Seq(T) /\ Len(w3) = 3
    BY ONLY <1>2, <2>1 DEF Adds
  <2>3. QED
    BY <2>1, <2>2
<1> HIDE DEF w3
<1>6. Adds(T, w4, w3, coords.aggregate[1]) /\ w4 \in Seq(T) /\ Len(w4) = 4
  <2>1. Adds(T, w4, w3, coords.aggregate[1])
    BY <1>1, <1>3, <1>4, <1>5, Joined
  <2> HIDE DEF w4
  <2>2. w4 \in Seq(T) /\ Len(w4) = 4
    BY ONLY <1>5, <2>1 DEF Adds
  <2>3. QED
    BY <2>1, <2>2
<1> HIDE DEF w4
<1>7. Adds(T, w5, w4, coords.fact[1]) /\ w5 \in Seq(T) /\ Len(w5) = 5
  <2>1. Adds(T, w5, w4, coords.fact[1])
    BY <1>1, <1>3, <1>4, <1>6, Joined
  <2> HIDE DEF w5
  <2>2. w5 \in Seq(T) /\ Len(w5) = 5
    BY ONLY <1>6, <2>1 DEF Adds
  <2>3. QED
    BY <2>1, <2>2
<1> HIDE DEF w5
<1>8. Adds(T, w6, w5, coords.version) /\ w6 \in Seq(T) /\ Len(w6) = 6
  <2>1. Adds(T, w6, w5, <<coords.version>>[1])
    BY <1>3, <1>7, Joined
  <2> HIDE DEF w6
  <2>2. w6 \in Seq(T) /\ Len(w6) = 6
    BY ONLY <1>7, <2>1 DEF Adds
  <2>3. QED
    BY <2>1, <2>2
<1> HIDE DEF w6
<1>9. w6 = <<w6[1], w6[2], w6[3], w6[4], w6[5], w6[6]>>
  BY <1>8, SixTokens
<1>10. /\ w6[1] = "integration" /\ w6[2] = coords.class /\ w6[3] = coords.owner[1]
       /\ w6[4] = coords.aggregate[1] /\ w6[5] = coords.fact[1] /\ w6[6] = coords.version
  BY ONLY <1>2, <1>5, <1>6, <1>7, <1>8 DEF Adds
<1>11. Bus!Subject(coords) = w6
  BY DEF Bus!Subject, w6, w5, w4, w3, w2
<1>12. QED
  BY <1>9, <1>10, <1>11

\* No two coordinates have one subject.
LEMMA SubjectTells ==
  ASSUME NEW c \in Bus!Coords, NEW d \in Bus!Coords, Bus!Subject(c) = Bus!Subject(d)
  PROVE  c = d
BY CoordsAre, SubjectIs

\* The subject of an event reads back as its coordinate, and as no other.
LEMMA ReadsBack ==
  ASSUME NEW c \in Bus!Coords, c.class = "evt"
  PROVE  Bus!ParseEventSubject(Bus!Subject(c)) = {c}
<1> DEFINE s == Bus!Subject(c)
<1>1. s = <<"integration", "evt", c.owner[1], c.aggregate[1], c.fact[1], c.version>>
  BY SubjectIs
<1>2. Len(s) = 6 /\ SubSeq(s, 1, 2) = <<"integration", "evt">> /\ s[6] \in Bus!VersionToken
  <2>1. Len(s) = 6 /\ s[6] \in Bus!VersionToken
    BY <1>1, CoordsAre
  <2>2. SubSeq(s, 1, 2) = <<s[1], s[2]>>
    <3> HIDE DEF s
    <3> DEFINE r == SubSeq(s, 1, 2)
    <3>1. r \in Seq({s[1], s[2]}) /\ Len(r) = 2 /\ \A i \in 1..2 : r[i] = s[1 + i - 1]
      BY SubSeqProperties
    <3> HIDE DEF r
    <3>2. DOMAIN r = 1..2 /\ r[1] = s[1] /\ r[2] = s[2]
      BY <3>1, LenProperties
    <3>3. r = [i \in 1..2 |-> r[i]]
      BY <3>1, <3>2
    <3>4. r = <<r[1], r[2]>>
      BY <3>3
    <3>5. QED
      BY <3>2, <3>4 DEF r
  <2>3. QED
    BY <1>1, <2>1, <2>2
<1>3. c = [class |-> "evt", owner |-> <<s[3]>>, aggregate |-> <<s[4]>>, fact |-> <<s[5]>>,
           version |-> s[6]]
  BY <1>1, CoordsAre
<1>4. Bus!IsCoords(c)
  BY DEF Bus!Coords
<1> HIDE DEF s
<1>5. QED
  BY <1>2, <1>3, <1>4 DEF Bus!ParseEventSubject, s

\* What PatternCovers computes from the n-th token on: the rest of the pattern covers the rest of
\* the subject.
Rest(p, s, n) ==
  IF n > Len(p) THEN Len(s) = Len(p)
  ELSE /\ IF p[Len(p)] = ">" THEN Len(s) >= Len(p) ELSE Len(s) = Len(p)
       /\ \A m \in n..Len(p) : \/ m = Len(p) /\ p[m] = ">"
                               \/ p[m] # ">" /\ p[m] \in {"*", s[m]}

\* One round of its recursion: what it says from n on, when f says it from the next token on.
Round(f, p, s, n) ==
  IF n > Len(p) THEN Len(s) = Len(p)
  ELSE /\ n <= Len(s)
       /\ CASE p[n] = ">" -> n = Len(p)
            [] p[n] = "*" -> f[n + 1]
            [] OTHER -> p[n] = s[n] /\ f[n + 1]

\* What Rest says from n on is a round over what it says from the next token on.
LEMMA RestRound ==
  ASSUME NEW T, NEW p \in Seq(T), NEW U, NEW s \in Seq(U), NEW n \in 1..Len(p), NEW f,
         f[n + 1] <=> Rest(p, s, n + 1)
  PROVE  Round(f, p, s, n) <=> Rest(p, s, n)
<1>1. Len(p) \in Nat /\ Len(s) \in Nat /\ n \in Nat /\ n <= Len(p) /\ 1 <= n
  BY LenProperties
<1>2. CASE n = Len(p)
  <2>1. Rest(p, s, n + 1) <=> Len(s) = Len(p)
    BY <1>1, <1>2 DEF Rest
  <2>2. Rest(p, s, n) <=>
          /\ IF p[n] = ">" THEN Len(s) >= n ELSE Len(s) = n
          /\ p[n] = ">" \/ (p[n] # ">" /\ p[n] \in {"*", s[n]})
    <3>1. \A m \in n..Len(p) : m = n
      BY <1>1, <1>2
    <3>2. QED
      BY <1>1, <1>2, <3>1 DEF Rest
  <2>3. CASE p[n] = ">"
    BY <1>1, <1>2, <2>2, <2>3 DEF Round, Rest
  <2>4. CASE p[n] = "*"
    BY <1>1, <1>2, <2>1, <2>2, <2>4 DEF Round, Rest
  <2>5. CASE p[n] # ">" /\ p[n] # "*"
    BY <1>1, <1>2, <2>1, <2>2, <2>5 DEF Round, Rest
  <2>6. QED
    BY <2>3, <2>4, <2>5
<1>3. CASE n # Len(p)
  <2>1. n < Len(p) /\ n + 1 <= Len(p)
    BY <1>1, <1>3
  <2>2. Rest(p, s, n) <=> (p[n] # ">" /\ p[n] \in {"*", s[n]}) /\ Rest(p, s, n + 1)
    <3>1. \A m : m \in n..Len(p) <=> m = n \/ m \in (n + 1)..Len(p)
      BY <1>1, <2>1
    <3>2. ~ (n > Len(p)) /\ ~ (n + 1 > Len(p))
      BY <1>1, <2>1
    <3>3. QED
      BY <1>3, <3>1, <3>2 DEF Rest
  <2>3. Rest(p, s, n + 1) => n <= Len(s)
    BY <1>1, <2>1 DEF Rest
  <2>4. CASE p[n] = ">"
    BY <1>1, <1>3, <2>1, <2>2, <2>4 DEF Round
  <2>5. CASE p[n] = "*"
    BY <1>1, <1>3, <2>1, <2>2, <2>3, <2>5 DEF Round
  <2>6. CASE p[n] # ">" /\ p[n] # "*"
    BY <1>1, <1>3, <2>1, <2>2, <2>3, <2>6 DEF Round
  <2>7. QED
    BY <2>4, <2>5, <2>6
<1>4. QED
  BY <1>2, <1>3

\* The recursion has one solution, and it is Rest.
LEMMA RestSolves ==
  ASSUME NEW T, NEW p \in Seq(T), NEW U, NEW s \in Seq(U), NEW f,
         f = [n \in 1..Len(p) + 1 |-> Rest(p, s, n)]
  PROVE  f = [n \in 1..Len(p) + 1 |-> Round(f, p, s, n)]
<1>1. Len(p) \in Nat
  BY LenProperties
<1>2. \A n \in 1..Len(p) + 1 : Rest(p, s, n) <=> Round(f, p, s, n)
  <2>1. TAKE n \in 1..Len(p) + 1
  <2>2. CASE n > Len(p)
    BY <2>2 DEF Rest, Round
  <2>3. CASE ~ (n > Len(p))
    <3>1. n \in 1..Len(p) /\ n + 1 \in 1..Len(p) + 1
      BY <1>1, <2>3
    <3>2. f[n + 1] <=> Rest(p, s, n + 1)
      BY <3>1
    <3>3. QED
      BY <3>1, <3>2, RestRound
  <2>4. QED
    BY <2>2, <2>3
<1>3. \A n \in 1..Len(p) + 1 : Rest(p, s, n) = Round(f, p, s, n)
  <2>1. TAKE n \in 1..Len(p) + 1
  <2>2. Rest(p, s, n) \in BOOLEAN
    BY DEF Rest
  <2>3. Round(f, p, s, n) \in BOOLEAN
    BY DEF Round
  <2>4. QED
    BY <1>2, <2>2, <2>3
<1>4. QED
  BY <1>3

\* What the recursion computes from the first token on.
LEMMA RestIsAll ==
  ASSUME NEW T, NEW p \in Seq(T), NEW U, NEW s \in Seq(U), NEW f,
         f = [n \in 1..Len(p) + 1 |-> Round(f, p, s, n)]
  PROVE  f[1] <=> Rest(p, s, 1)
<1> DEFINE L == Len(p) + 1
           S == {k \in Nat : L - k \in 1..L => (f[L - k] <=> Rest(p, s, L - k))}
<1>1. Len(p) \in Nat /\ L \in Nat
  BY LenProperties
<1>2. \A n \in 1..L : f[n] <=> Round(f, p, s, n)
  BY <1>1
<1>3. 0 \in S
  <2>1. L - 0 = L /\ L \in 1..L /\ L > Len(p)
    BY <1>1
  <2>2. Round(f, p, s, L) <=> Rest(p, s, L)
    BY <2>1 DEF Rest, Round
  <2> HIDE DEF L
  <2>3. QED
    BY <1>2, <2>1, <2>2
<1>4. ASSUME NEW k \in S
      PROVE  k + 1 \in S
  <2> DEFINE n == L - (k + 1)
  <2>1. SUFFICES ASSUME n \in 1..L PROVE f[n] <=> Rest(p, s, n)
    OBVIOUS
  <2>2. k \in Nat /\ n + 1 = L - k
    BY <1>1
  <2>3. n \in 1..Len(p) /\ n + 1 \in 1..L
    BY <1>1, <2>1, <2>2
  <2>4. f[n + 1] <=> Rest(p, s, n + 1)
    <3>1. L - k \in 1..L => (f[L - k] <=> Rest(p, s, L - k))
      OBVIOUS
    <3> HIDE DEF L, S, n
    <3>2. QED
      BY <2>2, <2>3, <3>1
  <2>5. Round(f, p, s, n) <=> Rest(p, s, n)
    BY <2>3, <2>4, RestRound
  <2> HIDE DEF n
  <2>6. QED
    BY <1>2, <2>1, <2>5
<1>5. S = Nat
  <2>1. S \in SUBSET Nat
    OBVIOUS
  <2> HIDE DEF S
  <2>2. QED
    BY <1>3, <1>4, <2>1, SetInduction
<1>6. Len(p) \in S
  <2> HIDE DEF S
  <2> QED BY <1>1, <1>5
<1>7. L - Len(p) = 1 /\ 1 \in 1..L
  BY <1>1
<1>8. QED
  BY <1>6, <1>7

\* Of a pattern and a subject that are there, the program's cover is the broker's match.
LEMMA Covered ==
  ASSUME NEW T, NEW p \in Seq(T), NEW U, NEW s \in Seq(U), s # <<>>
  PROVE  Bus!PatternCovers(p, s) <=> Bus!Matches(p, s)
<1> DEFINE f == CHOOSE g : g = [n \in 1..Len(p) + 1 |-> Round(g, p, s, n)]
<1>1. f[1] <=> Rest(p, s, 1)
  <2>1. f = [n \in 1..Len(p) + 1 |-> Round(f, p, s, n)]
    <3> DEFINE r == [n \in 1..Len(p) + 1 |-> Rest(p, s, n)]
    <3>1. r = [n \in 1..Len(p) + 1 |-> Round(r, p, s, n)]
      <4>1. \A g : g = r => g = [n \in 1..Len(p) + 1 |-> Round(g, p, s, n)]
        BY RestSolves
      <4> HIDE DEF r
      <4>2. QED
        BY <4>1
    <3> HIDE DEF r
    <3>2. QED
      BY <3>1
  <2> HIDE DEF f
  <2>2. QED
    BY <2>1, RestIsAll
<1>2. Bus!PatternCovers(p, s) <=> p # <<>> /\ s # <<>> /\ f[1]
  BY DEF Bus!PatternCovers, Round
<1>3. /\ Len(p) \in Nat /\ Len(s) \in Nat /\ Len(s) # 0
      /\ p = <<>> <=> Len(p) = 0
  BY LenProperties, EmptySeq
<1> HIDE DEF f
<1>4. CASE p = <<>>
  BY <1>2, <1>3, <1>4 DEF Bus!Matches
<1>5. CASE p # <<>> /\ p[Len(p)] = ">"
  <2> DEFINE fixed == Bus!Front(p)
  <2>1. /\ Len(fixed) = Len(p) - 1 /\ DOMAIN fixed = 1..Len(p) - 1
        /\ \A n \in 1..Len(p) - 1 : fixed[n] = p[n]
    <3>1. \A n \in 1..Len(p) - 1 : p[n] \in T
      BY <1>3, ElementOfSeq
    <3> DEFINE k == Len(p) - 1
               r == SubSeq(p, 1, k)
    <3>2. k \in Int /\ k >= 0 /\ k - 1 + 1 = k /\ 1 \in Int
      BY <1>3, <1>5
    <3>3. /\ r \in Seq(T) /\ Len(r) = IF 1 <= k THEN k - 1 + 1 ELSE 0
          /\ \A n \in 1..k - 1 + 1 : r[n] = p[1 + n - 1]
      <4> HIDE DEF k
      <4> QED BY <3>1, <3>2, SubSeqProperties DEF k
    <3>4. fixed = r
      BY DEF Bus!Front
    <3> HIDE DEF r, k
    <3>5. Len(r) = k /\ \A n \in 1..k : r[n] = p[n]
      BY <3>2, <3>3
    <3>6. QED
      BY <3>3, <3>4, <3>5, LenProperties DEF k
  <2> HIDE DEF fixed
  <2>2. Bus!Matches(p, s) <=> /\ Len(s) > Len(fixed)
                              /\ \A n \in DOMAIN fixed : fixed[n] # ">" /\ fixed[n] \in {"*", s[n]}
    BY <1>5 DEF Bus!Matches, Bus!Last, fixed
  <2>3. \A n : n \in 1..Len(p) <=> n = Len(p) \/ n \in 1..Len(p) - 1
    BY <1>3, <1>5
  <2>4. Rest(p, s, 1) <=> /\ Len(s) >= Len(p)
                          /\ \A n \in 1..Len(p) - 1 : p[n] # ">" /\ p[n] \in {"*", s[n]}
    BY <1>3, <1>5, <2>3 DEF Rest
  <2>5. Bus!Matches(p, s) <=> /\ Len(s) > Len(p) - 1
                              /\ \A n \in 1..Len(p) - 1 : p[n] # ">" /\ p[n] \in {"*", s[n]}
    BY <2>1, <2>2
  <2>6. Len(s) > Len(p) - 1 <=> Len(s) >= Len(p)
    BY <1>3
  <2>7. QED
    BY <1>1, <1>2, <1>5, <2>4, <2>5, <2>6
<1>6. CASE p # <<>> /\ p[Len(p)] # ">"
  <2>1. Bus!Matches(p, s) <=> /\ Len(s) = Len(p)
                              /\ \A n \in DOMAIN p : p[n] # ">" /\ p[n] \in {"*", s[n]}
    BY <1>6 DEF Bus!Matches, Bus!Last
  <2>2. DOMAIN p = 1..Len(p)
    BY LenProperties
  <2>3. Rest(p, s, 1) <=> /\ Len(s) = Len(p)
                          /\ \A n \in 1..Len(p) : p[n] # ">" /\ p[n] \in {"*", s[n]}
    BY <1>3, <1>6 DEF Rest
  <2>4. QED
    BY <1>1, <1>2, <1>6, <2>1, <2>2, <2>3
<1>7. QED
  BY <1>4, <1>5, <1>6

-----------------------------------------------------------------------------
BusInv == part = "bus" => Bus!Inv

LEMMA BusInit == ProvedInit => BusInv
<1>1. SUFFICES ASSUME Bus!Init PROVE Bus!Inv
  BY DEF ProvedInit, BusInv
<1>2. Bus!TypeOK
  BY <1>1 DEF Bus!Init, Bus!TypeOK, Bus!Nothing
<1>3. s2 \in Seq(Bus!Frames) /\ DOMAIN s7 = Actors
  BY <1>1, EmptySeq DEF Bus!Init
<1>4. s3 \in [Bus!Class -> [created : BOOLEAN, filters : SUBSET {Bus!Subject(w) : w \in Bus!Coords}]]
  BY <1>1 DEF Bus!Init, Bus!NoDurable
<1>5. Bus!Declared
  BY <1>1 DEF Bus!Init, Bus!Declared, Bus!NoDurable, Bus!Nothing
<1>6. Bus!ProbeAgrees
  BY <1>1 DEF Bus!Init, Bus!ProbeAgrees, Bus!Silence
<1>7. QED
  BY <1>2, <1>3, <1>4, <1>5, <1>6 DEF Bus!Inv

\* The classes whose stream takes a subject, of streams as they are or will be; and what an answer
\* says of them and of the frames.
TakersOf(streams, subject) ==
  {k \in Bus!Class : streams[k].present /\ \E p \in streams[k].subjects : Bus!Matches(p, subject)}

Agrees(kind, subject, streams, frames) ==
  /\ kind = "Covered" => subject[2] \in TakersOf(streams, subject)
  /\ kind = "SubjectNotCovered" => subject[2] \notin TakersOf(streams, subject)
  /\ kind = "acknowledged" => \E n \in DOMAIN frames : frames[n].subject = subject
  /\ kind = "NoStreamForSubject" => TakersOf(streams, subject) = {}

LEMMA BusSays ==
  /\ \A subject : Bus!Takers(subject) = TakersOf(s1, subject)
  /\ Bus!ProbeAgrees <=> Agrees(s9.kind, s9.subject, s1, s2)
  /\ Bus!ProbeAgrees' <=> Agrees(s9'.kind, s9'.subject, s1', s2')
<1>1. \A subject : Bus!Takers(subject) = TakersOf(s1, subject)
  BY DEF Bus!Takers, TakersOf
<1>2. Bus!ProbeAgrees <=> Agrees(s9.kind, s9.subject, s1, s2)
  BY DEF Bus!Takers, TakersOf, Bus!ProbeAgrees, Agrees
<1>3. Bus!ProbeAgrees' <=> Agrees(s9'.kind, s9'.subject, s1', s2')
  BY DEF Bus!Takers, TakersOf, Bus!ProbeAgrees, Agrees
<1>4. QED
  BY <1>1, <1>2, <1>3

\* Silence agrees with whatever the streams are, and so do words that say nothing of them.
LEMMA SilenceAgrees ==
  ASSUME NEW kind, NEW subject, NEW streams, NEW frames,
         kind \notin {"Covered", "SubjectNotCovered", "acknowledged", "NoStreamForSubject"}
  PROVE  Agrees(kind, subject, streams, frames)
BY DEF Agrees

\* What is kept of an answer: nothing, or the answer.
Kept(kind, subject) ==
  IF kind \in {"Other", "TimedOut", "PublishFailed"} THEN Bus!Silence
                                                       ELSE [kind |-> kind, subject |-> subject]

LEMMA SayKeeps ==
  ASSUME NEW kind, NEW subject, NEW streams, NEW frames, NEW after, after = Kept(kind, subject),
         Agrees(kind, subject, streams, frames)
  PROVE  Agrees(after.kind, after.subject, streams, frames)
<1>1. CASE kind \in {"Other", "TimedOut", "PublishFailed"}
  <2>1. after.kind = "none"
    BY <1>1 DEF Kept, Bus!Silence
  <2>2. QED
    BY <2>1, SilenceAgrees
<1>2. CASE kind \notin {"Other", "TimedOut", "PublishFailed"}
  <2>1. after.kind = kind /\ after.subject = subject
    BY <1>2 DEF Kept
  <2>2. QED
    BY <2>1
<1>3. QED
  BY <1>1, <1>2

LEMMA SilentKeeps ==
  ASSUME NEW streams, NEW frames, s9' = Bus!Silence
  PROVE  Agrees(s9'.kind, s9'.subject, streams, frames)
<1>1. s9'.kind = "none"
  BY DEF Bus!Silence
<1>2. QED
  BY <1>1, SilenceAgrees

LEMMA ConfigureKeeps ==
  ASSUME Bus!Inv, Bus!Configure
  PROVE  Bus!Inv'
<1>1. PICK lost \in SUBSET DOMAIN s2 : s4' = s4 \ lost /\ s5' = s5 \cup lost
  BY DEF Bus!Configure
<1>2. Bus!TypeOK'
  BY <1>1 DEF Bus!Inv, Bus!TypeOK, Bus!Configure
<1>3. s3' \in [Bus!Class -> [created : BOOLEAN, filters : SUBSET {Bus!Subject(w) : w \in Bus!Coords}]]
  BY DEF Bus!Inv, Bus!Configure, Bus!NoDurable
<1>4. Bus!Declared'
  BY DEF Bus!Inv, Bus!Configure, Bus!Declared, Bus!NoDurable
<1>5. Bus!ProbeAgrees'
  BY SilentKeeps, BusSays DEF Bus!Configure
<1>6. QED
  BY <1>2, <1>3, <1>4, <1>5 DEF Bus!Inv, Bus!Configure

\* What is left of the invariant when streams, frames and durables stay as they are.
LEMMA BusQuiet ==
  ASSUME Bus!Inv, UNCHANGED <<s1, s2, s3, s8>>, s9' = s9 \/ Agrees(s9'.kind, s9'.subject, s1, s2),
         s4' \cap s5' = {}, s4' \cup s5' \subseteq DOMAIN s2,
         s6' \in [Actors -> Bus!Class \cup {"none"}],
         DOMAIN s7' = Actors,
         \A c \in Actors : \/ s7'[c] \in {s7[c], Bus!Nothing}
                           \/ s7'[c].frame \in DOMAIN s2 /\ s2[s7'[c].frame].of \in s8
  PROVE  Bus!Inv'
<1>1. Bus!TypeOK'
  BY DEF Bus!Inv, Bus!TypeOK, Bus!Nothing
<1>2. Bus!Declared'
  BY DEF Bus!Inv, Bus!Declared
<1>3. Agrees(s9'.kind, s9'.subject, s1', s2')
  BY BusSays DEF Bus!Inv
<1>4. QED
  BY <1>1, <1>2, <1>3, BusSays DEF Bus!Inv

LEMMA ExpireKeeps ==
  ASSUME Bus!Inv, NEW n \in s4, Bus!Expire(n)
  PROVE  Bus!Inv'
BY BusQuiet DEF Bus!Inv, Bus!TypeOK, Bus!Expire

LEMMA ProgressKeeps ==
  ASSUME Bus!Inv, NEW c \in Actors, Bus!Progress(c)
  PROVE  Bus!Inv'
<1>1. s7[c].frame \in DOMAIN s2
  BY DEF Bus!Inv, Bus!Declared, Bus!Progress
<1>2. QED
  BY <1>1, BusQuiet DEF Bus!Inv, Bus!TypeOK, Bus!Progress

LEMMA DrainKeeps ==
  ASSUME Bus!Inv, NEW c \in Actors, Bus!Drain(c)
  PROVE  Bus!Inv'
BY BusQuiet DEF Bus!Inv, Bus!TypeOK, Bus!Drain

LEMMA SettleKeeps ==
  ASSUME Bus!Inv, NEW c \in Actors, NEW verdict, Bus!Settle(c, verdict)
  PROVE  Bus!Inv'
<1>1. s7[c].frame \in DOMAIN s2
  BY DEF Bus!Inv, Bus!Declared, Bus!Settle
<1>2. s4' \cap s5' = {} /\ s4' \cup s5' \subseteq DOMAIN s2
  BY <1>1 DEF Bus!Inv, Bus!TypeOK, Bus!Settle
<1>3. DOMAIN s7' = Actors /\ \A d \in Actors : s7'[d] \in {s7[d], Bus!Nothing}
  BY DEF Bus!Inv, Bus!Settle
<1>4. QED
  BY <1>2, <1>3, BusQuiet DEF Bus!Inv, Bus!TypeOK, Bus!Settle

LEMMA RecvKeeps ==
  ASSUME Bus!Inv, NEW c \in Actors, Bus!Recv(c)
  PROVE  Bus!Inv'
<1>1. PICK n \in Bus!Deliverable(s6[c]), informed \in BOOLEAN :
        /\ s4' = s4 \cup {n}
        /\ s7' = [s7 EXCEPT ![c] = [frame |-> n, payload |-> Bus!Payload(s2[n], informed)]]
  BY DEF Bus!Recv
<1>2. /\ n \in DOMAIN s2 /\ n \notin s4 /\ n \notin s5 /\ s6[c] \in Bus!Class
      /\ s3[s6[c]].created
      /\ s3[s6[c]].filters = {} \/ s2[n].subject \in s3[s6[c]].filters
  BY DEF Bus!Inv, Bus!TypeOK, Bus!Deliverable, Bus!Recv
<1>3. PICK w \in s8 : s2[n].subject = Bus!Subject(w)
  BY <1>2 DEF Bus!Inv, Bus!Declared
<1>4. s2[n] \in Bus!Frames
  BY <1>2, LenProperties, ElementOfSeq DEF Bus!Inv
<1>5. s2[n].of = w
  BY <1>3, <1>4, SubjectTells DEF Bus!Frames, Bus!Inv, Bus!TypeOK
<1>6. \A d \in Actors : s7'[d] = s7[d] \/ s7'[d].frame = n
  BY <1>1 DEF Bus!Inv
<1>7. DOMAIN s7' = Actors
  BY <1>1 DEF Bus!Inv
<1>8. s4' \cap s5' = {} /\ s4' \cup s5' \subseteq DOMAIN s2
  BY <1>1, <1>2 DEF Bus!Inv, Bus!TypeOK, Bus!Recv
<1>9. QED
  BY <1>2, <1>5, <1>6, <1>7, <1>8, BusQuiet DEF Bus!Inv, Bus!TypeOK, Bus!Recv

\* What is published, on whatever coordinate, is one frame more; `said` is of it or as it was.
LEMMA Published ==
  ASSUME Bus!Inv, NEW raw \in Bus!Coords, NEW readable \in BOOLEAN, NEW k \in Bus!Class,
         s2' = Append(s2, [subject |-> Bus!Subject(raw), of |-> raw, in |-> k,
                           readable |-> readable]),
         UNCHANGED <<s1, s3, s4, s5, s6, s7, s8>>,
         \/ s9' = s9
         \/ \E told \in {"acknowledged", "TimedOut", "PublishFailed"} :
              s9' = Kept(told, Bus!Subject(raw))
  PROVE  Bus!Inv'
<1> DEFINE f == [subject |-> Bus!Subject(raw), of |-> raw, in |-> k, readable |-> readable]
<1>1. f \in Bus!Frames
  BY DEF Bus!Frames
<1> HIDE DEF f
<1>2. /\ s2' \in Seq(Bus!Frames) /\ DOMAIN s2' = 1..Len(s2) + 1
      /\ s2'[Len(s2) + 1] = f
      /\ \A n \in DOMAIN s2 : n \in DOMAIN s2' /\ s2'[n] = s2[n]
  <2>1. s2' = Append(s2, f) /\ s2 \in Seq(Bus!Frames)
    BY DEF Bus!Inv, f
  <2>2. QED
    BY <1>1, <2>1, AppendProperties, LenProperties
<1>3. Bus!TypeOK'
  BY <1>2 DEF Bus!Inv, Bus!TypeOK
<1>4. Bus!Declared'
  BY <1>2 DEF Bus!Inv, Bus!Declared
<1>5. s1' = s1 /\ Agrees(s9.kind, s9.subject, s1, s2)
  BY BusSays DEF Bus!Inv
<1>6. ASSUME s9' = s9
      PROVE  Agrees(s9'.kind, s9'.subject, s1', s2')
  <2>1. s9'.kind = "acknowledged" => \E n \in DOMAIN s2' : s2'[n].subject = s9'.subject
    BY <1>2, <1>5, <1>6 DEF Agrees
  <2>2. QED
    BY <1>5, <1>6, <2>1 DEF Agrees
<1>7. ASSUME NEW told \in {"acknowledged", "TimedOut", "PublishFailed"},
             s9' = Kept(told, Bus!Subject(raw))
      PROVE  Agrees(s9'.kind, s9'.subject, s1', s2')
  <2>1. Len(s2) + 1 \in DOMAIN s2'
    BY <1>2, LenProperties DEF Bus!Inv
  <2>2. s2'[Len(s2) + 1].subject = Bus!Subject(raw)
    BY <1>2 DEF f
  <2>3. Agrees(told, Bus!Subject(raw), s1', s2')
    BY <2>1, <2>2 DEF Agrees
  <2>4. QED
    BY <1>7, <2>3, SayKeeps
<1>8. Agrees(s9'.kind, s9'.subject, s1', s2')
  BY <1>6, <1>7
<1>9. QED
  BY <1>2, <1>3, <1>4, <1>8, BusSays DEF Bus!Inv

LEMMA PublishFrameKeeps ==
  ASSUME Bus!Inv, NEW raw, NEW readable \in BOOLEAN, Bus!Publish(raw, readable)
  PROVE  Bus!Inv'
<1>1. raw \in Bus!Coords /\ UNCHANGED <<s1, s3, s4, s5, s6, s7, s8>>
  BY DEF Bus!Publish
<1>2. /\ Bus!PublishErrorKind("TimedOut") = "TimedOut"
      /\ Bus!PublishErrorKind("BrokenPipe") = "PublishFailed"
      /\ Bus!PublishErrorKind("StreamNotFound") = "NoStreamForSubject"
  BY DEF Bus!PublishErrorKind
<1>3. CASE /\ \E k \in Bus!Takers(Bus!Subject(raw)) :
                s2' = Append(s2, [subject |-> Bus!Subject(raw), of |-> raw, in |-> k,
                                  readable |-> readable])
           /\ \E told \in {"acknowledged", Bus!PublishErrorKind("TimedOut"),
                           Bus!PublishErrorKind("BrokenPipe")} :
                Bus!Say(told, Bus!Subject(raw))
  <2>1. \E told \in {"acknowledged", "TimedOut", "PublishFailed"} :
          s9' = Kept(told, Bus!Subject(raw))
    BY <1>2, <1>3 DEF Bus!Say, Kept
  <2>2. QED
    BY <1>1, <1>3, <2>1, Published DEF Bus!Takers
<1>4. CASE /\ \E failure \in {"TimedOut", "BrokenPipe"}
                             \cup (IF Bus!Takers(Bus!Subject(raw)) = {} THEN {"StreamNotFound"}
                                                                        ELSE {}) :
                Bus!Say(Bus!PublishErrorKind(failure), Bus!Subject(raw))
           /\ UNCHANGED s2
  <2>1. PICK failure : /\ \/ failure \in {"TimedOut", "BrokenPipe"}
                          \/ failure = "StreamNotFound" /\ Bus!Takers(Bus!Subject(raw)) = {}
                       /\ s9' = Kept(Bus!PublishErrorKind(failure), Bus!Subject(raw))
    BY <1>4 DEF Bus!Say, Kept
  <2>2. Agrees(Bus!PublishErrorKind(failure), Bus!Subject(raw), s1, s2)
    BY <1>2, <2>1, BusSays DEF Agrees
  <2>3. Agrees(s9'.kind, s9'.subject, s1, s2)
    BY <2>1, <2>2, SayKeeps
  <2>4. QED
    BY <1>1, <1>4, <2>3, BusQuiet DEF Bus!Inv, Bus!TypeOK
<1>5. QED
  BY <1>3, <1>4 DEF Bus!Publish

LEMMA PublishIfConnectedKeeps ==
  ASSUME Bus!Inv, NEW raw, NEW readable \in BOOLEAN, Bus!PublishIfConnected(raw, readable)
  PROVE  Bus!Inv'
BY Published DEF Bus!PublishIfConnected, Bus!Takers

\* The streams of a state are such as operators declare.
LEMMA StreamsAre ==
  ASSUME Bus!Inv, NEW k \in Bus!Class
  PROVE  s1[k].subjects \in SUBSET Seq(STRING)
BY BusConstants DEF Bus!Inv, Bus!TypeOK

LEMMA VerifyKeeps ==
  ASSUME Bus!Inv, NEW coords \in Bus!Coords, Bus!Verify(coords)
  PROVE  Bus!Inv'
<1> DEFINE subject == Bus!Subject(coords)
           k == coords.class
<1>1. PICK answer \in Bus!StreamAnswers(k) :
        s9' = Kept(IF answer # "found" THEN answer
                   ELSE IF Bus!SubjectCovered(s1[k].subjects, subject) THEN "Covered"
                   ELSE "SubjectNotCovered", subject)
  BY DEF Bus!Verify, Bus!Say, Kept
<1>2. k \in Bus!Class /\ subject[2] = k
  BY CoordsAre, SubjectIs
<1>3. PICK U : subject \in Seq(U) /\ subject # <<>>
  <2>1. \A a, b, c, d, e, f, g : g = <<a, b, c, d, e, f>> => g \in Seq({a, b, c, d, e, f}) /\ g # <<>>
    OBVIOUS
  <2>2. \E a, b, c, d, e, f : subject = <<a, b, c, d, e, f>>
    BY SubjectIs
  <2> HIDE DEF subject
  <2>3. QED
    BY <2>1, <2>2
<1> HIDE DEF subject, k
<1>4. Bus!SubjectCovered(s1[k].subjects, subject) <=>
        \E p \in s1[k].subjects : Bus!Matches(p, subject)
  <2>1. \A p \in s1[k].subjects : Bus!PatternCovers(p, subject) <=> Bus!Matches(p, subject)
    BY <1>2, <1>3, StreamsAre, Covered
  <2>2. QED
    BY <2>1 DEF Bus!SubjectCovered
<1>5. ASSUME answer = "found"
      PROVE  Agrees(s9'.kind, s9'.subject, s1, s2)
  <2>1. s1[k].present
    BY <1>5 DEF Bus!StreamAnswers
  <2>2. k \in TakersOf(s1, subject) <=> Bus!SubjectCovered(s1[k].subjects, subject)
    BY <1>2, <1>4, <2>1 DEF TakersOf
  <2>3. CASE Bus!SubjectCovered(s1[k].subjects, subject)
    <3>1. Agrees("Covered", subject, s1, s2)
      BY <1>2, <2>2, <2>3 DEF Agrees
    <3>2. s9' = Kept("Covered", subject)
      BY <1>1, <1>5, <2>3
    <3>3. QED
      BY <3>1, <3>2, SayKeeps
  <2>4. CASE ~ Bus!SubjectCovered(s1[k].subjects, subject)
    <3>1. Agrees("SubjectNotCovered", subject, s1, s2)
      BY <1>2, <2>2, <2>4 DEF Agrees
    <3>2. s9' = Kept("SubjectNotCovered", subject)
      BY <1>1, <1>5, <2>4
    <3>3. QED
      BY <3>1, <3>2, SayKeeps
  <2>5. QED
    BY <2>3, <2>4
<1>6. ASSUME answer # "found"
      PROVE  Agrees(s9'.kind, s9'.subject, s1, s2)
  <2>1. answer \in {"NoStream", "Other"} /\ s9' = Kept(answer, subject)
    BY <1>1, <1>6 DEF Bus!StreamAnswers
  <2>2. Agrees(answer, subject, s1, s2)
    BY <2>1, SilenceAgrees
  <2>3. QED
    BY <2>1, <2>2, SayKeeps
<1>7. Agrees(s9'.kind, s9'.subject, s1, s2)
  BY <1>5, <1>6
<1>8. QED
  BY <1>7, BusQuiet DEF Bus!Inv, Bus!TypeOK, Bus!Verify

\* A durable is made, or brought, to what somebody wanted, and to something.
LEMMA EnsureKeeps ==
  ASSUME Bus!Inv, NEW c \in Actors, NEW k \in Bus!Class, NEW wanted \in SUBSET Bus!Coords,
         NEW pulled \in Bus!Class \cup {"none"}, Bus!Ensure(c, k, wanted, pulled)
  PROVE  Bus!Inv'
<1>1. UNCHANGED <<s1, s2, s4, s5, s7>>
  BY DEF Bus!Ensure
<1>2. CASE ~ Bus!Filters(wanted) \/ ~ s1[k].present
  <2>1. /\ UNCHANGED <<s3, s6, s8>>
        /\ s9' = Kept(IF Bus!Filters(wanted) THEN "NoStream" ELSE "FilterMismatch", <<>>)
    BY <1>2 DEF Bus!Ensure, Bus!Say, Kept
  <2>2. \A kind : kind \in {"NoStream", "FilterMismatch"} => Agrees(kind, <<>>, s1, s2)
    BY SilenceAgrees
  <2>3. Agrees(s9'.kind, s9'.subject, s1, s2)
    BY <2>1, <2>2, SayKeeps
  <2>4. QED
    BY <1>1, <2>1, <2>3, BusQuiet DEF Bus!Inv, Bus!TypeOK
<1>3. CASE ~ (~ Bus!Filters(wanted) \/ ~ s1[k].present)
  <2>1. /\ wanted # {}
        /\ s3' = [s3 EXCEPT ![k] = Bus!DurableConfig(wanted)]
        /\ s8' = s8 \cup wanted /\ s9' = Bus!Silence
        /\ s6' \in {s6, [s6 EXCEPT ![c] = pulled]}
    BY <1>3 DEF Bus!Ensure, Bus!Filters
  <2>2. Bus!TypeOK'
    BY <1>1, <2>1 DEF Bus!Inv, Bus!TypeOK
  <2>3. s3' \in [Bus!Class -> [created : BOOLEAN, filters : SUBSET {Bus!Subject(w) : w \in Bus!Coords}]]
    <3>1. Bus!DurableConfig(wanted) \in
            [created : BOOLEAN, filters : SUBSET {Bus!Subject(w) : w \in Bus!Coords}]
      BY DEF Bus!DurableConfig
    <3>2. QED
      BY <2>1, <3>1 DEF Bus!Inv
  <2>4. \A j \in Bus!Class : s3'[j].created =>
          s3'[j].filters # {} /\ s3'[j].filters \subseteq {Bus!Subject(w) : w \in s8'}
    <3>1. TAKE j \in Bus!Class
    <3>2. CASE j = k
      <4>1. s3'[j].filters = {Bus!Subject(w) : w \in wanted}
        BY <2>1, <3>2 DEF Bus!Inv, Bus!DurableConfig
      <4>2. QED
        BY <2>1, <4>1
    <3>3. CASE j # k
      <4>1. s3'[j] = s3[j]
        BY <2>1, <3>3 DEF Bus!Inv
      <4>2. QED
        BY <2>1, <4>1 DEF Bus!Inv, Bus!Declared
    <3>4. QED
      BY <3>2, <3>3
  <2>5. Bus!Declared'
    BY <1>1, <2>1, <2>4 DEF Bus!Inv, Bus!Declared
  <2>6. Bus!ProbeAgrees'
    BY <2>1, SilentKeeps, BusSays
  <2>7. QED
    BY <1>1, <2>2, <2>3, <2>5, <2>6 DEF Bus!Inv
<1>4. QED
  BY <1>2, <1>3

LEMMA EnsureConsumerKeeps ==
  ASSUME Bus!Inv, NEW c \in Actors, Bus!EnsureConsumer(c)
  PROVE  Bus!Inv'
<1>1. ASSUME NEW coords \in Bus!Coords, Bus!Ensure(c, coords.class, {coords}, coords.class)
      PROVE  Bus!Inv'
  BY <1>1, CoordsAre, EnsureKeeps
<1>2. ASSUME NEW wanted \in Bus!WishesOf("evt"), Bus!Ensure(c, "evt", wanted, "evt")
      PROVE  Bus!Inv'
  <2>1. wanted \in SUBSET Bus!Coords /\ "evt" \in Bus!Class
    BY DEF Bus!WishesOf, Bus!Class
  <2>2. QED
    BY <1>2, <2>1, EnsureKeeps
<1>3. QED
  BY <1>1, <1>2 DEF Bus!EnsureConsumer

LEMMA EnsureDurableKeeps ==
  ASSUME Bus!Inv, NEW c \in Actors, Bus!EnsureDurable(c)
  PROVE  Bus!Inv'
<1>1. PICK coords \in Bus!Coords : Bus!Ensure(c, coords.class, {coords}, s6[c])
  BY DEF Bus!EnsureDurable
<1>2. s6[c] \in Bus!Class \cup {"none"} /\ coords.class \in Bus!Class
  BY CoordsAre DEF Bus!Inv, Bus!TypeOK
<1>3. QED
  BY <1>1, <1>2, EnsureKeeps

LEMMA BusNext == BusInv /\ [ProvedNext]_vars => BusInv'
<1>1. SUFFICES ASSUME BusInv, [ProvedNext]_vars, part' = "bus" PROVE Bus!Inv'
  BY DEF BusInv
<1>2. part = "bus" /\ (Bus!Next \/ UNCHANGED <<s1, s2, s3, s4, s5, s6, s7, s8, s9>>)
  BY <1>1 DEF ProvedNext, vars
<1>3. Bus!Inv
  BY <1>1, <1>2 DEF BusInv
<1>4. CASE UNCHANGED <<s1, s2, s3, s4, s5, s6, s7, s8, s9>>
  BY <1>3, <1>4, BusQuiet DEF Bus!Inv, Bus!TypeOK
<1>5. CASE Bus!Configure
  BY <1>3, <1>5, ConfigureKeeps
<1>6. ASSUME NEW n \in s4, Bus!Expire(n)
      PROVE  Bus!Inv'
  BY <1>3, <1>6, ExpireKeeps
<1>7. ASSUME NEW raw \in BusRaw, NEW readable \in BOOLEAN,
             Bus!Publish(raw, readable) \/ Bus!PublishIfConnected(raw, readable)
      PROVE  Bus!Inv'
  BY <1>3, <1>7, PublishFrameKeeps, PublishIfConnectedKeeps
<1>8. ASSUME NEW coords \in Bus!Coords, Bus!Verify(coords)
      PROVE  Bus!Inv'
  BY <1>3, <1>8, VerifyKeeps
<1>9. ASSUME NEW c \in Actors,
             \/ Bus!EnsureConsumer(c) \/ Bus!EnsureDurable(c) \/ Bus!Recv(c) \/ Bus!Progress(c)
             \/ Bus!Drain(c)
             \/ \E verdict \in {"ack", "nak", "term"} : Bus!Settle(c, verdict)
      PROVE  Bus!Inv'
  BY <1>3, <1>9, EnsureConsumerKeeps, EnsureDurableKeeps, RecvKeeps, ProgressKeeps, DrainKeeps,
     SettleKeeps
<1>10. QED
  BY <1>2, <1>4, <1>5, <1>6, <1>7, <1>8, <1>9 DEF Bus!Next

\* IntegrationBus, for any clients, names, coordinates and streams: a consumer is handed only what
\* somebody declared for its durable, and its subject reads back as the coordinate that was
\* published; and what a probe or a publish tells of the streams is what the broker does.
THEOREM BusCorrect == ProvedSpec => []BusKeepsAddresses
<1>1. BusInv => BusKeepsAddresses
  <2>1. SUFFICES ASSUME Bus!Inv PROVE Bus!TypeOK /\ Bus!AddressesHold /\ Bus!ProbeAgrees
    BY DEF BusInv, BusKeepsAddresses
  <2>2. \A n \in DOMAIN s2 : s2[n].of \in Bus!Coords /\ s2[n].subject = Bus!Subject(s2[n].of)
    <3>1. \A n \in DOMAIN s2 : s2[n] \in Bus!Frames
      BY <2>1, LenProperties, ElementOfSeq DEF Bus!Inv
    <3>2. QED
      BY <3>1 DEF Bus!Frames
  <2>3. ASSUME NEW c \in Actors, s7[c] # Bus!Nothing
        PROVE  LET frame == s2[s7[c].frame] IN
               /\ frame.of \in s8
               /\ frame.of.class = "evt" => Bus!ParseEventSubject(frame.subject) = {frame.of}
    <3>1. s7[c].frame \in DOMAIN s2 /\ s2[s7[c].frame].of \in s8
      BY <2>1, <2>3 DEF Bus!Inv, Bus!Declared
    <3>2. QED
      BY <2>2, <3>1, ReadsBack
  <2>4. ASSUME NEW n \in DOMAIN s2, NEW m \in DOMAIN s2, s2[n].subject = s2[m].subject
        PROVE  s2[n].of = s2[m].of
    BY <2>2, <2>4, SubjectTells
  <2>5. Bus!AddressesHold
    BY <2>3, <2>4 DEF Bus!AddressesHold
  <2>6. QED
    BY <2>1, <2>5 DEF Bus!Inv
<1>2. QED
  BY BusInit, BusNext, <1>1, PTL DEF ProvedSpec

-----------------------------------------------------------------------------
(* ServiceBoot *)

BootInv == part = "boot" => Boot!Inv

\* The fold of from_lookup, over the variables up to the n-th: what it makes of a set of places is
\* what it makes of the set without its last, and the variable there.
ReadUpTo(g, n) ==
  g = [places \in SUBSET (1..n) |->
         IF places = {} THEN [got |-> {}, problems |-> <<>>]
         ELSE Boot!ReadVar(g[places \ {Boot!Max(places)}], Boot!ReadOrder[Boot!Max(places)])]

LEMMA LastPlace ==
  ASSUME NEW n \in Nat, NEW places \in SUBSET (1..n + 1), n + 1 \in places
  PROVE  Boot!Max(places) = n + 1
<1>1. \A k \in places : k \in Nat /\ n + 1 >= k
  OBVIOUS
<1>2. \A k \in places : (\A m \in places : k >= m) => k = n + 1
  BY <1>1
<1>3. QED
  BY <1>1, <1>2 DEF Boot!Max

LEMMA ReadOneMore ==
  ASSUME NEW n \in Nat, NEW g, ReadUpTo(g, n)
  PROVE  \E f : ReadUpTo(f, n + 1)
<1> DEFINE max(places) == Boot!Max(places)
           f == [places \in SUBSET (1..n + 1) |->
                   IF n + 1 \in places
                     THEN Boot!ReadVar(g[places \ {n + 1}], Boot!ReadOrder[n + 1]) ELSE g[places]]
<1>1. \A places \in SUBSET (1..n + 1) : n + 1 \notin places => places \in SUBSET (1..n)
  OBVIOUS
<1>2. ASSUME NEW places \in SUBSET (1..n + 1)
      PROVE  f[places] =
               IF places = {} THEN [got |-> {}, problems |-> <<>>]
               ELSE Boot!ReadVar(f[places \ {max(places)}], Boot!ReadOrder[max(places)])
  <2>1. CASE n + 1 \in places
    <3>1. max(places) = n + 1
      BY <2>1, LastPlace
    <3>2. /\ places # {} /\ n + 1 \notin places \ {n + 1}
          /\ places \ {n + 1} \in SUBSET (1..n + 1)
      BY <2>1
    <3> HIDE DEF max
    <3>3. f[places \ {max(places)}] = g[places \ {n + 1}]
      BY <3>1, <3>2
    <3>4. f[places] = Boot!ReadVar(g[places \ {n + 1}], Boot!ReadOrder[n + 1])
      BY <2>1
    <3> HIDE DEF f
    <3>5. QED
      BY <3>1, <3>2, <3>3, <3>4
  <2>2. CASE n + 1 \notin places
    <3>1. f[places] = g[places] /\ places \in SUBSET (1..n)
      BY <1>1, <2>2
    <3>2. places \ {max(places)} \in SUBSET (1..n + 1) /\ n + 1 \notin places \ {max(places)}
      BY <2>2
    <3>3. f[places \ {max(places)}] = g[places \ {max(places)}]
      BY <3>2
    <3> HIDE DEF f
    <3>4. g[places] = IF places = {} THEN [got |-> {}, problems |-> <<>>]
                      ELSE Boot!ReadVar(g[places \ {max(places)}], Boot!ReadOrder[max(places)])
      BY <3>1 DEF ReadUpTo
    <3> HIDE DEF max
    <3>5. QED
      BY <3>1, <3>3, <3>4
  <2>3. QED
    BY <2>1, <2>2
<1>3. ReadUpTo(f, n + 1)
  <2>1. f = [places \in SUBSET (1..n + 1) |-> f[places]]
    OBVIOUS
  <2> HIDE DEF f
  <2>2. QED
    BY <1>2, <2>1 DEF ReadUpTo
<1>4. QED
  BY <1>3

\* What the reader has after each variable.
LEMMA LookupSteps ==
  \E h : /\ h[0] = [got |-> {}, problems |-> <<>>]
         /\ \A n \in 0..4 : h[n + 1] = Boot!ReadVar(h[n], Boot!ReadOrder[n + 1])
         /\ Boot!FromLookup = h[5]
<1>1. DOMAIN Boot!ReadOrder = 1..5
  BY DEF Boot!ReadOrder
<1>2. \E g : ReadUpTo(g, 5)
  <2> DEFINE S == {n \in Nat : \E g : ReadUpTo(g, n)}
  <2>1. 0 \in S
    <3> DEFINE g == [places \in SUBSET (1..0) |-> [got |-> {}, problems |-> <<>>]]
    <3>1. \A places \in SUBSET (1..0) : places = {}
      OBVIOUS
    <3>2. ReadUpTo(g, 0)
      BY <3>1 DEF ReadUpTo
    <3>3. QED
      BY <3>2
  <2>2. \A n \in S : n + 1 \in S
    BY ReadOneMore
  <2>3. S \in SUBSET Nat
    OBVIOUS
  <2>4. S = Nat
    <3> HIDE DEF S
    <3>1. QED
      BY <2>1, <2>2, <2>3, SetInduction
  <2>5. QED
    BY <2>4
<1> DEFINE g == CHOOSE g : ReadUpTo(g, 5)
<1>3. ReadUpTo(g, 5)
  BY <1>2
<1>4. Boot!FromLookup = g[1..5]
  BY <1>1 DEF Boot!FromLookup, Boot!FoldLeft, Boot!MapThenFoldSet, ReadUpTo
<1> HIDE DEF g
<1> DEFINE h == [n \in 0..5 |-> g[1..n]]
<1>5. h[0] = [got |-> {}, problems |-> <<>>]
  <2>1. 1..0 = {} /\ h[0] = g[1..0]
    OBVIOUS
  <2>2. QED
    BY <1>3, <2>1 DEF ReadUpTo
<1>6. ASSUME NEW n \in 0..4
      PROVE  h[n + 1] = Boot!ReadVar(h[n], Boot!ReadOrder[n + 1])
  <2>1. n \in Nat /\ 1..n + 1 \in SUBSET (1..n + 1) /\ n + 1 \in 1..n + 1
    OBVIOUS
  <2>2. Boot!Max(1..n + 1) = n + 1
    BY <2>1, LastPlace
  <2>3. (1..n + 1) \ {n + 1} = 1..n
    OBVIOUS
  <2> DEFINE all == 1..n + 1
  <2>4. g[all] = Boot!ReadVar(g[all \ {Boot!Max(all)}], Boot!ReadOrder[Boot!Max(all)])
    <3>1. all \in SUBSET (1..5) /\ all # {}
      OBVIOUS
    <3> HIDE DEF all
    <3>2. QED
      BY <1>3, <3>1 DEF ReadUpTo
  <2>5. all \ {n + 1} = 1..n /\ h[n + 1] = g[all] /\ h[n] = g[1..n]
    BY <2>3
  <2> HIDE DEF all, h
  <2>6. Boot!Max(all) = n + 1
    BY <2>2 DEF all
  <2>7. QED
    BY <2>4, <2>5, <2>6
<1>7. h[5] = g[1..5]
  OBVIOUS
<1> HIDE DEF h
<1>8. QED
  BY <1>4, <1>5, <1>6, <1>7

LEMMA VariablesAre ==
  /\ Boot!ToSet(Boot!ReadOrder) = {"ENVIRONMENT", "HOST", "PORT", "DATABASE_URL", "NATS_URL"}
  /\ \A n \in 1..5 : Boot!ReadOrder[n] \in Boot!ToSet(Boot!ReadOrder) /\ Boot!Turn(Boot!ReadOrder[n]) = n
  /\ \A v \in Boot!ToSet(Boot!ReadOrder) : \E n \in 1..5 : v = Boot!ReadOrder[n]
<1>1. /\ DOMAIN Boot!ReadOrder = 1..5
      /\ Boot!ReadOrder[1] = "ENVIRONMENT" /\ Boot!ReadOrder[2] = "HOST" /\ Boot!ReadOrder[3] = "PORT"
      /\ Boot!ReadOrder[4] = "DATABASE_URL" /\ Boot!ReadOrder[5] = "NATS_URL"
  BY DEF Boot!ReadOrder
<1>2. \A m, n \in 1..5 : Boot!ReadOrder[m] = Boot!ReadOrder[n] => m = n
  BY <1>1
<1>3. \A n \in 1..5 : Boot!Turn(Boot!ReadOrder[n]) = n
  BY <1>1, <1>2 DEF Boot!Turn
<1>4. Boot!ToSet(Boot!ReadOrder) = {Boot!ReadOrder[n] : n \in 1..5}
  BY <1>1 DEF Boot!ToSet
<1>5. \A n \in 1..5 : n = 1 \/ n = 2 \/ n = 3 \/ n = 4 \/ n = 5
  OBVIOUS
<1>6. {Boot!ReadOrder[n] : n \in 1..5} = {"ENVIRONMENT", "HOST", "PORT", "DATABASE_URL", "NATS_URL"}
  BY <1>1, <1>5
<1>7. QED
  BY <1>3, <1>4, <1>6

\* What the words of a refusal may quote.
Quotable ==
  ({"ENVIRONMENT", "HOST", "PORT"} \X {"value"}) \cup ({"DATABASE_URL", "NATS_URL"} \X {"scheme"})

Problem ==
  [var : Boot!ToSet(Boot!ReadOrder), kind : {"missing", "empty", "not_unicode", "invalid"},
   reason : SUBSET Quotable]

\* A variable that BootEnv holds is set and parses, or is the host, which has a default.
Usable(v) == v = "HOST" \/ (Boot!SetTo(v) /\ Boot!Parses(v, Boot!Url(v)))

\* After the n-th variable each is either held or a problem, and the problems come in order.
HasRead(reader, n) ==
  /\ reader = [got |-> reader.got, problems |-> reader.problems]
  /\ reader.problems \in Seq(Problem)
  /\ \A m \in 1..5 : Boot!ReadOrder[m] \in reader.got => m <= n /\ Usable(Boot!ReadOrder[m])
  /\ reader.got \subseteq Boot!ToSet(Boot!ReadOrder)
  /\ \A m \in 1..n : Boot!ReadOrder[m] \notin reader.got =>
       \E k \in 1..Len(reader.problems) : reader.problems[k].var = Boot!ReadOrder[m]
  /\ \A k \in 1..Len(reader.problems) :
       reader.problems[k].var \notin reader.got /\ Boot!Turn(reader.problems[k].var) <= n
  /\ \A k, l \in 1..Len(reader.problems) : k < l =>
       Boot!Turn(reader.problems[k].var) < Boot!Turn(reader.problems[l].var)

LEMMA Takes ==
  ASSUME NEW n \in 0..4, NEW reader, HasRead(reader, n), Usable(Boot!ReadOrder[n + 1])
  PROVE  HasRead([reader EXCEPT !.got = @ \cup {Boot!ReadOrder[n + 1]}], n + 1)
<1> DEFINE v == Boot!ReadOrder[n + 1]
           next == [reader EXCEPT !.got = @ \cup {v}]
<1>1. next = [got |-> reader.got \cup {v}, problems |-> reader.problems]
  <2>1. reader = [got |-> reader.got, problems |-> reader.problems]
    BY DEF HasRead
  <2> HIDE DEF v
  <2>2. QED
    BY ONLY <2>1
<1>2. /\ Boot!Turn(v) = n + 1 /\ v \in Boot!ToSet(Boot!ReadOrder)
      /\ \A m \in 1..5 : Boot!ReadOrder[m] = v => m = n + 1
  BY VariablesAre
<1> HIDE DEF v, next
<1>3. next.got = reader.got \cup {v} /\ next.problems = reader.problems
  BY <1>1
<1>4. Len(reader.problems) \in Nat
  BY LenProperties DEF HasRead
<1>5. \A m \in 1..5 : Boot!ReadOrder[m] \in next.got => m <= n + 1 /\ Usable(Boot!ReadOrder[m])
  BY <1>2, <1>3 DEF v, HasRead
<1>6. \A k \in 1..Len(reader.problems) :
        /\ reader.problems[k].var \notin next.got
        /\ Boot!Turn(reader.problems[k].var) <= n + 1
  <2>1. TAKE k \in 1..Len(reader.problems)
  <2>2. reader.problems[k].var \in Boot!ToSet(Boot!ReadOrder)
    <3>1. reader.problems[k] \in Problem
      BY ElementOfSeq DEF HasRead
    <3>2. QED
      BY <3>1 DEF Problem
  <2>3. Boot!Turn(reader.problems[k].var) \in 1..5
    BY <2>2, VariablesAre, SMTT(20)
  <2>4. Boot!Turn(reader.problems[k].var) <= n /\ reader.problems[k].var \notin reader.got
    BY DEF HasRead
  <2>5. reader.problems[k].var # v
    BY <1>2, <2>4
  <2>6. QED
    BY <1>3, <2>3, <2>4, <2>5
<1>7. \A m \in 1..n + 1 : Boot!ReadOrder[m] \notin next.got =>
        \E k \in 1..Len(reader.problems) : reader.problems[k].var = Boot!ReadOrder[m]
  <2>1. TAKE m \in 1..n + 1
  <2>2. CASE m = n + 1
    BY <1>3, <2>2 DEF v
  <2>3. CASE m # n + 1
    BY <1>3, <2>3 DEF HasRead
  <2>4. QED
    BY <2>2, <2>3
<1>8. QED
  BY <1>1, <1>2, <1>3, <1>5, <1>6, <1>7 DEF HasRead, next, v

LEMMA Refuses ==
  ASSUME NEW n \in 0..4, NEW reader, HasRead(reader, n), NEW problem \in Problem,
         problem.var = Boot!ReadOrder[n + 1]
  PROVE  HasRead([reader EXCEPT !.problems = Append(@, problem)], n + 1)
<1> DEFINE v == Boot!ReadOrder[n + 1]
           found == reader.problems
           more == Append(found, problem)
           next == [reader EXCEPT !.problems = Append(@, problem)]
<1>1. next = [got |-> reader.got, problems |-> more]
  <2>1. reader = [got |-> reader.got, problems |-> reader.problems]
    BY DEF HasRead
  <2>2. [reader EXCEPT !.problems = more] = [got |-> reader.got, problems |-> more]
    <3> HIDE DEF more
    <3>1. QED
      BY ONLY <2>1
  <2>3. QED
    BY <2>2
<1>2. /\ Boot!Turn(v) = n + 1 /\ v \in Boot!ToSet(Boot!ReadOrder)
      /\ \A m \in 1..5 : Boot!ReadOrder[m] = v => m = n + 1
  BY VariablesAre
<1>3. found \in Seq(Problem) /\ Len(found) \in Nat
  BY LenProperties DEF HasRead
<1> HIDE DEF found
<1>4. /\ more \in Seq(Problem) /\ Len(more) = Len(found) + 1
      /\ more[Len(found) + 1] = problem
      /\ \A k \in 1..Len(found) : more[k] = found[k]
  BY ONLY <1>3, problem \in Problem, AppendOne
<1> HIDE DEF more, next, v
<1>5. next.got = reader.got /\ next.problems = more
  BY <1>1
<1>6. \A k \in 1..Len(more) : k \in 1..Len(found) \/ k = Len(found) + 1
  BY <1>3, <1>4
<1>7. v \notin reader.got
  <2>1. n + 1 \in 1..5
    OBVIOUS
  <2>2. QED
    BY <2>1 DEF v, HasRead
<1>8. \A k \in 1..Len(found) :
        /\ more[k].var \notin next.got /\ Boot!Turn(more[k].var) <= n
        /\ Boot!Turn(more[k].var) \in 1..5
  <2>1. TAKE k \in 1..Len(found)
  <2>2. found[k] \in Problem
    BY <1>3, ElementOfSeq
  <2>3. Boot!Turn(found[k].var) \in 1..5
    BY <2>2, VariablesAre DEF Problem
  <2>4. QED
    BY <1>4, <1>5, <2>3 DEF found, HasRead
<1>9. \A k \in 1..Len(more) : more[k].var \notin next.got /\ Boot!Turn(more[k].var) <= n + 1
  <2>1. TAKE k \in 1..Len(more)
  <2>2. CASE k \in 1..Len(found)
    BY <1>8, <2>2
  <2>3. CASE k = Len(found) + 1
    <3>1. more[k].var = v
      BY <1>4, <2>3 DEF v
    <3>2. QED
      BY <1>2, <1>5, <1>7, <3>1
  <2>4. QED
    BY <1>6, <2>2, <2>3
<1>10. \A k, l \in 1..Len(more) : k < l => Boot!Turn(more[k].var) < Boot!Turn(more[l].var)
  <2>1. SUFFICES ASSUME NEW k \in 1..Len(more), NEW l \in 1..Len(more), k < l
                 PROVE  Boot!Turn(more[k].var) < Boot!Turn(more[l].var)
    OBVIOUS
  <2>2. k \in 1..Len(found)
    BY <1>3, <1>4, <2>1
  <2>3. CASE l \in 1..Len(found)
    BY <1>4, <2>1, <2>2, <2>3 DEF found, HasRead
  <2>4. CASE l = Len(found) + 1
    <3>1. more[l].var = v
      BY <1>4, <2>4 DEF v
    <3>2. QED
      BY <1>2, <1>8, <2>2, <3>1
  <2>5. QED
    BY <1>6, <2>3, <2>4
<1>11. \A m \in 1..n + 1 : Boot!ReadOrder[m] \notin next.got =>
         \E k \in 1..Len(more) : more[k].var = Boot!ReadOrder[m]
  <2>1. SUFFICES ASSUME NEW m \in 1..n + 1, Boot!ReadOrder[m] \notin reader.got
                 PROVE  \E k \in 1..Len(more) : more[k].var = Boot!ReadOrder[m]
    BY <1>5
  <2>2. CASE m = n + 1
    <3>1. Len(found) + 1 \in 1..Len(more) /\ more[Len(found) + 1].var = Boot!ReadOrder[m]
      BY <1>3, <1>4, <2>2
    <3>2. QED
      BY <3>1
  <2>3. CASE m # n + 1
    <3>1. PICK k \in 1..Len(found) : found[k].var = Boot!ReadOrder[m]
      BY <2>1, <2>3 DEF found, HasRead
    <3>2. k \in 1..Len(more) /\ more[k].var = Boot!ReadOrder[m]
      BY <1>3, <1>4, <3>1
    <3>3. QED
      BY <3>2
  <2>4. QED
    BY <2>2, <2>3
<1>12. \A m \in 1..5 : Boot!ReadOrder[m] \in next.got => m <= n + 1 /\ Usable(Boot!ReadOrder[m])
  BY <1>5 DEF HasRead
<1>13. reader.got \subseteq Boot!ToSet(Boot!ReadOrder)
  BY DEF HasRead
<1>14. next = [got |-> next.got, problems |-> next.problems] /\ next.problems \in Seq(Problem)
  BY <1>1, <1>4
<1>15. HasRead(next, n + 1)
  BY <1>5, <1>9, <1>10, <1>11, <1>12, <1>13, <1>14 DEF HasRead
<1>16. QED
  BY <1>15 DEF next

LEMMA ReadVarReads ==
  ASSUME NEW n \in 0..4, NEW reader, HasRead(reader, n), s1 \in BootEnvironments
  PROVE  HasRead(Boot!ReadVar(reader, Boot!ReadOrder[n + 1]), n + 1)
<1> DEFINE v == Boot!ReadOrder[n + 1]
           raw == s1[v]
           refused(kind, reason) ==
             [reader EXCEPT !.problems = Append(@, Boot!VarProblem(v, kind, reason))]
<1>1. v \in {"ENVIRONMENT", "HOST", "PORT", "DATABASE_URL", "NATS_URL"}
  BY VariablesAre
<1>2. raw.is \in {"unset", "empty", "not_unicode", "set"}
  <2>1. Boot!IsEnvironment(s1) /\ v \in Boot!ToSet(Boot!ReadOrder)
    BY BootConstants, VariablesAre
  <2>2. QED
    BY <2>1 DEF Boot!IsEnvironment
<1>3. ASSUME NEW kind \in {"missing", "empty", "not_unicode", "invalid"}, NEW reason \in SUBSET Quotable
      PROVE  HasRead(refused(kind, reason), n + 1)
  <2> DEFINE problem == Boot!VarProblem(v, kind, reason)
  <2>1. problem \in Problem /\ problem.var = v
    BY <1>1, VariablesAre DEF Boot!VarProblem, Problem
  <2> HIDE DEF problem
  <2>2. HasRead([reader EXCEPT !.problems = Append(@, problem)], n + 1)
    BY <2>1, Refuses
  <2>3. QED
    BY <2>2 DEF problem
<1>4. Boot!InvalidValue(v, raw.value) \in SUBSET Quotable
  BY <1>1 DEF Boot!InvalidValue, Quotable
<1>5. {} \in SUBSET Quotable
  OBVIOUS
<1>6. ASSUME Usable(v)
      PROVE  HasRead([reader EXCEPT !.got = @ \cup {v}], n + 1)
  BY <1>6, Takes
<1> DEFINE read == Boot!ReadVar(reader, v)
<1>7. CASE raw.is = "unset"
  <2>1. CASE v = "HOST"
    <3>1. read = [reader EXCEPT !.got = @ \cup {v}]
      BY <1>7, <2>1 DEF Boot!ReadVar
    <3>2. Usable(v)
      BY <2>1 DEF Usable
    <3> HIDE DEF read, v
    <3>3. QED
      BY <1>6, <3>1, <3>2 DEF read, v
  <2>2. CASE v # "HOST"
    <3>1. read = refused("missing", {})
      BY <1>7, <2>2 DEF Boot!ReadVar
    <3> HIDE DEF refused
    <3>2. QED
      BY <1>3, <1>5, <3>1
  <2>3. QED
    BY <2>1, <2>2
<1>8. CASE raw.is \in {"empty", "not_unicode"}
  <2>1. read = refused(raw.is, {})
    BY <1>8 DEF Boot!ReadVar
  <2> HIDE DEF refused
  <2>2. QED
    BY <1>3, <1>5, <1>8, <2>1
<1>9. CASE raw.is = "set"
  <2>1. CASE Boot!Parses(v, raw.value)
    <3>1. read = [reader EXCEPT !.got = @ \cup {v}]
      BY <1>9, <2>1 DEF Boot!ReadVar
    <3>2. Usable(v)
      BY <1>9, <2>1 DEF Usable, Boot!SetTo, Boot!Url
    <3>3. QED
      BY <1>6, <3>1, <3>2
  <2>2. CASE ~ Boot!Parses(v, raw.value)
    <3>1. read = refused("invalid", Boot!InvalidValue(v, raw.value))
      BY <1>9, <2>2 DEF Boot!ReadVar
    <3> HIDE DEF refused
    <3>2. QED
      BY <1>3, <1>4, <3>1
  <2>3. QED
    BY <2>1, <2>2
<1>10. QED
  BY <1>2, <1>7, <1>8, <1>9

\* What from_lookup comes to.
LEMMA LookupReads ==
  ASSUME s1 \in BootEnvironments
  PROVE  HasRead(Boot!FromLookup, 5)
<1>1. PICK h : /\ h[0] = [got |-> {}, problems |-> <<>>]
               /\ \A n \in 0..4 : h[n + 1] = Boot!ReadVar(h[n], Boot!ReadOrder[n + 1])
               /\ Boot!FromLookup = h[5]
  BY LookupSteps
<1>2. HasRead(h[0], 0)
  <2>1. h[0].got = {} /\ h[0].problems = <<>> /\ Len(<<>>) = 0 /\ <<>> \in Seq(Problem)
    BY <1>1
  <2>2. QED
    BY <1>1, <2>1 DEF HasRead
<1>3. ASSUME NEW n \in 0..4, HasRead(h[n], n)
      PROVE  HasRead(h[n + 1], n + 1)
  BY <1>1, <1>3, ReadVarReads
<1>4. HasRead(h[1], 1)
  <2>1. HasRead(h[0 + 1], 0 + 1)
    BY <1>2, <1>3
  <2>2. QED
    BY <2>1
<1>5. HasRead(h[2], 2)
  <2>1. HasRead(h[1 + 1], 1 + 1)
    BY <1>3, <1>4
  <2>2. QED
    BY <2>1
<1>6. HasRead(h[3], 3)
  <2>1. HasRead(h[2 + 1], 2 + 1)
    BY <1>3, <1>5
  <2>2. QED
    BY <2>1
<1>7. HasRead(h[4], 4)
  <2>1. HasRead(h[3 + 1], 3 + 1)
    BY <1>3, <1>6
  <2>2. QED
    BY <2>1
<1>8. HasRead(h[5], 5)
  <2>1. HasRead(h[4 + 1], 4 + 1)
    BY <1>3, <1>7
  <2>2. QED
    BY <2>1
<1>9. QED
  BY <1>1, <1>8

LEMMA BootInit == ProvedInit => BootInv
<1>1. SUFFICES ASSUME Boot!Init PROVE Boot!Inv
  BY DEF ProvedInit, BootInv
<1>2. Boot!TypeOK
  BY <1>1 DEF Boot!Init, Boot!TypeOK
<1>3. QED
  BY <1>1, <1>2
     DEF Boot!Init, Boot!Inv, Boot!EveryProblemOnce, Boot!NoRemotePlaintext, Boot!SecretsStayIn,
         Boot!RoleStatementIsPlain, Boot!ServesItsSchema

LEMMA BootQuiet ==
  ASSUME Boot!Inv, UNCHANGED <<s1, s2, s3, s4, s5, s6, s7, s8, s9>>
  PROVE  Boot!Inv'
<1>1. Boot!TypeOK' /\ Boot!EveryProblemOnce'
  BY DEF Boot!Inv, Boot!TypeOK, Boot!EveryProblemOnce
<1>2. Boot!NoRemotePlaintext' /\ Boot!SecretsStayIn' /\ Boot!RoleStatementIsPlain'
  BY DEF Boot!Inv, Boot!NoRemotePlaintext, Boot!Trusted, Boot!SetTo, Boot!Url, Boot!SecretsStayIn,
         Boot!RoleStatementIsPlain
<1>3. Boot!ServesItsSchema'
  BY DEF Boot!Inv, Boot!ServesItsSchema, Boot!ValidTls, Boot!Trusted, Boot!SetTo, Boot!Url, Boot!Ups
<1>4. QED
  BY <1>1, <1>2, <1>3 DEF Boot!Inv

\* No secret in what is logged of a configuration that was read.
LEMMA RedactedIsClean ==
  ASSUME s1 \in BootEnvironments, Usable("DATABASE_URL"), Usable("NATS_URL"),
         NEW url \in {Boot!DatabaseRedacted(Boot!Url("DATABASE_URL")),
                      Boot!NatsRedacted(Boot!Url("NATS_URL"))}
  PROVE  /\ url.password # SecretText
         /\ url.scheme \in {"nats", "tls"} => url.user # SecretText
         /\ \A n \in DOMAIN url.query : url.query[n].key = "password" => url.query[n].value # SecretText
<1>1. SecretText # NoText /\ SecretText # MaskedText
  BY BootConstants
<1>2. /\ Boot!IsEnvironment(s1)
      /\ s1["DATABASE_URL"].is = "set" /\ s1["NATS_URL"].is = "set"
      /\ Boot!Parses("DATABASE_URL", s1["DATABASE_URL"].value)
  BY BootConstants DEF Usable, Boot!SetTo, Boot!Url
<1>3. CASE url = Boot!DatabaseRedacted(Boot!Url("DATABASE_URL"))
  <2> DEFINE dsn == s1["DATABASE_URL"].value
  <2>1. /\ DOMAIN dsn = {"readable", "scheme", "user", "password", "host", "query"}
        /\ dsn.scheme \in {"postgres", "postgresql"}
    BY <1>2 DEF Boot!IsEnvironment, Boot!Parses, Boot!IsDsn
  <2>2. url = Boot!DatabaseRedacted(dsn)
    BY <1>3 DEF Boot!Url
  <2> HIDE DEF dsn
  <2>3. /\ url.password = IF dsn.password = SecretText THEN MaskedText ELSE dsn.password
        /\ url.scheme = dsn.scheme
        /\ url.query = [n \in DOMAIN dsn.query |-> IF dsn.query[n].key = "password"
                                                     THEN [dsn.query[n] EXCEPT !.value = MaskedText]
                                                     ELSE dsn.query[n]]
    BY <2>1, <2>2 DEF Boot!DatabaseRedacted
  <2>4. ASSUME NEW n \in DOMAIN url.query, url.query[n].key = "password",
               url.query[n].value = SecretText
        PROVE  FALSE
    <3>1. n \in DOMAIN dsn.query
      BY <2>3
    <3>2. dsn.query[n].key = "password"
      <4>1. CASE dsn.query[n].key # "password"
        BY <2>3, <2>4, <3>1, <4>1
      <4>2. QED
        BY <4>1
    <3>3. url.query[n] = [dsn.query[n] EXCEPT !.value = MaskedText]
      BY <2>3, <3>1, <3>2
    <3>4. QED
      BY <1>1, <2>4, <3>3
  <2>5. QED
    BY <1>1, <2>1, <2>3, <2>4
<1>4. CASE url = Boot!NatsRedacted(Boot!Url("NATS_URL"))
  <2> DEFINE broker == s1["NATS_URL"].value
  <2>1. /\ DOMAIN broker = {"readable", "scheme", "user", "password", "host", "query"}
        /\ \A n \in DOMAIN broker.query : broker.query[n].key # "password"
    BY <1>2 DEF Boot!IsEnvironment
  <2>2. url = Boot!NatsRedacted(broker)
    BY <1>4 DEF Boot!Url
  <2> HIDE DEF broker
  <2>3. /\ url.query = broker.query
        /\ url.password = NoText
        /\ url.user = MaskedText \/ url.user = NoText
    BY <2>1, <2>2 DEF Boot!NatsRedacted
  <2>4. QED
    BY <1>1, <2>1, <2>3
<1>5. QED
  BY <1>3, <1>4

LEMMA ReadEnvKeeps ==
  ASSUME Boot!Inv, Boot!ReadEnv
  PROVE  Boot!Inv'
<1> DEFINE all == Boot!FromLookup
           found == all.problems
<1>1. s4 = "start" /\ s5' = all.got /\ UNCHANGED <<s1, s2, s3, s7, s8>>
  BY DEF Boot!ReadEnv
<1>2. s6 = {} /\ s8 = {} /\ s1 \in BootEnvironments
  BY <1>1 DEF Boot!Inv, Boot!EveryProblemOnce, Boot!TypeOK
<1>3. HasRead(all, 5)
  BY <1>2, LookupReads
<1> HIDE DEF all
<1>4. found \in Seq(Problem) /\ DOMAIN found = 1..Len(found) /\ Len(found) \in Nat
  BY <1>3, LenProperties DEF HasRead
<1>5. \A n \in DOMAIN found : found[n] \in Problem
  BY <1>4, ElementOfSeq
<1>6. CASE all.got = Boot!ToSet(Boot!ReadOrder)
  <2>1. /\ s4' = "read" /\ s6' = {}
        /\ s9' = {Boot!DatabaseRedacted(Boot!Url("DATABASE_URL")),
                  Boot!NatsRedacted(Boot!Url("NATS_URL"))}
    BY <1>2, <1>6 DEF Boot!ReadEnv, all
  <2>2. Usable("DATABASE_URL") /\ Usable("NATS_URL")
    BY <1>3, <1>6, VariablesAre DEF HasRead
  <2>3. Boot!SecretsStayIn'
    <3>1. ASSUME NEW url \in s9'
          PROVE  /\ url.password # SecretText
                 /\ url.scheme \in {"nats", "tls"} => url.user # SecretText
                 /\ \A n \in DOMAIN url.query :
                      url.query[n].key = "password" => url.query[n].value # SecretText
      BY <1>2, <2>1, <2>2, RedactedIsClean
    <3>2. QED
      BY <2>1, <3>1 DEF Boot!SecretsStayIn
  <2>4. Boot!TypeOK' /\ Boot!EveryProblemOnce'
    BY <1>1, <1>6, <2>1 DEF Boot!Inv, Boot!TypeOK, Boot!EveryProblemOnce
  <2>5. Boot!NoRemotePlaintext' /\ Boot!RoleStatementIsPlain'
    BY <1>1, <1>2
       DEF Boot!Inv, Boot!NoRemotePlaintext, Boot!RoleStatementIsPlain, Boot!Trusted, Boot!SetTo, Boot!Url
  <2>6. Boot!ServesItsSchema'
    BY <2>1 DEF Boot!ServesItsSchema
  <2>7. QED
    BY <1>1, <1>2, <2>3, <2>4, <2>5, <2>6 DEF Boot!Inv
<1>7. CASE all.got # Boot!ToSet(Boot!ReadOrder)
  <2>1. s4' = "refused" /\ s6' = {Boot!BootEnvError(found)} /\ UNCHANGED s9
    BY <1>7 DEF Boot!ReadEnv, all
  <2> DEFINE error == Boot!BootEnvError(found)
  <2>2. error.problems = found /\ error.quotes = UNION {found[n].reason : n \in DOMAIN found}
    BY DEF Boot!BootEnvError
  <2> HIDE DEF error
  <2>3. error.quotes \subseteq Quotable
    BY <1>5, <2>2 DEF Problem
  <2>4. Boot!SecretsStayIn'
    <3>1. {<<"DATABASE_URL", "value">>, <<"NATS_URL", "value">>} \cap Quotable = {}
      BY DEF Quotable
    <3>2. QED
      BY <2>1, <2>3, <3>1 DEF error, Boot!Inv, Boot!SecretsStayIn
  <2>5. {found[n].var : n \in DOMAIN found} = Boot!ToSet(Boot!ReadOrder) \ all.got
    <3>1. \A n \in DOMAIN found : found[n].var \in Boot!ToSet(Boot!ReadOrder) \ all.got
      BY <1>3, <1>4, <1>5 DEF Problem, HasRead
    <3>2. ASSUME NEW v \in Boot!ToSet(Boot!ReadOrder), v \notin all.got
          PROVE  \E n \in DOMAIN found : found[n].var = v
      BY <1>3, <1>4, <3>2, VariablesAre, SMTT(20) DEF HasRead
    <3> HIDE DEF found
    <3>3. QED
      BY <3>1, <3>2
  <2>6. found # <<>>
    <3>1. PICK v \in Boot!ToSet(Boot!ReadOrder) : v \notin all.got
      BY <1>3, <1>7 DEF HasRead
    <3>2. DOMAIN found # {}
      BY <2>5, <3>1
    <3>3. QED
      BY <3>2
  <2>7. \A m, n \in DOMAIN found : m < n => Boot!Turn(found[m].var) < Boot!Turn(found[n].var)
    BY <1>3, <1>4 DEF HasRead
  <2>8. Boot!EveryProblemOnce'
    <3> HIDE DEF found
    <3>1. \A e \in s6' : e.problems = found
      BY <2>1, <2>2 DEF error
    <3>2. s6' # {}
      BY <2>1
    <3>3. QED
      BY <1>1, <2>1, <2>5, <2>6, <2>7, <3>1, <3>2 DEF Boot!EveryProblemOnce
  <2>9. Boot!TypeOK'
    <3>1. \A n \in DOMAIN found : found[n].kind \in {"missing", "empty", "not_unicode", "invalid"}
      BY <1>5 DEF Problem
    <3>2. s5' \subseteq Boot!ToSet(Boot!ReadOrder)
      BY <1>1, <1>3 DEF HasRead
    <3> HIDE DEF found
    <3>3. QED
      BY <1>1, <2>1, <2>2, <3>1, <3>2 DEF error, Boot!Inv, Boot!TypeOK
  <2>10. Boot!NoRemotePlaintext' /\ Boot!RoleStatementIsPlain'
    BY <1>1, <1>2
       DEF Boot!Inv, Boot!NoRemotePlaintext, Boot!RoleStatementIsPlain, Boot!Trusted, Boot!SetTo, Boot!Url
  <2>11. Boot!ServesItsSchema'
    BY <1>1, <1>2, <2>1 DEF Boot!ServesItsSchema
  <2>12. QED
    BY <1>1, <1>2, <2>4, <2>8, <2>9, <2>10, <2>11 DEF Boot!Inv
<1>8. QED
  BY <1>6, <1>7

\* What passes the check is where the DSN says, or encrypted.
LEMMA CheckedIsSafe ==
  ASSUME NEW url, Boot!ValidTls(url)
  PROVE  Boot!Target(url) \in LoopbackHosts \cup Boot!Trusted \/ Boot!HasTls(url)
<1>1. ~ Boot!OverridesHost(url)
  BY DEF Boot!ValidTls
<1>2. Boot!Target(url) = Boot!DsnHost(url)
  BY <1>1 DEF Boot!Target, Boot!OverridesHost
<1>3. QED
  BY <1>2 DEF Boot!ValidTls

LEMMA OpenPoolIsSafe ==
  ASSUME Boot!Inv, NEW v, Boot!OpenPool(v) \/ UNCHANGED s7, UNCHANGED s1
  PROVE  Boot!NoRemotePlaintext'
<1>1. \A url \in s7' : Boot!Target(url) \in LoopbackHosts \cup Boot!Trusted \/ Boot!HasTls(url)
  <2>1. TAKE url \in s7'
  <2>2. url \in s7 \/ Boot!ValidTls(url)
    BY DEF Boot!OpenPool
  <2>3. QED
    BY <2>2, CheckedIsSafe DEF Boot!Inv, Boot!NoRemotePlaintext
<1>2. Boot!Trusted' = Boot!Trusted
  BY DEF Boot!Trusted, Boot!SetTo, Boot!Url
<1>3. QED
  BY <1>1, <1>2 DEF Boot!NoRemotePlaintext

LEMMA OpenMigrationPoolKeeps ==
  ASSUME Boot!Inv, Boot!OpenMigrationPool
  PROVE  Boot!Inv'
<1>1. /\ s4 = "read" /\ s4' \in {"owner", "refused"} /\ Boot!OpenPool(Boot!MigrationVar)
      /\ UNCHANGED <<s1, s2, s3, s5, s6, s8, s9>>
  BY DEF Boot!OpenMigrationPool
<1>2. s8 = {} /\ s6 = {}
  BY <1>1 DEF Boot!Inv, Boot!EveryProblemOnce
<1>3. Boot!NoRemotePlaintext'
  BY <1>1, OpenPoolIsSafe
<1>4. Boot!TypeOK' /\ Boot!EveryProblemOnce'
  BY <1>1, <1>2 DEF Boot!Inv, Boot!TypeOK, Boot!EveryProblemOnce
<1>5. Boot!SecretsStayIn' /\ Boot!RoleStatementIsPlain'
  BY <1>1, <1>2 DEF Boot!Inv, Boot!SecretsStayIn, Boot!RoleStatementIsPlain
<1>6. Boot!ServesItsSchema'
  BY <1>1, <1>2 DEF Boot!ServesItsSchema
<1>7. QED
  BY <1>1, <1>2, <1>3, <1>4, <1>5, <1>6 DEF Boot!Inv

LEMMA BootCount == \A S : Boot!Cardinality(S) = Cardinality(S)
BY DEF Cardinality, Boot!Cardinality

LEMMA TwoPlaces ==
  ASSUME NEW a, NEW b, a # b
  PROVE  Cardinality({a, b}) = 2
<1>1. Cardinality({a} \cup {b}) = Cardinality({a}) + 1
  BY FS_AddElement, FS_Singleton
<1>2. {a} \cup {b} = {a, b} /\ Cardinality({a}) = 1
  BY FS_Singleton
<1>3. QED
  BY <1>1, <1>2

\* The statement that gives a role its password.
Statement(name, password) ==
  <<"ALTER_ROLE", "dquote">> \o name \o <<"dquote", "PASSWORD", "quote">>
    \o Boot!Scram(password) \o <<"quote">>

\* It is its words, the name, and the verifier, each at its place.
LEMMA StatementIs ==
  ASSUME NEW name \in Seq(STRING), NEW password
  PROVE  LET s == Statement(name, password)
             n == Len(name) IN
         /\ n \in Nat /\ DOMAIN s = 1..n + 11
         /\ s[1] = "ALTER_ROLE" /\ s[2] = "dquote"
         /\ \A i \in 1..n : s[i + 2] = name[i]
         /\ s[n + 3] = "dquote" /\ s[n + 4] = "PASSWORD" /\ s[n + 5] = "quote"
         /\ \A i \in 6..10 : s[n + i] \in {"SCRAM-SHA-256$", "4096:", "salt", "$", BootKeys[password]}
         /\ s[n + 11] = "quote"
<1> DEFINE S == STRING \cup {"ALTER_ROLE", "dquote", "PASSWORD", "quote", "SCRAM-SHA-256$", "4096:",
                             "salt", "$", BootKeys[password]}
           n == Len(name)
           head == <<"ALTER_ROLE", "dquote">>
           middle == <<"dquote", "PASSWORD", "quote">>
           verifier == Boot!Scram(password)
           end == <<"quote">>
           p1 == head \o name
           p2 == p1 \o middle
           p3 == p2 \o verifier
           p4 == p3 \o end
<1>1. n \in Nat
  BY LenProperties
<1>2. /\ head \in Seq(S) /\ Len(head) = 2 /\ head[1] = "ALTER_ROLE" /\ head[2] = "dquote"
      /\ name \in Seq(S)
  OBVIOUS
<1>3. /\ middle \in Seq(S) /\ Len(middle) = 3
      /\ middle[1] = "dquote" /\ middle[2] = "PASSWORD" /\ middle[3] = "quote"
  OBVIOUS
<1>4. /\ verifier \in Seq(S) /\ Len(verifier) = 5
      /\ \A i \in 1..5 : verifier[i] \in {"SCRAM-SHA-256$", "4096:", "salt", "$", BootKeys[password]}
  BY DEF Boot!Scram, Boot!KeysOf
<1>5. end \in Seq(S) /\ Len(end) = 1 /\ end[1] = "quote"
  OBVIOUS
<1> HIDE DEF head, middle, verifier, end, S, n
<1>6. /\ p1 \in Seq(S) /\ Len(p1) = 2 + n
      /\ p1[1] = "ALTER_ROLE" /\ p1[2] = "dquote" /\ \A i \in 1..n : p1[i + 2] = name[i]
  <2>1. /\ p1 \in Seq(S) /\ Len(p1) = Len(head) + Len(name)
        /\ \A i \in 1..Len(head) : p1[i] = head[i]
        /\ \A i \in 1..Len(name) : p1[Len(head) + i] = name[i]
    <3>1. head \in Seq(S) /\ name \in Seq(S)
      BY <1>2
    <3>2. QED
      BY ONLY <3>1, Concatenated
  <2> HIDE DEF p1
  <2>2. \A i \in 1..n : p1[i + 2] = name[i]
    <3>1. TAKE i \in 1..n
    <3>2. p1[2 + i] = name[i] /\ i + 2 = 2 + i
      BY <1>2, <2>1 DEF n
    <3>3. QED
      BY <3>2
  <2>3. QED
    BY <1>2, <2>1, <2>2 DEF n
<1> HIDE DEF p1
<1>7. /\ p2 \in Seq(S) /\ Len(p2) = n + 5 /\ \A i \in 1..n + 2 : p2[i] = p1[i]
      /\ p2[n + 3] = "dquote" /\ p2[n + 4] = "PASSWORD" /\ p2[n + 5] = "quote"
  <2>1. /\ p2 \in Seq(S) /\ Len(p2) = Len(p1) + Len(middle)
        /\ \A i \in 1..Len(p1) : p2[i] = p1[i]
        /\ \A i \in 1..Len(middle) : p2[Len(p1) + i] = middle[i]
    <3>1. p1 \in Seq(S) /\ middle \in Seq(S)
      BY <1>3, <1>6
    <3>2. QED
      BY ONLY <3>1, Concatenated
  <2> HIDE DEF p2
  <2>2. /\ n + 3 = (2 + n) + 1 /\ n + 4 = (2 + n) + 2 /\ n + 5 = (2 + n) + 3
        /\ 1..n + 2 = 1..2 + n /\ n + 5 = (2 + n) + 3
    BY <1>1
  <2>3. p2[(2 + n) + 1] = "dquote" /\ p2[(2 + n) + 2] = "PASSWORD" /\ p2[(2 + n) + 3] = "quote"
    BY <1>3, <1>6, <2>1
  <2>4. QED
    BY <1>3, <1>6, <2>1, <2>2, <2>3
<1> HIDE DEF p2
<1>8. /\ p3 \in Seq(S) /\ Len(p3) = n + 10 /\ \A i \in 1..n + 5 : p3[i] = p2[i]
      /\ \A i \in 6..10 : p3[n + i] \in {"SCRAM-SHA-256$", "4096:", "salt", "$", BootKeys[password]}
  <2>1. /\ p3 \in Seq(S) /\ Len(p3) = Len(p2) + Len(verifier)
        /\ \A i \in 1..Len(p2) : p3[i] = p2[i]
        /\ \A i \in 1..Len(verifier) : p3[Len(p2) + i] = verifier[i]
    <3>1. p2 \in Seq(S) /\ verifier \in Seq(S)
      BY <1>4, <1>7
    <3>2. QED
      BY ONLY <3>1, Concatenated
  <2> HIDE DEF p3
  <2>2. ASSUME NEW i \in 6..10
        PROVE  p3[n + i] \in {"SCRAM-SHA-256$", "4096:", "salt", "$", BootKeys[password]}
    <3>1. n + i = (n + 5) + (i - 5) /\ i - 5 \in 1..5
      BY <1>1
    <3>2. p3[(n + 5) + (i - 5)] = verifier[i - 5]
      BY <1>4, <1>7, <2>1, <3>1
    <3>3. QED
      BY <1>4, <3>1, <3>2
  <2>3. (n + 5) + 5 = n + 10
    BY <1>1
  <2>4. QED
    BY <1>4, <1>7, <2>1, <2>2, <2>3
<1> HIDE DEF p3
<1>9. /\ p4 \in Seq(S) /\ Len(p4) = n + 11 /\ \A i \in 1..n + 10 : p4[i] = p3[i]
      /\ p4[n + 11] = "quote"
  <2>1. /\ p4 \in Seq(S) /\ Len(p4) = Len(p3) + Len(end)
        /\ \A i \in 1..Len(p3) : p4[i] = p3[i]
        /\ \A i \in 1..Len(end) : p4[Len(p3) + i] = end[i]
    <3>1. p3 \in Seq(S) /\ end \in Seq(S)
      BY <1>5, <1>8
    <3>2. QED
      BY ONLY <3>1, Concatenated
  <2> HIDE DEF p4
  <2>2. n + 11 = (n + 10) + 1
    BY <1>1
  <2>3. QED
    BY <1>5, <1>8, <2>1, <2>2
<1>10. DOMAIN p4 = 1..n + 11
  BY <1>9, LenProperties
<1>11. Statement(name, password) = p4
  BY DEF Statement, p4, p3, p2, p1, head, middle, verifier, end
<1> HIDE DEF p4
<1>12. \A i \in 1..n : p4[i + 2] = name[i]
  <2>1. TAKE i \in 1..n
  <2>2. i + 2 \in 1..n + 10 /\ i + 2 \in 1..n + 5 /\ i + 2 \in 1..n + 2
    BY ONLY <1>1, <2>1
  <2>3. p4[i + 2] = p3[i + 2] /\ p3[i + 2] = p2[i + 2] /\ p2[i + 2] = p1[i + 2]
    BY <1>7, <1>8, <1>9, <2>2
  <2>4. QED
    BY <1>6, <2>3
<1>13. /\ \A i \in 1..2 : p4[i] = p1[i]
       /\ \A i \in 3..5 : p4[n + i] = p2[n + i]
       /\ \A i \in 6..10 : p4[n + i] = p3[n + i]
  <2>1. /\ \A i \in 1..2 : i \in 1..n + 10 /\ i \in 1..n + 5 /\ i \in 1..n + 2
        /\ \A i \in 3..5 : n + i \in 1..n + 10 /\ n + i \in 1..n + 5
        /\ \A i \in 6..10 : n + i \in 1..n + 10
    BY <1>1
  <2>2. QED
    BY <1>7, <1>8, <1>9, <2>1
<1>14. QED
  BY <1>1, <1>6, <1>7, <1>8, <1>9, <1>10, <1>11, <1>12, <1>13 DEF n

\* A statement quotes two literals, and tells of one password its keys and of none the text.
LEMMA StatementIsPlain ==
  ASSUME NEW name \in BootRoles, Boot!ValidRole(name), NEW password \in BootPasswords
  PROVE  LET s == Statement(name, password) IN
         /\ \A quote \in {"dquote", "quote"} : Cardinality({n \in DOMAIN s : s[n] = quote}) = 2
         /\ SecretText \notin Boot!ToSet(s)
         /\ \A p \in BootPasswords : BootKeys[p] \in Boot!ToSet(s) => p = password
<1> DEFINE s == Statement(name, password)
           n == Len(name)
<1>1. /\ n \in Nat /\ DOMAIN s = 1..n + 11
      /\ s[1] = "ALTER_ROLE" /\ s[2] = "dquote"
      /\ \A i \in 1..n : s[i + 2] = name[i]
      /\ s[n + 3] = "dquote" /\ s[n + 4] = "PASSWORD" /\ s[n + 5] = "quote"
      /\ \A i \in 6..10 : s[n + i] \in {"SCRAM-SHA-256$", "4096:", "salt", "$", BootKeys[password]}
      /\ s[n + 11] = "quote"
  BY BootConstants, StatementIs
<1>2. \A i \in 1..n : name[i] \in {"a-z", "0-9", "underscore"}
  <2>1. name \in Seq(STRING) /\ Boot!ToSet(name) \subseteq {"a-z", "0-9", "underscore"}
    BY BootConstants DEF Boot!ValidRole
  <2>2. DOMAIN name = 1..n
    BY <2>1, LenProperties
  <2>3. QED
    BY <2>1, <2>2 DEF Boot!ToSet
<1>3. /\ SecretText \notin Boot!Words
      /\ \A p \in BootPasswords : BootKeys[p] \notin Boot!Words \cup {SecretText}
      /\ \A p, q \in BootPasswords : BootKeys[p] = BootKeys[q] => p = q
  BY BootConstants
<1> HIDE DEF s, n
<1>4. ASSUME NEW i \in DOMAIN s
      PROVE  /\ s[i] = "dquote" <=> i \in {2, n + 3}
             /\ s[i] = "quote" <=> i \in {n + 5, n + 11}
             /\ s[i] \in Boot!Words \cup {BootKeys[password]}
  <2>1. BootKeys[password] \notin {"dquote", "quote"}
    BY <1>3 DEF Boot!Words
  <2>2. \/ i \in {1, 2} \/ i \in 3..n + 2 \/ i \in {n + 3, n + 4, n + 5} \/ i \in n + 6..n + 10
        \/ i = n + 11
    BY <1>1
  <2>3. CASE i = 1
    BY <1>1, <2>3 DEF Boot!Words
  <2>4. CASE i = 2
    BY <1>1, <2>4 DEF Boot!Words
  <2>5. CASE i \in 3..n + 2
    <3>1. i - 2 \in 1..n /\ (i - 2) + 2 = i
      BY <1>1, <2>5
    <3>2. s[i] \in {"a-z", "0-9", "underscore"}
      BY <1>1, <1>2, <3>1
    <3>3. i \notin {2, n + 3} /\ i \notin {n + 5, n + 11}
      BY <1>1, <2>5
    <3>4. QED
      BY <3>2, <3>3 DEF Boot!Words
  <2>6. CASE i = n + 3
    BY <1>1, <2>6 DEF Boot!Words
  <2>7. CASE i = n + 4
    BY <1>1, <2>7 DEF Boot!Words
  <2>8. CASE i = n + 5
    BY <1>1, <2>8 DEF Boot!Words
  <2>9. CASE i \in n + 6..n + 10
    <3>1. i - n \in 6..10 /\ n + (i - n) = i
      <4>1. n \in Nat
        BY <1>1
      <4>2. QED
        BY ONLY <4>1, <2>9
    <3>2. s[i] \in {"SCRAM-SHA-256$", "4096:", "salt", "$", BootKeys[password]}
      BY <1>1, <3>1
    <3>3. i \notin {2, n + 3} /\ i \notin {n + 5, n + 11}
      BY <1>1, <2>9
    <3>4. QED
      BY <2>1, <3>2, <3>3 DEF Boot!Words
  <2>10. CASE i = n + 11
    BY <1>1, <2>10 DEF Boot!Words
  <2>11. QED
    BY <2>2, <2>3, <2>4, <2>5, <2>6, <2>7, <2>8, <2>9, <2>10
<1>5. Cardinality({i \in DOMAIN s : s[i] = "dquote"}) = 2
  <2>1. {i \in DOMAIN s : s[i] = "dquote"} = {2, n + 3}
    <3>1. 2 \in DOMAIN s /\ n + 3 \in DOMAIN s
      BY <1>1
    <3>2. QED
      BY <1>4, <3>1
  <2>2. 2 # n + 3
    BY <1>1
  <2>3. Cardinality({2, n + 3}) = 2
    BY ONLY <2>2, TwoPlaces
  <2>4. QED
    BY <2>1, <2>3
<1>6. Cardinality({i \in DOMAIN s : s[i] = "quote"}) = 2
  <2>1. {i \in DOMAIN s : s[i] = "quote"} = {n + 5, n + 11}
    <3>1. n + 5 \in DOMAIN s /\ n + 11 \in DOMAIN s
      BY <1>1
    <3>2. QED
      BY <1>4, <3>1
  <2>2. n + 5 # n + 11
    BY <1>1
  <2>3. Cardinality({n + 5, n + 11}) = 2
    BY ONLY <2>2, TwoPlaces
  <2>4. QED
    BY <2>1, <2>3
<1>7. SecretText \notin Boot!ToSet(s)
  BY <1>3, <1>4 DEF Boot!ToSet
<1>8. \A p \in BootPasswords : BootKeys[p] \in Boot!ToSet(s) => p = password
  BY <1>3, <1>4 DEF Boot!ToSet
<1>9. QED
  BY <1>5, <1>6, <1>7, <1>8 DEF s

LEMMA EnsureAppRoleKeeps ==
  ASSUME Boot!Inv, Boot!EnsureAppRole
  PROVE  Boot!Inv'
<1>1. /\ s4 = "owner" /\ s4' = (IF s8' # {} THEN "migrated" ELSE "refused")
      /\ UNCHANGED <<s1, s2, s3, s5, s6, s7, s9>>
  BY DEF Boot!EnsureAppRole
<1>2. s6 = {}
  BY <1>1 DEF Boot!Inv, Boot!EveryProblemOnce
<1>3. PICK name \in BootRoles, password \in BootPasswords :
        s8' = IF Boot!ValidRole(name)
                THEN UNION {Boot!AlterRole(name, v) : v \in Boot!ScramVerifier(password)} ELSE {}
  BY DEF Boot!EnsureAppRole
<1>4. ASSUME NEW statement \in s8'
      PROVE  /\ Boot!ValidRole(name) /\ password # <<>> /\ "NUL" \notin Boot!ToSet(password)
             /\ statement = Statement(name, password)
  <2>1. Boot!ValidRole(name)
    BY <1>3, <1>4
  <2>2. PICK v \in Boot!ScramVerifier(password) : statement \in Boot!AlterRole(name, v)
    BY <1>3, <1>4, <2>1
  <2>3. password # <<>> /\ "NUL" \notin Boot!ToSet(password) /\ v = Boot!Scram(password)
    BY <2>2 DEF Boot!ScramVerifier
  <2>4. statement = Statement(name, v) \/ statement = Statement(name, password)
    BY <2>2, <2>3 DEF Boot!AlterRole, Statement
  <2>5. statement = Statement(name, password)
    BY <2>2, <2>3 DEF Boot!AlterRole, Statement
  <2>6. QED
    BY <2>1, <2>3, <2>5
<1>5. Boot!RoleStatementIsPlain'
  <2>1. ASSUME NEW statement \in s8'
        PROVE  /\ \A quote \in {"dquote", "quote"} :
                    Boot!Cardinality({n \in DOMAIN statement : statement[n] = quote}) = 2
               /\ SecretText \notin Boot!ToSet(statement)
               /\ \A p \in BootPasswords : BootKeys[p] \in Boot!ToSet(statement) =>
                    p # <<>> /\ "NUL" \notin Boot!ToSet(p)
    BY <1>4, <2>1, StatementIsPlain, BootCount
  <2>2. ASSUME NEW statement \in s8'
        PROVE  \A p \in BootPasswords : Boot!KeysOf(p) \in Boot!ToSet(statement) =>
                 p # <<>> /\ "NUL" \notin Boot!ToSet(p)
    BY <2>1 DEF Boot!KeysOf
  <2>3. QED
    BY <2>1, <2>2 DEF Boot!RoleStatementIsPlain
<1>6. Boot!TypeOK' /\ Boot!EveryProblemOnce'
  BY <1>1, <1>2 DEF Boot!Inv, Boot!TypeOK, Boot!EveryProblemOnce
<1>7. Boot!NoRemotePlaintext'
  BY <1>1 DEF Boot!Inv, Boot!NoRemotePlaintext, Boot!Trusted, Boot!SetTo, Boot!Url
<1>8. Boot!SecretsStayIn'
  BY <1>1 DEF Boot!Inv, Boot!SecretsStayIn
<1>9. Boot!ServesItsSchema'
  BY <1>1 DEF Boot!ServesItsSchema
<1>10. QED
  BY <1>1, <1>5, <1>6, <1>7, <1>8, <1>9 DEF Boot!Inv

\* What is current holds exactly the migrations of the binary that go up.
LEMMA CurrentIsOurs ==
  ASSUME Boot!TypeOK, Boot!IsCurrent
  PROVE  ~s2.dirty /\ s2.rows = [v \in {m.version : m \in Boot!Ups} |->
                                   (CHOOSE m \in Boot!Ups : m.version = v).sum]
<1> DEFINE versions == {m.version : m \in Boot!Ups}
<1>1. /\ ~s2.dirty /\ Boot!Pending = {} /\ Boot!ChecksumMismatch = {} /\ Boot!AppliedNotEmbedded = {}
  BY DEF Boot!IsCurrent, Boot!EmbeddedApplied
<1>2. s2.rows = [v \in DOMAIN s2.rows |-> s2.rows[v]]
  BY BootConstants DEF Boot!TypeOK
<1>3. /\ \A m, n \in s3 : m.version = n.version /\ ~m.down /\ ~n.down => m = n
      /\ \A m \in s3 : \E n \in s3 : n.version = m.version /\ ~n.down
  BY BootConstants DEF Boot!TypeOK, Boot!IsBinary
<1>4. ASSUME NEW m \in Boot!Ups
      PROVE  m.version \in DOMAIN s2.rows /\ s2.rows[m.version] = m.sum
  <2>1. m.version \in DOMAIN s2.rows
    BY <1>1 DEF Boot!Pending, Boot!Applied
  <2>2. QED
    BY <1>1, <2>1 DEF Boot!ChecksumMismatch, Boot!Applied
<1>5. ASSUME NEW v \in DOMAIN s2.rows
      PROVE  v \in versions
  <2>1. PICK m \in s3 : m.version = v
    BY <1>1, <1>5 DEF Boot!AppliedNotEmbedded
  <2>2. PICK n \in s3 : n.version = v /\ ~n.down
    BY <1>3, <2>1
  <2>3. QED
    BY <2>2 DEF Boot!Ups
<1>6. DOMAIN s2.rows = versions
  BY <1>4, <1>5
<1>7. ASSUME NEW v \in versions
      PROVE  s2.rows[v] = (CHOOSE m \in Boot!Ups : m.version = v).sum
  <2>1. PICK m \in Boot!Ups : m.version = v
    BY <1>7
  <2>2. (CHOOSE n \in Boot!Ups : n.version = v) \in Boot!Ups
    BY <2>1
  <2>3. (CHOOSE n \in Boot!Ups : n.version = v).version = v
    BY <2>1
  <2>4. QED
    BY <1>4, <2>2, <2>3
<1> HIDE DEF versions
<1>8. s2.rows = [v \in versions |-> (CHOOSE m \in Boot!Ups : m.version = v).sum]
  BY <1>2, <1>6, <1>7
<1>9. QED
  BY <1>1, <1>8 DEF versions

LEMMA ServeKeeps ==
  ASSUME Boot!Inv, Boot!Serve
  PROVE  Boot!Inv'
<1>1. /\ s4 = "migrated" /\ s4' \in {"serving", "refused"}
      /\ UNCHANGED <<s1, s2, s3, s5, s6, s8, s9>>
      /\ Boot!OpenPool("DATABASE_URL") \/ UNCHANGED s7
      /\ s4' = "serving" => Boot!IsCurrent
      /\ s4' = "refused" /\ Boot!ValidTls(Boot!Url("DATABASE_URL")) => ~Boot!IsCurrent
  BY DEF Boot!Serve
<1>2. s6 = {} /\ Boot!TypeOK
  BY <1>1 DEF Boot!Inv, Boot!EveryProblemOnce
<1>3. Boot!NoRemotePlaintext'
  BY <1>1, OpenPoolIsSafe
<1>4. Boot!TypeOK' /\ Boot!EveryProblemOnce'
  BY <1>1, <1>2 DEF Boot!Inv, Boot!TypeOK, Boot!EveryProblemOnce
<1>5. Boot!SecretsStayIn' /\ Boot!RoleStatementIsPlain'
  BY <1>1 DEF Boot!Inv, Boot!SecretsStayIn, Boot!RoleStatementIsPlain
<1>6. Boot!Ups' = Boot!Ups /\ (Boot!ValidTls(Boot!Url("DATABASE_URL")))' = Boot!ValidTls(Boot!Url("DATABASE_URL"))
  BY <1>1 DEF Boot!Ups, Boot!ValidTls, Boot!Trusted, Boot!SetTo, Boot!Url
<1>7. ASSUME ~Boot!IsCurrent
      PROVE  \/ s2.dirty
             \/ \E m \in s3 : ~m.down /\ (m.version \in DOMAIN s2.rows => s2.rows[m.version] # m.sum)
             \/ \E v \in DOMAIN s2.rows : \A m \in s3 : m.version # v
  BY <1>7
     DEF Boot!IsCurrent, Boot!EmbeddedApplied, Boot!Pending, Boot!ChecksumMismatch,
         Boot!AppliedNotEmbedded, Boot!Ups, Boot!Applied
<1>8. Boot!ServesItsSchema'
  BY <1>1, <1>2, <1>6, <1>7, CurrentIsOurs DEF Boot!ServesItsSchema
<1>9. QED
  BY <1>1, <1>3, <1>4, <1>5, <1>8 DEF Boot!Inv

LEMMA BootNext == BootInv /\ [ProvedNext]_vars => BootInv'
<1>1. SUFFICES ASSUME BootInv, [ProvedNext]_vars, part' = "boot" PROVE Boot!Inv'
  BY DEF BootInv
<1>2. part = "boot" /\ (Boot!Next \/ UNCHANGED <<s1, s2, s3, s4, s5, s6, s7, s8, s9>>)
  BY <1>1 DEF ProvedNext, vars
<1>3. Boot!Inv
  BY <1>1, <1>2 DEF BootInv
<1>4. QED
  BY <1>2, <1>3, BootQuiet, ReadEnvKeeps, OpenMigrationPoolKeeps, EnsureAppRoleKeeps, ServeKeeps
     DEF Boot!Next

\* ServiceBoot, for any environment, database, binary, role and password: a refused boot names every
\* variable it cannot use once and in order, no pool is opened in the clear on a foreign host, no
\* secret is logged or sent, and what serves has the schema it embeds.
THEOREM BootCorrect == ProvedSpec => []BootDecides
<1>1. BootInv => BootDecides
  BY DEF BootInv, BootDecides, Boot!Inv
<1>2. QED
  BY BootInit, BootNext, <1>1, PTL DEF ProvedSpec

-----------------------------------------------------------------------------
(* ScopeRegistry: keys and declarations *)

RegistryInv == part = "registry" => Registry!Inv

LEMMA BytesOfOne ==
  ASSUME NEW raw, NEW a, raw = <<a>>, a.len \in Nat
  PROVE  Registry!Bytes(raw) = a.len
<1> DEFINE top(s) == Registry!Max(s)
           Sums(g) == g = [s \in SUBSET {1} |->
                             IF s = {} THEN 0 ELSE g[s \ {top(s)}] + raw[top(s)].len]
<1>1. DOMAIN raw = {1} /\ Len(raw) - 1 = 0 /\ raw[1] = a
  OBVIOUS
<1>2. Registry!Bytes(raw) = (CHOOSE g : Sums(g))[{1}]
  BY <1>1 DEF Registry!Bytes, Registry!FoldLeft, Registry!MapThenFoldSet
<1>3. top({1}) = 1
  BY DEF Registry!Max
<1> HIDE DEF top
<1>4. \E g : Sums(g)
  <2> DEFINE sum(s) == IF s = {} THEN 0 ELSE a.len
             f == [s \in SUBSET {1} |-> sum(s)]
  <2>1. ASSUME NEW s \in SUBSET {1}, s # {}
        PROVE  sum(s) = f[s \ {top(s)}] + raw[top(s)].len
    <3>1. s = {1}
      BY <2>1
    <3>2. s \ {top(s)} = {} /\ raw[top(s)] = a
      BY <1>1, <1>3, <3>1
    <3>3. QED
      BY <3>1, <3>2
  <2>2. f = [s \in SUBSET {1} |-> IF s = {} THEN 0 ELSE f[s \ {top(s)}] + raw[top(s)].len]
    BY <2>1
  <2>3. QED
    BY <2>2
<1> DEFINE g == CHOOSE g : Sums(g)
<1>5. Sums(g)
  BY <1>4
<1> HIDE DEF g
<1>6. g[{}] = 0
  BY <1>5
<1>7. g[{1}] = g[{}] + raw[1].len
  <2>1. {1} \ {top({1})} = {}
    BY <1>3
  <2>2. QED
    BY <1>3, <1>5, <2>1
<1>8. Registry!Bytes(raw) = g[{1}]
  BY <1>2 DEF g
<1>9. QED
  BY <1>1, <1>6, <1>7, <1>8

LEMMA BytesOfTwo ==
  ASSUME NEW raw, NEW a, NEW b, raw = <<a, b>>, a.len \in Nat, b.len \in Nat
  PROVE  Registry!Bytes(raw) = 1 + a.len + b.len
<1> DEFINE top(s) == Registry!Max(s)
           Sums(g) == g = [s \in SUBSET {1, 2} |->
                             IF s = {} THEN 1 ELSE g[s \ {top(s)}] + raw[top(s)].len]
<1>1. DOMAIN raw = {1, 2} /\ Len(raw) - 1 = 1
  OBVIOUS
<1>2. Registry!Bytes(raw) = (CHOOSE g : Sums(g))[{1, 2}]
  BY <1>1 DEF Registry!Bytes, Registry!FoldLeft, Registry!MapThenFoldSet
<1>3. top({1, 2}) = 2 /\ top({1}) = 1 /\ top({2}) = 2
  BY DEF Registry!Max
<1> HIDE DEF top
<1>4. \E g : Sums(g)
  <2> DEFINE sum(s) == IF s = {} THEN 1 ELSE IF s = {1} THEN 1 + a.len
                       ELSE IF s = {2} THEN 1 + b.len ELSE 1 + a.len + b.len
             f == [s \in SUBSET {1, 2} |-> sum(s)]
  <2>1. ASSUME NEW s \in SUBSET {1, 2}, s # {}
        PROVE  sum(s) = f[s \ {top(s)}] + raw[top(s)].len
    <3>1. CASE s = {1}
      <4>1. s \ {top(s)} = {} /\ raw[top(s)] = a
        BY <1>3, <3>1
      <4>2. QED
        BY <3>1, <4>1
    <3>2. CASE s = {2}
      <4>1. s \ {top(s)} = {} /\ raw[top(s)] = b
        BY <1>3, <3>2
      <4>2. QED
        BY <3>2, <4>1
    <3>3. CASE s = {1, 2}
      <4>1. s \ {top(s)} = {1} /\ raw[top(s)] = b
        BY <1>3, <3>3
      <4>2. QED
        BY <3>3, <4>1
    <3>4. s = {1} \/ s = {2} \/ s = {1, 2}
      BY <2>1
    <3>5. QED
      BY <3>1, <3>2, <3>3, <3>4
  <2>2. f = [s \in SUBSET {1, 2} |->
               IF s = {} THEN 1 ELSE f[s \ {top(s)}] + raw[top(s)].len]
    BY <2>1
  <2>3. QED
    BY <2>2
<1> DEFINE g == CHOOSE g : Sums(g)
<1>5. Sums(g)
  BY <1>4
<1> HIDE DEF g
<1>6. g[{}] = 1
  BY <1>5
<1>7. g[{1}] = g[{}] + raw[1].len
  <2>1. {1} \ {top({1})} = {}
    BY <1>3
  <2>2. QED
    BY <1>3, <1>5, <2>1
<1>8. g[{1, 2}] = g[{1}] + raw[2].len
  <2>1. {1, 2} \ {top({1, 2})} = {1}
    BY <1>3
  <2>2. QED
    BY <1>3, <1>5, <2>1
<1>9. Registry!Bytes(raw) = g[{1, 2}]
  BY <1>2 DEF g
<1>10. QED
  BY <1>6, <1>7, <1>8, <1>9

LEMMA RawKeyIs ==
  ASSUME NEW raw, Registry!IsRawKey(raw)
  PROVE  /\ Len(raw) \in Nat \ {0} /\ DOMAIN raw = 1..Len(raw)
         /\ \A n \in 1..Len(raw) : raw[n].len \in Nat /\ raw[n].plain \in BOOLEAN
<1>1. raw \in Seq(KeySegments) /\ raw # <<>>
  BY DEF Registry!IsRawKey
<1>2. Len(raw) \in Nat \ {0} /\ DOMAIN raw = 1..Len(raw) /\ \A n \in 1..Len(raw) : raw[n] \in KeySegments
  BY <1>1
<1>3. QED
  BY <1>2, RegistryConstants

\* What is no service key breaks one of the rules.
LEMMA IllNamedService ==
  ASSUME NEW raw, Registry!IsRawKey(raw), ~ Registry!IsServiceKey(raw)
  PROVE  Registry!IllNamed(raw, 1)
<1>1. SUFFICES ASSUME ~ Registry!IllNamed(raw, 1) PROVE Registry!IsServiceKey(raw)
  OBVIOUS
<1>2. /\ Len(raw) = 1 /\ raw[1].len <= 64
      /\ \A n \in DOMAIN raw : raw[n].len # 0 /\ raw[n].plain
  BY <1>1, RawKeyIs DEF Registry!IllNamed
<1>3. raw = <<raw[1]>> /\ raw[1].len \in Nat /\ raw[1].len # 0 /\ raw[1].plain
  <2>1. raw \in Seq(KeySegments)
    BY DEF Registry!IsRawKey
  <2>2. raw = <<raw[1]>>
    BY <1>2, <2>1
  <2>3. QED
    BY <1>2, <2>2, RawKeyIs
<1>4. Registry!Bytes(raw) = raw[1].len
  BY <1>3, BytesOfOne
<1>5. Registry!SegmentError(raw[1], 64) = "ok"
  BY <1>2, <1>3 DEF Registry!SegmentError
<1>6. QED
  BY <1>2, <1>3, <1>4, <1>5
     DEF Registry!IsServiceKey, Registry!ServiceKeyError, Registry!ServiceKeyMaxLen

LEMMA IllNamedScope ==
  ASSUME NEW raw, Registry!IsRawKey(raw), ~ Registry!IsScopeKey(raw)
  PROVE  Registry!IllNamed(raw, 2)
<1>1. SUFFICES ASSUME ~ Registry!IllNamed(raw, 2) PROVE Registry!IsScopeKey(raw)
  OBVIOUS
<1>2. /\ Len(raw) = 2 /\ raw[1].len <= 64 /\ ~ (Registry!Bytes(raw) > 128)
      /\ \A n \in DOMAIN raw : raw[n].len # 0 /\ raw[n].plain
  BY <1>1, RawKeyIs DEF Registry!IllNamed
<1>3. /\ raw = <<raw[1], raw[2]>>
      /\ raw[1].len \in Nat /\ raw[1].len # 0 /\ raw[1].plain
      /\ raw[2].len \in Nat /\ raw[2].len # 0 /\ raw[2].plain
  <2>1. raw \in Seq(KeySegments)
    BY DEF Registry!IsRawKey
  <2>2. raw = <<raw[1], raw[2]>>
    BY <1>2, <2>1
  <2>3. QED
    BY <1>2, <2>2, RawKeyIs
<1>4. Registry!Bytes(raw) = 1 + raw[1].len + raw[2].len
  BY <1>3, BytesOfTwo
<1>5. ~ (raw[2].len > 128) /\ ~ (raw[1].len > 64)
  BY <1>2, <1>3, <1>4
<1>6. Registry!SegmentError(raw[1], 64) = "ok" /\ Registry!SegmentError(raw[2], 128) = "ok"
  BY <1>3, <1>5 DEF Registry!SegmentError
<1>7. QED
  BY <1>2, <1>6
     DEF Registry!IsScopeKey, Registry!ScopeKeyError, Registry!ServiceKeyMaxLen, Registry!ScopeKeyMaxLen

LEMMA FirstIsFound ==
  ASSUME NEW found \in SUBSET Nat, found # {}
  PROVE  Registry!FirstOf(found) \in found
<1>1. PICK n \in found : \A m \in found : n <= m
  BY LeastNat
<1>2. QED
  BY <1>1 DEF Registry!FirstOf

\* A declaration is refused for a scope of another service or for one that comes twice.
LEMMA DeclarationErrorIs ==
  ASSUME NEW command \in RegistryCommands
  PROVE  LET error == Registry!DeclarationError(command.manifest, command.scopes)
             foreign(n) == ~ Registry!IsOwnedBy(command.scopes[n].key, command.manifest.key)
             again(n) == \E m \in 1..n - 1 : command.scopes[m].key = command.scopes[n].key IN
         \/ error = "ok" /\ \A n \in DOMAIN command.scopes : ~ foreign(n)
         \/ error = "scope_prefix_mismatch" /\ \E n \in DOMAIN command.scopes : foreign(n)
         \/ error = "duplicate_scope_in_declaration" /\ \E n \in DOMAIN command.scopes : again(n)
<1> DEFINE list == command.scopes
           foreign(n) == ~ Registry!IsOwnedBy(list[n].key, command.manifest.key)
           again(n) == \E m \in 1..n - 1 : list[m].key = list[n].key
           found == {m \in DOMAIN list : foreign(m) \/ again(m)}
           first == Registry!FirstOf(found)
           error == Registry!DeclarationError(command.manifest, list)
<1>1. DOMAIN list = 1..Len(list) /\ Len(list) \in Nat
  BY RegistryConstants DEF Registry!IsCommand
<1>2. error = IF first = 0 THEN "ok" ELSE IF foreign(first) THEN "scope_prefix_mismatch"
              ELSE "duplicate_scope_in_declaration"
  BY DEF Registry!DeclarationError
<1>3. CASE found = {}
  <2>1. \A n \in DOMAIN list : ~ foreign(n)
    BY <1>3
  <2>2. first = 0
    BY <1>3 DEF Registry!FirstOf
  <2> HIDE DEF first, foreign, again, error
  <2>3. error = "ok"
    BY <1>2, <2>2
  <2>4. QED
    BY <2>1, <2>3 DEF foreign, error
<1>4. CASE found # {}
  <2>1. found \in SUBSET Nat /\ 0 \notin found
    BY <1>1
  <2>2. first \in found
    <3> HIDE DEF found
    <3> QED BY <1>4, <2>1, FirstIsFound
  <2>3. first # 0 /\ first \in DOMAIN list /\ (foreign(first) \/ again(first))
    BY <2>1, <2>2
  <2> HIDE DEF first, foreign, again, error, found
  <2>4. \/ error = "scope_prefix_mismatch" /\ foreign(first)
        \/ error = "duplicate_scope_in_declaration" /\ again(first)
    BY <1>2, <2>3
  <2>5. QED
    BY <2>3, <2>4 DEF error, foreign, again
<1>5. QED
  BY <1>3, <1>4

LEMMA ValidDeclares ==
  ASSUME NEW command \in RegistryCommands, Registry!Validate(command) = "ok"
  PROVE  /\ Registry!IsServiceKey(command.manifest.key)
         /\ \A n \in DOMAIN command.scopes :
              /\ Registry!IsScopeKey(command.scopes[n].key)
              /\ Registry!IsOwnedBy(command.scopes[n].key, command.manifest.key)
<1>1. /\ Registry!IsServiceKey(command.manifest.key)
      /\ \A n \in DOMAIN command.scopes : Registry!IsScopeKey(command.scopes[n].key)
      /\ Registry!DeclarationError(command.manifest, command.scopes) = "ok"
  BY DEF Registry!Validate
<1>2. \A n \in DOMAIN command.scopes : Registry!IsOwnedBy(command.scopes[n].key, command.manifest.key)
  BY <1>1, DeclarationErrorIs
<1>3. QED
  BY <1>1, <1>2

LEMMA RegistryCount == \A S : Registry!Cardinality(S) = Cardinality(S) /\ (Registry!IsFiniteSet(S) <=> IsFiniteSet(S))
BY DEF Cardinality, Registry!Cardinality, IsFiniteSet, Registry!IsFiniteSet

\* A key that comes twice leaves fewer keys than scopes.
LEMMA FewerKeys ==
  ASSUME NEW list, NEW k \in Nat, DOMAIN list = 1..k, NEW n \in 1..k, NEW m \in 1..n - 1,
         list[m].key = list[n].key
  PROVE  Cardinality({s.key : s \in Registry!ToSet(list)}) < k
<1> DEFINE places == (1..k) \ {n}
           keys == {s.key : s \in Registry!ToSet(list)}
           f == [i \in places |-> list[i].key]
<1>1. m \in places /\ m # n
  OBVIOUS
<1>2. IsFiniteSet(1..k) /\ Cardinality(1..k) = k
  BY FS_Interval
<1>3. IsFiniteSet(places) /\ Cardinality(places) = k - 1
  BY <1>2, FS_RemoveElement
<1>4. \A i \in places : list[i].key \in keys
  BY DEF Registry!ToSet
<1>5. \A key \in keys : \E i \in places : list[i].key = key
  <2>1. TAKE key \in keys
  <2>2. PICK i \in 1..k : list[i].key = key
    BY DEF Registry!ToSet
  <2>3. QED
    BY <1>1, <2>2
<1> HIDE DEF places, keys
<1>6. f \in Surjection(places, keys)
  BY <1>4, <1>5 DEF Surjection
<1>7. Cardinality(keys) <= Cardinality(places) /\ IsFiniteSet(keys)
  <2> HIDE DEF f
  <2> QED BY <1>3, <1>6, FS_Surjection
<1>8. Cardinality(keys) \in Nat
  BY <1>7, FS_CardinalityType
<1>9. QED
  BY <1>3, <1>7, <1>8 DEF keys

\* A refusal names the rule that the declaration breaks.
LEMMA RefusalIsJust ==
  ASSUME NEW command \in RegistryCommands, Registry!Validate(command) # "ok"
  PROVE  \/ /\ Registry!Validate(command) = "invalid_scope_key"
            /\ \/ Registry!IllNamed(command.manifest.key, 1)
               \/ \E n \in DOMAIN command.scopes : Registry!IllNamed(command.scopes[n].key, 2)
         \/ /\ Registry!Validate(command) = "scope_prefix_mismatch"
            /\ \E n \in DOMAIN command.scopes : command.scopes[n].key[1] # command.manifest.key[1]
         \/ /\ Registry!Validate(command) = "duplicate_scope_in_declaration"
            /\ Registry!Cardinality({s.key : s \in Registry!ToSet(command.scopes)}) < Len(command.scopes)
<1> DEFINE key == command.manifest.key
           list == command.scopes
<1>1. /\ Registry!IsRawKey(key) /\ DOMAIN list = 1..Len(list) /\ Len(list) \in Nat
      /\ \A n \in DOMAIN list : Registry!IsRawKey(list[n].key)
  BY RegistryConstants DEF Registry!IsCommand
<1>2. CASE ~ Registry!IsServiceKey(key)
  <2>1. Registry!Validate(command) = "invalid_scope_key"
    BY <1>2 DEF Registry!Validate
  <2>2. Registry!IllNamed(key, 1)
    BY <1>1, <1>2, IllNamedService
  <2>3. QED
    BY <2>1, <2>2
<1>3. CASE \E n \in DOMAIN list : ~ Registry!IsScopeKey(list[n].key)
  <2>1. Registry!Validate(command) = "invalid_scope_key"
    BY <1>3 DEF Registry!Validate
  <2>2. \E n \in DOMAIN list : Registry!IllNamed(list[n].key, 2)
    BY <1>1, <1>3, IllNamedScope
  <2>3. QED
    BY <2>1, <2>2
<1>4. CASE /\ Registry!IsServiceKey(key)
           /\ \A n \in DOMAIN list : Registry!IsScopeKey(list[n].key)
  <2> DEFINE error == Registry!DeclarationError(command.manifest, list)
  <2>1. Registry!Validate(command) = error
    BY <1>4 DEF Registry!Validate
  <2>2. \/ /\ error = "scope_prefix_mismatch"
           /\ \E n \in DOMAIN list : ~ Registry!IsOwnedBy(list[n].key, key)
        \/ /\ error = "duplicate_scope_in_declaration"
           /\ \E n \in DOMAIN list : \E m \in 1..n - 1 : list[m].key = list[n].key
    BY <2>1, DeclarationErrorIs
  <2> HIDE DEF error
  <2>3. Len(key) = 1
    BY <1>4 DEF Registry!IsServiceKey, Registry!ServiceKeyError
  <2>4. ASSUME NEW n \in DOMAIN list, ~ Registry!IsOwnedBy(list[n].key, key)
        PROVE  list[n].key[1] # key[1]
    <3>1. SUFFICES ASSUME list[n].key[1] = key[1] PROVE Registry!IsOwnedBy(list[n].key, key)
      BY <2>4
    <3>2. Registry!IsRawKey(list[n].key)
      BY <1>1
    <3>3. key \in Seq(KeySegments) /\ list[n].key \in Seq(KeySegments) /\ Len(list[n].key) \in Nat \ {0}
      BY <1>1, <3>2, RawKeyIs DEF Registry!IsRawKey
    <3> DEFINE own == key
               other == list[n].key
    <3> HIDE DEF own, other, list, key
    <3>4. own = <<own[1]>>
      BY <2>3, <3>3 DEF own
    <3>5. SubSeq(other, 1, 1) = <<other[1]>>
      <4>1. other \in Seq(KeySegments) /\ 1 \in 1..Len(other) + 1 /\ 1 \in 0..Len(other)
        BY <3>3 DEF other
      <4> DEFINE first == SubSeq(other, 1, 1)
      <4>2. first \in Seq(KeySegments) /\ Len(first) = 1 /\ first[1] = other[1]
        BY ONLY <4>1, SubSeqProperties
      <4> HIDE DEF first
      <4>3. first = <<first[1]>>
        BY <4>2
      <4>4. QED
        BY <4>2, <4>3 DEF first
    <3>6. QED
      BY <3>1, <3>4, <3>5 DEF own, other, Registry!IsOwnedBy, Registry!ServiceOf
  <2>5. ASSUME NEW n \in DOMAIN list, NEW m \in 1..n - 1, list[m].key = list[n].key
        PROVE  Registry!Cardinality({s.key : s \in Registry!ToSet(list)}) < Len(list)
    <3>1. n \in 1..Len(list)
      BY <1>1
    <3> HIDE DEF list
    <3>2. Cardinality({s.key : s \in Registry!ToSet(list)}) < Len(list)
      BY <1>1, <2>5, <3>1, FewerKeys
    <3>3. QED
      BY <3>2, RegistryCount
  <2>6. QED
    BY <2>1, <2>2, <2>4, <2>5
<1>5. QED
  BY <1>2, <1>3, <1>4

-----------------------------------------------------------------------------
(* Rows, and the lists they are hydrated into *)

LEMMA ImageFinite ==
  ASSUME NEW f, NEW S, IsFiniteSet(S)
  PROVE  IsFiniteSet({f[x] : x \in S})
<1> DEFINE T == {f[x] : x \in S}
           g == [x \in S |-> f[x]]
<1>1. g \in Surjection(S, T)
  BY DEF Surjection
<1> HIDE DEF g, T
<1>2. IsFiniteSet(T)
  BY <1>1, FS_Surjection
<1>3. QED
  BY <1>2 DEF T

\* A finite set is listed whole, each member once.
LEMMA Listed ==
  ASSUME NEW S, IsFiniteSet(S)
  PROVE  LET q == Registry!SetToSeq(S)
             k == Registry!Cardinality(S) IN
         /\ k \in Nat /\ q \in Seq(S) /\ Len(q) = k /\ DOMAIN q = 1..k
         /\ \A m, n \in 1..k : q[m] = q[n] => m = n
         /\ \A x \in S : \E n \in 1..k : q[n] = x
<1> DEFINE k == Cardinality(S)
           q == Registry!SetToSeq(S)
<1>1. k \in Nat /\ ExistsBijection(1..k, S)
  BY FS_CardinalityType
<1>2. \E f \in [1..k -> S] : Registry!IsInjective(f)
  <2>1. PICK f \in Bijection(1..k, S) : TRUE
    BY <1>1 DEF ExistsBijection
  <2>2. f \in [1..k -> S] /\ \A a, b \in 1..k : f[a] = f[b] => a = b
    BY <2>1 DEF Bijection, Injection, IsInjective
  <2> HIDE DEF k
  <2>3. QED
    BY <2>2 DEF Registry!IsInjective
<1>3. q = CHOOSE f \in [1..k -> S] : Registry!IsInjective(f)
  BY RegistryCount DEF Registry!SetToSeq
<1> HIDE DEF q
<1>4. q \in [1..k -> S] /\ Registry!IsInjective(q)
  <2> HIDE DEF k
  <2> QED BY <1>2, <1>3
<1>5. \A m, n \in 1..k : q[m] = q[n] => m = n
  <2> HIDE DEF k
  <2> QED BY <1>4 DEF Registry!IsInjective
<1>6. IsFiniteSet(1..k) /\ Cardinality(1..k) = k
  BY <1>1, FS_Interval
<1>7. q \in Injection(1..k, S)
  <2> HIDE DEF k
  <2> QED BY <1>4, <1>5 DEF Injection, IsInjective
<1>8. q \in Surjection(1..k, S)
  BY <1>6, <1>7, FS_Injection
<1>9. \A x \in S : \E n \in 1..k : q[n] = x
  <2> HIDE DEF k
  <2> QED BY <1>8 DEF Surjection
<1>10. q \in Seq(S) /\ Len(q) = k /\ DOMAIN q = 1..k
  <2> HIDE DEF k
  <2> QED BY <1>1, <1>4
<1>11. QED
  BY <1>1, <1>5, <1>9, <1>10, RegistryCount DEF q, k

\* What lists a set holds the set.
LEMMA ListedIsThere ==
  ASSUME NEW S, IsFiniteSet(S)
  PROVE  Registry!SetToSeq(S) \in Seq(S) /\ Registry!ToSet(Registry!SetToSeq(S)) = S
<1> DEFINE q == Registry!SetToSeq(S)
           k == Registry!Cardinality(S)
<1>1. /\ k \in Nat /\ q \in Seq(S) /\ Len(q) = k /\ DOMAIN q = 1..k
      /\ \A x \in S : \E n \in 1..k : q[n] = x
  BY Listed
<1> HIDE DEF q, k
<1>2. \A n \in 1..k : q[n] \in S
  BY <1>1
<1>3. Registry!ToSet(q) = S
  BY <1>1, <1>2 DEF Registry!ToSet
<1>4. QED
  BY <1>1, <1>3 DEF q

\* The rows of a list of services
ServiceRows(list) == {list[n].manifest : n \in DOMAIN list}
ScopesOf(service) ==
  {[key |-> spec.key, owner |-> service.manifest.key, label |-> spec.label] :
     spec \in Registry!ToSet(service.scopes)}
ScopeRows(list) == UNION {ScopesOf(list[n]) : n \in DOMAIN list}

\* Every service is listed once.
Listing(list) ==
  /\ list \in Seq([manifest : Registry!Introductions, scopes : Seq(Registry!Specs)])
  /\ \A m, n \in 1..Len(list) : list[m].manifest.key = list[n].manifest.key => m = n

\* What the rows are hydrated into has those rows.
LEMMA HydrateLists ==
  ASSUME Registry!Inv
  PROVE  \E list : /\ Registry!Hydrate(Registry!HydrationInput(s2, s3)) = [version |-> s1, services |-> list]
                   /\ Listing(list) /\ ServiceRows(list) = s2 /\ ScopeRows(list) = s3
<1> DEFINE specs(s) == {[key |-> r.key, label |-> r.label] : r \in {r \in s3 : r.owner = s.key}}
           input == Registry!HydrationInput(s2, s3)
           rows == {[manifest |-> s, scopes |-> specs(s)] : s \in s2}
           q == Registry!SetToSeq(rows)
           list == [n \in 1..Registry!Cardinality(rows) |->
                      [manifest |-> q[n].manifest, scopes |-> Registry!SetToSeq(q[n].scopes)]]
<1>1. /\ IsFiniteSet(s2) /\ IsFiniteSet(s3) /\ Registry!RowsLoad(s2, s3)
  BY RegistryCount DEF Registry!Inv
<1>2. input.rows = rows
  BY DEF Registry!HydrationInput
<1>3. IsFiniteSet(rows)
  <2> DEFINE f == [s \in s2 |-> [manifest |-> s, scopes |-> specs(s)]]
  <2>1. rows = {f[s] : s \in s2}
    OBVIOUS
  <2> HIDE DEF f, rows
  <2>2. QED
    BY <1>1, <2>1, ImageFinite
<1>4. \A s \in s2 : IsFiniteSet(specs(s))
  <2>1. TAKE s \in s2
  <2> DEFINE own == {r \in s3 : r.owner = s.key}
             f == [r \in own |-> [key |-> r.key, label |-> r.label]]
  <2>2. IsFiniteSet(own)
    <3>1. own \in SUBSET s3
      OBVIOUS
    <3> HIDE DEF own
    <3>2. QED
      BY <1>1, <3>1, FS_Subset
  <2>3. specs(s) = {f[r] : r \in own}
    OBVIOUS
  <2> HIDE DEF f, own, specs
  <2>4. QED
    BY <2>2, <2>3, ImageFinite
<1> DEFINE k == Registry!Cardinality(rows)
<1>5. /\ k \in Nat /\ q \in Seq(rows) /\ Len(q) = k /\ DOMAIN q = 1..k
      /\ \A m, n \in 1..k : q[m] = q[n] => m = n
      /\ \A x \in rows : \E n \in 1..k : q[n] = x
  <2> HIDE DEF rows
  <2> QED BY <1>3, Listed
<1> HIDE DEF q, k
<1>6. \A n \in 1..k : q[n].manifest \in s2 /\ q[n].scopes = specs(q[n].manifest)
  <2>1. \A n \in 1..k : q[n] \in rows
    <3> HIDE DEF rows
    <3> QED BY <1>5
  <2>2. QED
    BY <2>1
<1>7. \A s \in s2 : \E n \in 1..k : q[n].manifest = s
  <2>1. TAKE s \in s2
  <2>2. [manifest |-> s, scopes |-> specs(s)] \in rows
    OBVIOUS
  <2> HIDE DEF rows, specs
  <2>3. PICK n \in 1..k : q[n] = [manifest |-> s, scopes |-> specs(s)]
    BY <1>5, <2>2
  <2>4. QED
    BY <2>3
<1>8. \A m, n \in 1..k : q[m].manifest = q[n].manifest => m = n
  <2>1. TAKE m, n \in 1..k
  <2>2. q[m] \in rows /\ q[n] \in rows
    <3> HIDE DEF rows
    <3> QED BY <1>5
  <2>3. PICK s \in s2 : q[m] = [manifest |-> s, scopes |-> specs(s)]
    BY <2>2
  <2>4. PICK t \in s2 : q[n] = [manifest |-> t, scopes |-> specs(t)]
    BY <2>2
  <2> HIDE DEF specs
  <2>5. QED
    BY <1>5, <2>3, <2>4
<1>9. \A s \in s2 : specs(s) \subseteq Registry!Specs
  BY <1>1 DEF Registry!RowsLoad
<1>10. /\ DOMAIN list = 1..k
       /\ \A n \in 1..k : list[n] = [manifest |-> q[n].manifest,
                                     scopes |-> Registry!SetToSeq(specs(q[n].manifest))]
  BY <1>6 DEF k
<1>11. \A n \in 1..k : /\ list[n].manifest = q[n].manifest
                       /\ list[n].scopes \in Seq(Registry!Specs)
                       /\ Registry!ToSet(list[n].scopes) = specs(q[n].manifest)
  <2> HIDE DEF specs, list
  <2>1. TAKE n \in 1..k
  <2>2. IsFiniteSet(specs(q[n].manifest)) /\ specs(q[n].manifest) \subseteq Registry!Specs
    BY <1>4, <1>6, <1>9
  <2>3. /\ Registry!SetToSeq(specs(q[n].manifest)) \in Seq(specs(q[n].manifest))
        /\ Registry!ToSet(Registry!SetToSeq(specs(q[n].manifest))) = specs(q[n].manifest)
    BY <2>2, ListedIsThere
  <2>4. Registry!SetToSeq(specs(q[n].manifest)) \in Seq(Registry!Specs)
    BY <2>2, <2>3
  <2>5. QED
    BY <1>10, <2>3, <2>4
<1> DEFINE Service == [manifest : Registry!Introductions, scopes : Seq(Registry!Specs)]
<1>12. list \in Seq(Service) /\ Len(list) = k
  <2>1. \A n \in 1..k : q[n].manifest \in Registry!Introductions
    BY <1>1, <1>6 DEF Registry!RowsLoad
  <2>2. list = [n \in 1..k |-> list[n]]
    BY DEF k
  <2> HIDE DEF list, specs
  <2>3. \A n \in 1..k : list[n] \in Service
    BY <1>10, <1>11, <2>1
  <2> HIDE DEF Service
  <2>4. QED
    BY <1>5, <2>2, <2>3
<1>13. Registry!Hydrate(input) = [version |-> s1, services |-> list]
  BY <1>2 DEF Registry!Hydrate, q
<1> HIDE DEF list, input, rows
<1>14. Listing(list)
  <2>1. ASSUME NEW m \in 1..k, NEW n \in 1..k, list[m].manifest.key = list[n].manifest.key
        PROVE  m = n
    <3>1. q[m].manifest \in s2 /\ q[n].manifest \in s2 /\ q[m].manifest.key = q[n].manifest.key
      BY <1>6, <1>11, <2>1
    <3>2. q[m].manifest = q[n].manifest
      BY <1>1, <3>1 DEF Registry!RowsLoad
    <3>3. QED
      BY <1>8, <3>2
  <2>2. QED
    BY <1>12, <2>1 DEF Listing
<1>15. ServiceRows(list) = s2
  BY <1>6, <1>7, <1>10, <1>11 DEF ServiceRows
<1>16. ASSUME NEW r \in s3
       PROVE  r \in ScopeRows(list)
  <2>1. r = [key |-> r.key, owner |-> r.owner, label |-> r.label] /\ \E s \in s2 : s.key = r.owner
    BY <1>1 DEF Registry!RowsLoad
  <2>2. PICK s \in s2 : s.key = r.owner
    BY <2>1
  <2>3. PICK n \in 1..k : q[n].manifest = s
    BY <1>7
  <2>4. [key |-> r.key, label |-> r.label] \in Registry!ToSet(list[n].scopes)
    BY <1>11, <2>2, <2>3
  <2>5. r \in ScopesOf(list[n])
    BY <1>11, <2>1, <2>2, <2>3, <2>4 DEF ScopesOf
  <2>6. QED
    BY <1>10, <2>5 DEF ScopeRows
<1>17. ASSUME NEW r \in ScopeRows(list)
       PROVE  r \in s3
  <2>1. PICK n \in 1..k : r \in ScopesOf(list[n])
    BY <1>10 DEF ScopeRows
  <2>2. PICK spec \in specs(q[n].manifest) :
          r = [key |-> spec.key, owner |-> q[n].manifest.key, label |-> spec.label]
    <3> HIDE DEF specs
    <3> QED BY <1>11, <2>1 DEF ScopesOf
  <2>3. PICK row \in s3 : /\ row.owner = q[n].manifest.key
                          /\ spec = [key |-> row.key, label |-> row.label]
    OBVIOUS
  <2>4. r = [key |-> row.key, owner |-> row.owner, label |-> row.label]
    BY <2>2, <2>3
  <2>5. QED
    BY <1>1, <2>4 DEF Registry!RowsLoad
<1>18. QED
  BY <1>13, <1>14, <1>15, <1>16, <1>17 DEF input

-----------------------------------------------------------------------------
(* A declaration, scope by scope *)

LEMMA SameLargest == \A T : Registry!Max(T) = Edge!Max(T)
BY DEF Registry!Max, Edge!Max

\* register_declaration folds the specs, the last of them last.
Registering(base, specs, k, it) ==
  it = [T \in SUBSET (1..k) |->
          IF T = {} THEN base
          ELSE Registry!RegisterScope(it[T \ {Registry!Max(T)}], specs[Registry!Max(T)])]

LEMMA RegisteringExists ==
  ASSUME NEW base, NEW specs, NEW n \in Nat
  PROVE  \E it : Registering(base, specs, n, it)
<1> DEFINE N == {k \in Nat : \E it : Registering(base, specs, k, it)}
<1>1. 0 \in N
  <2> DEFINE it == [T \in SUBSET (1..0) |-> base]
  <2>1. \A T \in SUBSET (1..0) : T = {}
    OBVIOUS
  <2>2. it = [T \in SUBSET (1..0) |->
          IF T = {} THEN base
          ELSE Registry!RegisterScope(it[T \ {Registry!Max(T)}], specs[Registry!Max(T)])]
    BY <2>1
  <2> HIDE DEF it
  <2>3. Registering(base, specs, 0, it)
    BY <2>2 DEF Registering
  <2>4. QED
    BY <2>3
<1>2. ASSUME NEW k \in N PROVE k + 1 \in N
  <2>1. PICK it : Registering(base, specs, k, it)
    OBVIOUS
  <2>2. k \in Nat
    OBVIOUS
  <2> DEFINE top(T) == Registry!Max(T)
             h == [T \in SUBSET (1..(k + 1)) |->
                     IF k + 1 \in T THEN Registry!RegisterScope(it[T \ {k + 1}], specs[k + 1])
                                    ELSE it[T]]
  <2>3. ASSUME NEW T \in SUBSET (1..(k + 1))
        PROVE  h[T] = IF T = {} THEN base
                      ELSE Registry!RegisterScope(h[T \ {top(T)}], specs[top(T)])
    <3>1. CASE k + 1 \in T
      <4>1. top(T) \in T /\ \A y \in T : y <= top(T)
        BY <2>2, <3>1, LargestOf, SameLargest
      <4>2. top(T) = k + 1
        <5>1. top(T) \in 1..(k + 1) /\ k + 1 <= top(T)
          BY <3>1, <4>1
        <5>2. QED
          BY <2>2, <5>1
      <4>3. T \ {k + 1} \in SUBSET (1..(k + 1)) /\ k + 1 \notin T \ {k + 1} /\ T # {}
        BY <3>1
      <4>4. h[T \ {k + 1}] = it[T \ {k + 1}]
        BY <4>3
      <4>5. h[T] = Registry!RegisterScope(it[T \ {k + 1}], specs[k + 1])
        BY <3>1
      <4> HIDE DEF h, top
      <4>6. QED
        BY <4>2, <4>3, <4>4, <4>5
    <3>2. CASE k + 1 \notin T
      <4>1. T \in SUBSET (1..k) /\ h[T] = it[T]
        BY <2>2, <3>2
      <4>2. CASE T = {}
        BY <2>1, <4>1, <4>2 DEF Registering
      <4>3. CASE T # {}
        <5>1. T \ {top(T)} \in SUBSET (1..(k + 1)) /\ k + 1 \notin T \ {top(T)}
          BY <3>2
        <5>2. h[T \ {top(T)}] = it[T \ {top(T)}]
          BY <5>1
        <5>3. it[T] = Registry!RegisterScope(it[T \ {top(T)}], specs[top(T)])
          BY <2>1, <4>1, <4>3 DEF Registering
        <5> HIDE DEF h, top
        <5>4. QED
          BY <4>1, <4>3, <5>2, <5>3
      <4>4. QED
        BY <4>2, <4>3
    <3>3. QED
      BY <3>1, <3>2
  <2>4. h = [T \in SUBSET (1..(k + 1)) |-> h[T]]
    OBVIOUS
  <2> HIDE DEF h
  <2>5. Registering(base, specs, k + 1, h)
    BY <2>3, <2>4 DEF Registering
  <2>6. QED
    BY <2>2, <2>5
<1>3. N \in SUBSET Nat
  OBVIOUS
<1>4. N = Nat
  <2> HIDE DEF N
  <2> QED BY <1>1, <1>2, <1>3, SetInduction
<1>5. QED
  BY <1>4

RegisteredAll(base, specs) == Registry!FoldLeft(Registry!RegisterScope, base, specs)

\* What there is after the first k scopes, for every k.
LEMMA RegisteredInTurn ==
  ASSUME NEW base, NEW specs, NEW n \in Nat, DOMAIN specs = 1..n
  PROVE  \E h : /\ h[0] = base
                /\ \A k \in 0..n - 1 : h[k + 1] = Registry!RegisterScope(h[k], specs[k + 1])
                /\ RegisteredAll(base, specs) = h[n]
<1> DEFINE it == CHOOSE it : Registering(base, specs, n, it)
<1>1. Registering(base, specs, n, it)
  BY RegisteringExists
<1>2. RegisteredAll(base, specs) = it[1..n]
  BY DEF RegisteredAll, Registry!FoldLeft, Registry!MapThenFoldSet, Registering
<1> HIDE DEF it
<1> DEFINE h == [k \in 0..n |-> it[1..k]]
<1>3. h[0] = base
  <2>1. 1..0 = {} /\ {} \in SUBSET (1..n) /\ 0 \in 0..n
    OBVIOUS
  <2>2. QED
    BY <1>1, <2>1 DEF Registering
<1>4. ASSUME NEW k \in 0..n - 1
      PROVE  h[k + 1] = Registry!RegisterScope(h[k], specs[k + 1])
  <2>1. /\ 1..k + 1 \in SUBSET (1..n) /\ 1..k + 1 # {} /\ (1..k + 1) \ {k + 1} = 1..k
        /\ k \in 0..n /\ k + 1 \in 0..n /\ k + 1 \in 1..k + 1 /\ k + 1 \in Nat
    OBVIOUS
  <2>2. Registry!Max(1..k + 1) = k + 1
    <3>1. Registry!Max(1..k + 1) \in 1..k + 1 /\ k + 1 <= Registry!Max(1..k + 1)
      BY <2>1, LargestOf, SameLargest
    <3>2. QED
      BY <2>1, <3>1
  <2>3. it[1..k + 1] = Registry!RegisterScope(it[1..k], specs[k + 1])
    BY <1>1, <2>1, <2>2 DEF Registering
  <2>4. QED
    BY <2>1, <2>3
<1>5. h[n] = it[1..n]
  OBVIOUS
<1> HIDE DEF h
<1>6. QED
  BY <1>2, <1>3, <1>4, <1>5

Underway(version, list, by, events) ==
  [registry |-> [version |-> version, services |-> list], by |-> by, events |-> events]

\* What the events so far have made of the rows S and C.
Announced(S, C, list, events, by) ==
  /\ events \in Seq(Registry!Announcements)
  /\ IsFiniteSet(ServiceRows(list)) /\ IsFiniteSet(ScopeRows(list))
  /\ Registry!RowsLoad(ServiceRows(list), ScopeRows(list))
  /\ ServiceRows(list) = S \cup Registry!ServicesTold(Registry!ToSet(events))
  /\ ScopeRows(list) = C \cup Registry!ScopesTold(Registry!ToSet(events))
  /\ Cardinality(ServiceRows(list)) + Cardinality(ScopeRows(list))
       = Cardinality(S) + Cardinality(C) + Len(events)
  /\ \A k \in 1..Len(events) : events[k].by = by
  /\ \E n \in 1..Len(list) : list[n].manifest.key = by
  /\ \/ \E s \in S : s.key = by
     \/ Len(events) >= 1 /\ events[1].event = "ServiceRegistered" /\ events[1].key = by

LEMMA IndexIs ==
  ASSUME NEW list, Listing(list), NEW n \in 1..Len(list), NEW version
  PROVE  Registry!IndexOf([version |-> version, services |-> list], list[n].manifest.key) = n
<1> DEFINE found == {m \in DOMAIN list : list[m].manifest.key = list[n].manifest.key}
<1>1. DOMAIN list = 1..Len(list) /\ Len(list) \in Nat
  BY DEF Listing
<1>2. \A m \in found : m = n
  BY <1>1 DEF Listing
<1>3. n \in found /\ found \in SUBSET Nat
  BY <1>1
<1>4. Registry!IndexOf([version |-> version, services |-> list], list[n].manifest.key)
        = Registry!FirstOf(found)
  BY DEF Registry!IndexOf
<1> HIDE DEF found
<1>5. Registry!FirstOf(found) \in found
  BY <1>3, FirstIsFound
<1>6. QED
  BY <1>2, <1>4, <1>5

LEMMA OneMore ==
  ASSUME NEW S, NEW q \in Seq(S), NEW x \in S
  PROVE  LET r == Append(q, x) IN
         /\ r \in Seq(S) /\ Len(r) = Len(q) + 1 /\ Len(q) \in Nat
         /\ \A k \in 1..Len(q) : r[k] = q[k]
         /\ r[Len(q) + 1] = x
         /\ Registry!ToSet(r) = Registry!ToSet(q) \cup {x}
         /\ \A k \in 1..Len(r) : k \in 1..Len(q) \/ k = Len(q) + 1
<1> DEFINE r == Append(q, x)
<1>1. /\ r \in Seq(S) /\ Len(r) = Len(q) + 1
      /\ \A k \in 1..Len(q) : r[k] = q[k]
      /\ r[Len(q) + 1] = x
  BY AppendOne
<1> HIDE DEF r
<1>2. DOMAIN r = 1..Len(q) + 1 /\ DOMAIN q = 1..Len(q) /\ Len(q) \in Nat
  BY <1>1, LenProperties
<1>3. \A k \in 1..Len(q) + 1 : k \in 1..Len(q) \/ k = Len(q) + 1
  BY <1>2
<1>4. Registry!ToSet(r) = Registry!ToSet(q) \cup {x}
  BY <1>1, <1>2, <1>3 DEF Registry!ToSet
<1>5. QED
  BY <1>1, <1>2, <1>3, <1>4 DEF r

\* A scope that is registered is the last of its service.
LEMMA ScopeIsAdded ==
  ASSUME NEW list, Listing(list), NEW n \in 1..Len(list), NEW spec \in Registry!Specs
  PROVE  LET more == Registry!WithScope(list, n, spec) IN
         /\ Listing(more) /\ Len(more) = Len(list) /\ ServiceRows(more) = ServiceRows(list)
         /\ more[n].manifest = list[n].manifest
         /\ ScopeRows(more) = ScopeRows(list)
              \cup {[key |-> spec.key, owner |-> list[n].manifest.key, label |-> spec.label]}
<1> DEFINE more == Registry!WithScope(list, n, spec)
           Service == [manifest : Registry!Introductions, scopes : Seq(Registry!Specs)]
           row == [key |-> spec.key, owner |-> list[n].manifest.key, label |-> spec.label]
           scopes == Append(list[n].scopes, spec)
<1>1. list \in Seq(Service) /\ Len(list) \in Nat /\ DOMAIN list = 1..Len(list)
  BY DEF Listing
<1>2. \A m \in 1..Len(list) : list[m].manifest \in Registry!Introductions /\ list[m].scopes \in Seq(Registry!Specs)
  <2>1. \A m \in 1..Len(list) : list[m] \in Service
    <3> HIDE DEF Service
    <3> QED BY <1>1
  <2>2. QED
    BY <2>1
<1>3. scopes \in Seq(Registry!Specs) /\ Registry!ToSet(scopes) = Registry!ToSet(list[n].scopes) \cup {spec}
  <2>1. list[n].scopes \in Seq(Registry!Specs)
    BY <1>2
  <2>2. QED
    BY <2>1, OneMore
<1> HIDE DEF scopes
<1>4. /\ DOMAIN more = 1..Len(list)
      /\ more[n] = [manifest |-> list[n].manifest, scopes |-> scopes]
      /\ \A m \in 1..Len(list) : m # n => more[m] = list[m]
  BY <1>1 DEF scopes, Registry!WithScope
<1> HIDE DEF more
<1>5. \A m \in 1..Len(list) : more[m].manifest = list[m].manifest
  BY <1>4
<1>6. more \in Seq(Service) /\ Len(more) = Len(list)
  <2>1. \A m \in 1..Len(list) : more[m] \in Service
    <3>1. TAKE m \in 1..Len(list)
    <3>2. CASE m = n
      BY <1>2, <1>3, <1>4, <3>2
    <3>3. CASE m # n
      <4> HIDE DEF Service
      <4> QED BY <1>1, <1>4, <3>3
    <3>4. QED
      BY <3>2, <3>3
  <2>2. more = [m \in 1..Len(list) |-> more[m]]
    BY <1>1 DEF more, Registry!WithScope
  <2> DEFINE k == Len(list)
  <2>3. k \in Nat /\ more = [m \in 1..k |-> more[m]] /\ \A m \in 1..k : more[m] \in Service
    BY <1>1, <2>1, <2>2
  <2> HIDE DEF Service, k
  <2>4. more \in Seq(Service) /\ Len(more) = k
    <3>1. more \in [1..k -> Service]
      BY ONLY <2>3
    <3>2. QED
      BY ONLY <2>3, <3>1
  <2>5. QED
    BY <2>4 DEF k
<1>7. Listing(more)
  BY <1>5, <1>6 DEF Listing
<1>8. ServiceRows(more) = ServiceRows(list)
  BY <1>1, <1>4, <1>5 DEF ServiceRows
<1>9. ScopesOf(more[n]) = ScopesOf(list[n]) \cup {row}
  <2>1. more[n].manifest = list[n].manifest /\ more[n].scopes = scopes
    BY <1>4
  <2> DEFINE of(s) == [key |-> s.key, owner |-> list[n].manifest.key, label |-> s.label]
  <2>2. ScopesOf(more[n]) = {of(s) : s \in Registry!ToSet(scopes)}
    BY <2>1 DEF ScopesOf
  <2>3. ScopesOf(list[n]) = {of(s) : s \in Registry!ToSet(list[n].scopes)}
    BY DEF ScopesOf
  <2>4. row = of(spec)
    OBVIOUS
  <2> HIDE DEF of, row
  <2>5. QED
    BY <1>3, <2>2, <2>3, <2>4
<1>10. \A m \in 1..Len(list) : ScopesOf(more[m]) = IF m = n THEN ScopesOf(list[n]) \cup {row} ELSE ScopesOf(list[m])
  BY <1>4, <1>9
<1> HIDE DEF row
<1>11. ScopeRows(more) = ScopeRows(list) \cup {row}
  <2>1. ScopeRows(more) = UNION {ScopesOf(more[m]) : m \in 1..Len(list)}
    BY <1>4 DEF ScopeRows
  <2>2. ScopeRows(list) = UNION {ScopesOf(list[m]) : m \in 1..Len(list)}
    BY <1>1 DEF ScopeRows
  <2>3. \A r : r \in ScopeRows(more) <=> \E m \in 1..Len(list) : r \in ScopesOf(more[m])
    BY <2>1
  <2>4. \A r : r \in ScopeRows(list) <=> \E m \in 1..Len(list) : r \in ScopesOf(list[m])
    BY <2>2
  <2>5. \A r : \A m \in 1..Len(list) :
          r \in ScopesOf(more[m]) <=> r \in ScopesOf(list[m]) \/ (m = n /\ r = row)
    <3>1. TAKE r
    <3>2. TAKE m \in 1..Len(list)
    <3> DEFINE after == ScopesOf(more[m])
               before == ScopesOf(list[m])
    <3>3. after = IF m = n THEN before \cup {row} ELSE before
      BY <1>10
    <3> HIDE DEF after, before
    <3>4. r \in after <=> r \in before \/ (m = n /\ r = row)
      BY <3>3
    <3>5. QED
      BY <3>4 DEF after, before
  <2>6. \A r : r \in ScopeRows(more) <=> r \in ScopeRows(list) \/ r = row
    BY <2>3, <2>4, <2>5
  <2>7. QED
    BY <2>6
<1>12. QED
  BY <1>5, <1>6, <1>7, <1>8, <1>11 DEF row, more

LEMMA ServiceListed ==
  ASSUME NEW list, Listing(list), NEW n \in 1..Len(list)
  PROVE  /\ DOMAIN list = 1..Len(list)
         /\ list[n] = [manifest |-> list[n].manifest, scopes |-> list[n].scopes]
         /\ list[n].manifest \in Registry!Introductions /\ list[n].scopes \in Seq(Registry!Specs)
<1> DEFINE Service == [manifest : Registry!Introductions, scopes : Seq(Registry!Specs)]
<1>1. list \in Seq(Service)
  BY DEF Listing
<1>2. DOMAIN list = 1..Len(list) /\ list[n] \in Service
  <2> HIDE DEF Service
  <2> QED BY <1>1
<1>3. QED
  BY <1>2

\* A key the service has changes nothing.
AfterScope(version, list, n, by, events, spec) ==
  IF Registry!OwnsKey(list[n], spec.key) THEN Underway(version, list, by, events)
  ELSE Underway(version, Registry!WithScope(list, n, spec), by, Append(events, Registry!ScopeRegistered(spec, by)))

LEMMA RegisterScopeIs ==
  ASSUME NEW list, Listing(list), NEW n \in 1..Len(list), NEW version, NEW events, NEW spec
  PROVE  Registry!RegisterScope(Underway(version, list, list[n].manifest.key, events), spec)
           = AfterScope(version, list, n, list[n].manifest.key, events, spec)
<1> DEFINE by == list[n].manifest.key
           registry == [version |-> version, services |-> list]
           done == Underway(version, list, by, events)
<1>1. done.registry = registry /\ registry.services = list /\ done.by = by /\ done.events = events
  BY DEF Underway
<1>2. Registry!IndexOf(registry, by) = n
  BY IndexIs
<1>3. Registry!RegisterScope(done, spec)
        = IF Registry!OwnsKey(list[n], spec.key) THEN done ELSE Registry!ScopeAdded(done, n, spec)
  BY <1>1, <1>2 DEF Registry!RegisterScope
<1>4. Registry!ScopeAdded(done, n, spec)
        = Underway(version, Registry!WithScope(list, n, spec), by,
                   Append(events, Registry!ScopeRegistered(spec, by)))
  BY <1>1 DEF Registry!ScopeAdded, Underway
<1>5. QED
  BY <1>3, <1>4 DEF AfterScope

LEMMA SpecIs ==
  ASSUME NEW spec \in Registry!Specs
  PROVE  spec = [key |-> spec.key, label |-> spec.label]
BY DEF Registry!Specs, Registry!ScopeSpec

LEMMA ManifestIs ==
  ASSUME NEW manifest \in Registry!Introductions
  PROVE  manifest = [key |-> manifest.key, label |-> manifest.label]
BY DEF Registry!Introductions, Registry!ServiceManifest

\* A scope is registered once, and its event is its row.
LEMMA ScopeRegisters ==
  ASSUME NEW S, NEW C, NEW list, NEW events, NEW by, Listing(list), Announced(S, C, list, events, by),
         NEW version, NEW spec \in Registry!Specs,
         Registry!IsScopeKey(spec.key), Registry!IsOwnedBy(spec.key, by)
  PROVE  \E more, added :
           /\ Registry!RegisterScope(Underway(version, list, by, events), spec)
                = Underway(version, more, by, added)
           /\ Listing(more) /\ Announced(S, C, more, added, by)
           /\ ScopeRows(list) \subseteq ScopeRows(more)
           /\ \E r \in ScopeRows(more) : r.key = spec.key /\ r.owner = by
<1>1. PICK n \in 1..Len(list) : list[n].manifest.key = by
  BY DEF Announced
<1>2. /\ DOMAIN list = 1..Len(list)
      /\ list[n].manifest \in Registry!Introductions /\ list[n].scopes \in Seq(Registry!Specs)
  BY ServiceListed
<1> DEFINE row == [key |-> spec.key, owner |-> by, label |-> spec.label]
           more == Registry!WithScope(list, n, spec)
           event == Registry!ScopeRegistered(spec, by)
           added == Append(events, event)
<1>3. CASE Registry!OwnsKey(list[n], spec.key)
  <2>1. Registry!RegisterScope(Underway(version, list, by, events), spec) = Underway(version, list, by, events)
    BY <1>1, <1>3, RegisterScopeIs DEF AfterScope
  <2>2. PICK k \in DOMAIN list[n].scopes : list[n].scopes[k].key = spec.key
    BY <1>3 DEF Registry!OwnsKey
  <2> DEFINE own == [key |-> list[n].scopes[k].key, owner |-> by, label |-> list[n].scopes[k].label]
  <2>3. own \in ScopesOf(list[n])
    BY <1>1 DEF ScopesOf, Registry!ToSet
  <2>4. own \in ScopeRows(list)
    BY <1>2, <2>3 DEF ScopeRows
  <2>5. own.key = spec.key /\ own.owner = by
    BY <2>2
  <2>6. QED
    BY <2>1, <2>4, <2>5
<1>4. CASE ~ Registry!OwnsKey(list[n], spec.key)
  <2>1. Registry!RegisterScope(Underway(version, list, by, events), spec) = Underway(version, more, by, added)
    <3>1. Registry!RegisterScope(Underway(version, list, by, events), spec)
            = AfterScope(version, list, n, by, events, spec)
      BY <1>1, RegisterScopeIs
    <3>2. QED
      BY <1>4, <3>1 DEF AfterScope
  <2>2. /\ Listing(more) /\ Len(more) = Len(list) /\ ServiceRows(more) = ServiceRows(list)
        /\ more[n].manifest = list[n].manifest /\ ScopeRows(more) = ScopeRows(list) \cup {row}
    BY <1>1, ScopeIsAdded
  <2> HIDE DEF more
  <2>3. ASSUME NEW r \in ScopeRows(list), r.key = spec.key
        PROVE  FALSE
    <3>1. PICK m \in DOMAIN list : r \in ScopesOf(list[m])
      BY DEF ScopeRows
    <3>2. PICK s \in Registry!ToSet(list[m].scopes) :
            r = [key |-> s.key, owner |-> list[m].manifest.key, label |-> s.label]
      BY <3>1 DEF ScopesOf
    <3>3. Registry!IsOwnedBy(r.key, r.owner)
      BY DEF Announced, Registry!RowsLoad
    <3>4. list[m].manifest.key = by
      BY <2>3, <3>2, <3>3 DEF Registry!IsOwnedBy
    <3>5. m = n
      BY <1>1, <1>2, <3>4 DEF Listing
    <3>6. \E k \in DOMAIN list[n].scopes : list[n].scopes[k].key = spec.key
      BY <2>3, <3>2, <3>5 DEF Registry!ToSet
    <3>7. QED
      BY <1>4, <3>6 DEF Registry!OwnsKey
  <2>4. event \in Registry!Announcements /\ event.by = by /\ event.event = "ScopeRegistered"
    BY <1>1, <1>2 DEF Registry!Announcements, Registry!ScopeRegistered
  <2>5. events \in Seq(Registry!Announcements)
    BY DEF Announced
  <2>6. /\ added \in Seq(Registry!Announcements) /\ Len(added) = Len(events) + 1 /\ Len(events) \in Nat
        /\ \A k \in 1..Len(events) : added[k] = events[k]
        /\ added[Len(events) + 1] = event
        /\ Registry!ToSet(added) = Registry!ToSet(events) \cup {event}
        /\ \A k \in 1..Len(added) : k \in 1..Len(events) \/ k = Len(events) + 1
    <3> HIDE DEF event
    <3>1. event \in Registry!Announcements
      BY <2>4
    <3>2. QED
      BY ONLY <2>5, <3>1, OneMore
  <2>7. /\ Registry!ServicesTold(Registry!ToSet(added)) = Registry!ServicesTold(Registry!ToSet(events))
        /\ Registry!ScopesTold(Registry!ToSet(added)) = Registry!ScopesTold(Registry!ToSet(events)) \cup {row}
    <3>1. row = [key |-> event.key, owner |-> event.by, label |-> event.label]
      BY DEF Registry!ScopeRegistered
    <3> HIDE DEF event, row, added
    <3>2. QED
      BY <2>4, <2>6, <3>1 DEF Registry!ServicesTold, Registry!ScopesTold
  <2>8. row \notin ScopeRows(list)
    BY <2>3
  <2>9. /\ IsFiniteSet(ScopeRows(more))
        /\ Cardinality(ScopeRows(more)) = Cardinality(ScopeRows(list)) + 1
    <3>1. IsFiniteSet(ScopeRows(list))
      BY DEF Announced
    <3> HIDE DEF row
    <3>2. QED
      BY <2>2, <2>8, <3>1, FS_AddElement
  <2>10. Registry!RowsLoad(ServiceRows(more), ScopeRows(more))
    <3>1. /\ row = [key |-> row.key, owner |-> row.owner, label |-> row.label]
          /\ [key |-> row.key, label |-> row.label] \in Registry!Specs
          /\ Registry!IsScopeKey(row.key) /\ Registry!IsOwnedBy(row.key, row.owner)
          /\ row.key = spec.key
      BY SpecIs
    <3>2. \E s \in ServiceRows(list) : s.key = row.owner
      BY <1>1, <1>2 DEF ServiceRows
    <3>3. Registry!RowsLoad(ServiceRows(list), ScopeRows(list))
      BY DEF Announced
    <3> HIDE DEF row
    <3>4. Registry!RowsLoad(ServiceRows(list), ScopeRows(list) \cup {row})
      BY <2>3, <3>1, <3>2, <3>3 DEF Registry!RowsLoad
    <3>5. QED
      BY <2>2, <3>4
  <2>11. \A k \in 1..Len(added) : added[k].by = by
    <3> HIDE DEF event, added
    <3> QED BY <2>4, <2>6 DEF Announced
  <2>12. Announced(S, C, more, added, by)
    <3>1. \/ \E s \in S : s.key = by
          \/ Len(added) >= 1 /\ added[1].event = "ServiceRegistered" /\ added[1].key = by
      <4> HIDE DEF event, added
      <4> QED BY <2>6 DEF Announced
    <3>2. /\ Cardinality(ServiceRows(list)) \in Nat /\ Cardinality(ScopeRows(list)) \in Nat
      BY FS_CardinalityType DEF Announced
    <3>3. Cardinality(ServiceRows(list)) + Cardinality(ScopeRows(list))
            = Cardinality(S) + Cardinality(C) + Len(events)
      BY DEF Announced
    <3> HIDE DEF event, added, row
    <3>4. Cardinality(ServiceRows(more)) + Cardinality(ScopeRows(more))
            = Cardinality(S) + Cardinality(C) + Len(added)
      <4> DEFINE a == Cardinality(ServiceRows(list))
                 b == Cardinality(ScopeRows(list))
                 c == Cardinality(S) + Cardinality(C)
                 d == Len(events)
      <4>1. a \in Nat /\ b \in Nat /\ d \in Nat /\ a + b = c + d
        BY <2>6, <3>2, <3>3
      <4>2. c \in Nat
        <5>1. S \in SUBSET ServiceRows(list) /\ C \in SUBSET ScopeRows(list)
          BY DEF Announced
        <5>2. IsFiniteSet(S) /\ IsFiniteSet(C)
          BY <5>1, FS_Subset DEF Announced
        <5>3. QED
          BY <5>2, FS_CardinalityType
      <4>3. /\ Cardinality(ServiceRows(more)) = a /\ Cardinality(ScopeRows(more)) = b + 1
            /\ Len(added) = d + 1
        BY <2>2, <2>6, <2>9
      <4> HIDE DEF a, b, c, d
      <4>4. a + (b + 1) = c + (d + 1)
        BY <4>1, <4>2
      <4>5. QED
        BY <4>3, <4>4 DEF c
    <3>5. QED
      BY <1>1, <2>2, <2>6, <2>7, <2>9, <2>10, <2>11, <3>1, <3>4 DEF Announced
  <2>13. row \in ScopeRows(more) /\ row.key = spec.key /\ row.owner = by
    BY <2>2
  <2>14. ScopeRows(list) \subseteq ScopeRows(more)
    BY <2>2
  <2> HIDE DEF row, added
  <2>15. QED
    BY <2>1, <2>2, <2>12, <2>13, <2>14
<1>5. QED
  BY <1>3, <1>4

\* The service is there before its scopes are.
LEMMA ServiceRegisters ==
  ASSUME NEW list, Listing(list), IsFiniteSet(ServiceRows(list)), IsFiniteSet(ScopeRows(list)),
         Registry!RowsLoad(ServiceRows(list), ScopeRows(list)), NEW version,
         NEW manifest \in Registry!Introductions, Registry!IsServiceKey(manifest.key)
  PROVE  \E more, events :
           /\ Registry!RegisterService([version |-> version, services |-> list], manifest)
                = Underway(version, more, manifest.key, events)
           /\ Listing(more)
           /\ Announced(ServiceRows(list), ScopeRows(list), more, events, manifest.key)
<1> DEFINE registry == [version |-> version, services |-> list]
           key == manifest.key
           Service == [manifest : Registry!Introductions, scopes : Seq(Registry!Specs)]
           found == {m \in DOMAIN list : list[m].manifest.key = key}
           first == Registry!FirstOf(found)
<1>1. list \in Seq(Service) /\ DOMAIN list = 1..Len(list) /\ Len(list) \in Nat
  BY DEF Listing
<1>2. Registry!IndexOf(registry, key) = first
  BY DEF Registry!IndexOf
<1>3. /\ Cardinality(ServiceRows(list)) \in Nat /\ Cardinality(ScopeRows(list)) \in Nat
  BY FS_CardinalityType
<1>4. CASE first # 0
  <2>1. found # {}
    <3> HIDE DEF found
    <3> QED BY <1>4 DEF Registry!FirstOf
  <2>2. \E n \in 1..Len(list) : list[n].manifest.key = key
    BY <1>1, <2>1
  <2>3. Registry!RegisterService(registry, manifest) = Underway(version, list, key, <<>>)
    <3> HIDE DEF first
    <3> QED BY <1>2, <1>4 DEF Registry!RegisterService, Underway
  <2>4. /\ <<>> \in Seq(Registry!Announcements) /\ Len(<<>>) = 0 /\ Registry!ToSet(<<>>) = {}
    BY DEF Registry!ToSet
  <2>5. /\ ServiceRows(list) = ServiceRows(list) \cup Registry!ServicesTold({})
        /\ ScopeRows(list) = ScopeRows(list) \cup Registry!ScopesTold({})
    BY DEF Registry!ServicesTold, Registry!ScopesTold
  <2>6. \E s \in ServiceRows(list) : s.key = key
    BY <1>1, <2>2 DEF ServiceRows
  <2>7. Announced(ServiceRows(list), ScopeRows(list), list, <<>>, key)
    <3>1. \A k \in 1..0 : FALSE
      OBVIOUS
    <3>2. Cardinality(ServiceRows(list)) + Cardinality(ScopeRows(list))
            = Cardinality(ServiceRows(list)) + Cardinality(ScopeRows(list)) + 0
      BY <1>3
    <3>3. QED
      BY <2>2, <2>4, <2>5, <2>6, <3>1, <3>2 DEF Announced
  <2>8. QED
    BY <2>3, <2>7
<1>5. CASE first = 0
  <2>1. \A m \in 1..Len(list) : list[m].manifest.key # key
    <3>1. found = {}
      <4>1. found \in SUBSET Nat /\ 0 \notin found
        BY <1>1
      <4> HIDE DEF found
      <4>2. QED
        BY <1>5, <4>1, FirstIsFound
    <3>2. QED
      BY <1>1, <3>1
  <2> DEFINE new == Registry!RegisteredService(manifest)
             more == Append(list, new)
             event == Registry!ServiceRegistered(manifest)
             events == <<event>>
             k == Len(list)
  <2>2. new \in Service /\ new.manifest = manifest /\ new.scopes = <<>>
    BY DEF Registry!RegisteredService
  <2>3. Registry!RegisterService(registry, manifest) = Underway(version, more, key, events)
    <3>1. Registry!RegisterService(registry, manifest)
            = [registry |-> [registry EXCEPT !.services = Append(@, new)], by |-> key, events |-> events]
      <4> HIDE DEF first
      <4> QED BY <1>2, <1>5 DEF Registry!RegisterService
    <3>2. [registry EXCEPT !.services = Append(@, new)] = [registry EXCEPT !.services = more]
      OBVIOUS
    <3>3. [registry EXCEPT !.services = more] = [version |-> version, services |-> more]
      <4> HIDE DEF more
      <4> QED OBVIOUS
    <3> HIDE DEF registry, more, events
    <3>4. QED
      BY <3>1, <3>2, <3>3 DEF Underway
  <2>4. /\ more \in Seq(Service) /\ Len(more) = k + 1 /\ k \in Nat
        /\ \A m \in 1..k : more[m] = list[m]
        /\ more[k + 1] = new
        /\ \A m \in 1..Len(more) : m \in 1..k \/ m = k + 1
    <3> HIDE DEF Service, new
    <3>1. list \in Seq(Service) /\ new \in Service
      BY <1>1, <2>2
    <3>2. QED
      BY ONLY <3>1, OneMore DEF k
  <2> HIDE DEF more, new
  <2>5. \A m \in 1..k : more[m].manifest = list[m].manifest
    BY <2>4
  <2>6. more[k + 1].manifest = manifest /\ more[k + 1].scopes = <<>>
    BY <2>2, <2>4
  <2>7. DOMAIN more = 1..Len(more) /\ \A m \in 1..k : m \in 1..Len(more)
    <3> HIDE DEF Service
    <3> QED BY <2>4
  <2>8. k + 1 \in 1..Len(more)
    BY <2>4
  <2>9. Listing(more)
    <3>1. ASSUME NEW m \in 1..Len(more), NEW n \in 1..Len(more), more[m].manifest.key = more[n].manifest.key
          PROVE  m = n
      <4>1. CASE m \in 1..k /\ n \in 1..k
        BY <2>5, <3>1, <4>1 DEF Listing
      <4>2. CASE m \in 1..k /\ n = k + 1
        BY <2>1, <2>5, <2>6, <3>1, <4>2
      <4>3. CASE m = k + 1 /\ n \in 1..k
        BY <2>1, <2>5, <2>6, <3>1, <4>3
      <4>4. QED
        BY <2>4, <4>1, <4>2, <4>3
    <3>2. QED
      BY <2>4, <3>1 DEF Listing
  <2>10. ServiceRows(more) = ServiceRows(list) \cup {manifest}
    <3> HIDE DEF key
    <3> QED BY <1>1, <2>4, <2>5, <2>6, <2>7, <2>8 DEF ServiceRows
  <2>11. ScopeRows(more) = ScopeRows(list)
    <3>1. ScopesOf(more[k + 1]) = {}
      BY <2>6 DEF ScopesOf, Registry!ToSet
    <3>2. \A m \in 1..k : ScopesOf(more[m]) = ScopesOf(list[m])
      BY <2>4
    <3>3. \A r : r \in ScopeRows(more) <=> \E m \in 1..Len(more) : r \in ScopesOf(more[m])
      BY <2>7 DEF ScopeRows
    <3>4. \A r : r \in ScopeRows(list) <=> \E m \in 1..k : r \in ScopesOf(list[m])
      BY <1>1 DEF ScopeRows
    <3>5. \A r : r \in ScopeRows(more) <=> r \in ScopeRows(list)
      BY <2>4, <2>7, <3>1, <3>2, <3>3, <3>4
    <3>6. QED
      BY <3>5
  <2>12. \A s \in ServiceRows(list) : s.key # key
    BY <1>1, <2>1 DEF ServiceRows
  <2>13. manifest \notin ServiceRows(list)
    BY <2>12
  <2>14. /\ IsFiniteSet(ServiceRows(more)) /\ IsFiniteSet(ScopeRows(more))
         /\ Cardinality(ServiceRows(more)) = Cardinality(ServiceRows(list)) + 1
    BY <2>10, <2>11, <2>13, FS_AddElement
  <2>15. /\ event \in Registry!Announcements /\ event.by = key /\ event.key = key
         /\ event.event = "ServiceRegistered" /\ event.label = manifest.label
    BY DEF Registry!Announcements, Registry!ServiceRegistered
  <2>16. /\ events \in Seq(Registry!Announcements) /\ Len(events) = 1 /\ events[1] = event
         /\ Registry!ToSet(events) = {event}
    <3> HIDE DEF event
    <3> QED BY <2>15 DEF Registry!ToSet
  <2>17. /\ Registry!ServicesTold({event}) = {manifest} /\ Registry!ScopesTold({event}) = {}
    <3>1. manifest = [key |-> event.key, label |-> event.label]
      BY <2>15, ManifestIs
    <3> HIDE DEF event, key
    <3>2. QED
      BY <2>15, <3>1 DEF Registry!ServicesTold, Registry!ScopesTold
  <2>18. Registry!RowsLoad(ServiceRows(more), ScopeRows(more))
    BY <2>10, <2>11, <2>12 DEF Registry!RowsLoad
  <2>19. Announced(ServiceRows(list), ScopeRows(list), more, events, key)
    <3> HIDE DEF event, events
    <3>1. \A i \in 1..Len(events) : events[i].by = key
      BY <2>15, <2>16
    <3>2. \E n \in 1..Len(more) : more[n].manifest.key = key
      BY <2>6, <2>8
    <3>3. Cardinality(ServiceRows(more)) + Cardinality(ScopeRows(more))
            = Cardinality(ServiceRows(list)) + Cardinality(ScopeRows(list)) + Len(events)
      <4> DEFINE a == Cardinality(ServiceRows(list))
                 b == Cardinality(ScopeRows(list))
      <4>1. a \in Nat /\ b \in Nat
        BY <1>3
      <4>2. /\ Cardinality(ServiceRows(more)) = a + 1 /\ Cardinality(ScopeRows(more)) = b
            /\ Len(events) = 1
        BY <2>11, <2>14, <2>16
      <4> HIDE DEF a, b
      <4>3. (a + 1) + b = a + b + 1
        BY <4>1
      <4>4. QED
        BY <4>2, <4>3 DEF a, b
    <3>4. Len(events) >= 1 /\ events[1].event = "ServiceRegistered" /\ events[1].key = key
      BY <2>15, <2>16
    <3> HIDE DEF key
    <3>5. QED
      BY <2>10, <2>11, <2>14, <2>16, <2>17, <2>18, <3>1, <3>2, <3>3, <3>4 DEF Announced
  <2>20. QED
    BY <2>3, <2>9, <2>19
<1>6. QED
  BY <1>4, <1>5

\* So do all of them, in turn.
LEMMA ScopesRegister ==
  ASSUME NEW S, NEW C, NEW list, NEW events, NEW by, Listing(list), Announced(S, C, list, events, by),
         NEW version, NEW specs, NEW n \in Nat, DOMAIN specs = 1..n,
         \A k \in 1..n : /\ specs[k] \in Registry!Specs
                         /\ Registry!IsScopeKey(specs[k].key) /\ Registry!IsOwnedBy(specs[k].key, by)
  PROVE  \E more, added :
           /\ RegisteredAll(Underway(version, list, by, events), specs) = Underway(version, more, by, added)
           /\ Listing(more) /\ Announced(S, C, more, added, by)
           /\ \A k \in 1..n : \E r \in ScopeRows(more) : r.key = specs[k].key /\ r.owner = by
<1> DEFINE base == Underway(version, list, by, events)
           There(rows, k) == \E r \in rows : r.key = specs[k].key /\ r.owner = by
           Done(k, x) == \E more, added :
             /\ x = Underway(version, more, by, added) /\ Listing(more)
             /\ Announced(S, C, more, added, by)
             /\ \A j \in 1..k : There(ScopeRows(more), j)
<1>1. PICK h : /\ h[0] = base
               /\ \A k \in 0..n - 1 : h[k + 1] = Registry!RegisterScope(h[k], specs[k + 1])
               /\ RegisteredAll(base, specs) = h[n]
  <2> HIDE DEF base
  <2> QED BY RegisteredInTurn
<1> DEFINE N == {k \in Nat : k <= n => Done(k, h[k])}
<1>2. 0 \in N
  <2>1. \A j \in 1..0 : FALSE
    OBVIOUS
  <2>2. Done(0, base)
    BY <2>1
  <2> HIDE DEF Done, base
  <2>3. QED
    BY <1>1, <2>2
<1>3. ASSUME NEW k \in N PROVE k + 1 \in N
  <2>1. SUFFICES ASSUME k + 1 <= n PROVE Done(k + 1, h[k + 1])
    <3> HIDE DEF Done
    <3> QED OBVIOUS
  <2>2. k \in Nat /\ k \in 0..n - 1 /\ k + 1 \in 1..n /\ Done(k, h[k])
    <3> HIDE DEF Done
    <3> QED BY <2>1
  <2>3. PICK more, added :
          /\ h[k] = Underway(version, more, by, added) /\ Listing(more)
          /\ Announced(S, C, more, added, by)
          /\ \A j \in 1..k : There(ScopeRows(more), j)
    BY <2>2
  <2>4. /\ specs[k + 1] \in Registry!Specs
        /\ Registry!IsScopeKey(specs[k + 1].key) /\ Registry!IsOwnedBy(specs[k + 1].key, by)
    BY <2>2
  <2>5. PICK more2, added2 :
          /\ Registry!RegisterScope(Underway(version, more, by, added), specs[k + 1])
               = Underway(version, more2, by, added2)
          /\ Listing(more2) /\ Announced(S, C, more2, added2, by)
          /\ ScopeRows(more) \subseteq ScopeRows(more2)
          /\ There(ScopeRows(more2), k + 1)
    BY <2>3, <2>4, ScopeRegisters
  <2>6. h[k + 1] = Underway(version, more2, by, added2)
    BY <1>1, <2>2, <2>3, <2>5
  <2>7. \A j \in 1..k + 1 : There(ScopeRows(more2), j)
    <3>1. TAKE j \in 1..k + 1
    <3>2. CASE j \in 1..k
      <4>1. There(ScopeRows(more), j)
        BY <2>3, <3>2
      <4>2. QED
        BY <2>5, <4>1
    <3>3. j \in 1..k \/ j = k + 1
      BY <2>2
    <3> HIDE DEF There
    <3>4. QED
      BY <2>5, <3>2, <3>3
  <2> HIDE DEF There
  <2>8. QED
    BY <2>5, <2>6, <2>7
<1>4. n \in N
  <2>1. N \in SUBSET Nat
    OBVIOUS
  <2> HIDE DEF N
  <2>2. N = Nat
    BY <1>2, <1>3, <2>1, SetInduction
  <2>3. QED
    BY <2>2
<1>5. Done(n, h[n])
  <2> HIDE DEF Done
  <2> QED BY <1>4
<1> HIDE DEF base
<1>6. QED
  BY <1>1, <1>5 DEF base

\* What loads is no corruption.
LEMMA StoreLoads ==
  ASSUME NEW S, NEW C, Registry!RowsLoad(S, C)
  PROVE  Registry!Hydrates(Registry!HydrationInput(S, C))
<1> DEFINE input == Registry!HydrationInput(S, C)
           specs(s) == {[key |-> r.key, label |-> r.label] : r \in {r \in C : r.owner = s.key}}
<1>1. /\ input.rows = {[manifest |-> s, scopes |-> specs(s)] : s \in S}
      /\ input.orphans = {r \in C : \A s \in S : s.key # r.owner}
      /\ input.corrupt = {s \in S : ~ Registry!IsServiceKey(s.key)}
           \cup {r \in C : ~ Registry!IsScopeKey(r.key) \/ ~ Registry!IsServiceKey(r.owner)}
  BY DEF Registry!HydrationInput
<1>2. \A s \in S : Registry!IsServiceKey(s.key)
  BY DEF Registry!RowsLoad
<1>3. \A r \in C : /\ Registry!IsScopeKey(r.key) /\ Registry!IsOwnedBy(r.key, r.owner)
                   /\ \E s \in S : s.key = r.owner
  BY DEF Registry!RowsLoad
<1>4. \A s, t \in S : s.key = t.key => s = t
  BY DEF Registry!RowsLoad
<1>5. \A r, q \in C : r.key = q.key => r = q
  BY DEF Registry!RowsLoad
<1> HIDE DEF input
<1>6. input.orphans = {} /\ input.corrupt = {}
  BY <1>1, <1>2, <1>3
<1>7. \A row \in input.rows : row.manifest \in S /\ row.scopes = specs(row.manifest)
  BY <1>1
<1>8. \A s, t \in input.rows : s.manifest.key = t.manifest.key => s = t
  <2>1. ASSUME NEW s \in input.rows, NEW t \in input.rows, s.manifest.key = t.manifest.key
        PROVE  s = t
    <3>1. s.manifest = t.manifest
      BY <1>4, <1>7, <2>1
    <3>2. s = [manifest |-> s.manifest, scopes |-> specs(s.manifest)]
      <4> HIDE DEF specs
      <4> QED BY <1>1
    <3>3. t = [manifest |-> t.manifest, scopes |-> specs(t.manifest)]
      <4> HIDE DEF specs
      <4> QED BY <1>1
    <3> HIDE DEF specs
    <3>4. QED
      BY <3>1, <3>2, <3>3
  <2>2. QED
    BY <2>1
<1>9. \A s \in input.rows : \A spec \in s.scopes :
        \E r \in C : r.owner = s.manifest.key /\ spec = [key |-> r.key, label |-> r.label]
  BY <1>7
<1>10. \A s \in input.rows : \A spec \in s.scopes : Registry!IsOwnedBy(spec.key, s.manifest.key)
  BY <1>3, <1>9
<1>11. \A s, t \in input.rows : \A a \in s.scopes, b \in t.scopes : a.key = b.key => a = b
  BY <1>5, <1>9
<1>12. QED
  BY <1>6, <1>8, <1>10, <1>11 DEF Registry!Hydrates, input

\* Nobody else owns a key that is the service's own.
LEMMA OwnedAtHome ==
  ASSUME NEW list, Listing(list), Registry!RowsLoad(ServiceRows(list), ScopeRows(list)),
         NEW version, NEW key, NEW by, Registry!IsOwnedBy(key, by)
  PROVE  Registry!OwnerOf([version |-> version, services |-> list], key) \subseteq {by}
<1> DEFINE registry == [version |-> version, services |-> list]
           found == {m \in DOMAIN list : Registry!OwnsKey(list[m], key)}
           n == Registry!FirstOf(found)
<1>1. Registry!OwnerOf(registry, key) = IF n = 0 THEN {} ELSE {list[n].manifest.key}
  BY DEF Registry!OwnerOf
<1>2. CASE found = {}
  <2>1. n = 0
    BY <1>2 DEF Registry!FirstOf
  <2> HIDE DEF n
  <2>2. QED
    BY <1>1, <2>1
<1>3. CASE found # {}
  <2>1. found \in SUBSET Nat
    BY DEF Listing
  <2>2. n \in found
    <3> HIDE DEF found
    <3> QED BY <1>3, <2>1, FirstIsFound
  <2>3. n \in DOMAIN list /\ \E k \in DOMAIN list[n].scopes : list[n].scopes[k].key = key
    BY <2>2 DEF Registry!OwnsKey
  <2> HIDE DEF n
  <2>4. PICK k \in DOMAIN list[n].scopes : list[n].scopes[k].key = key
    BY <2>3
  <2> DEFINE r == [key |-> list[n].scopes[k].key, owner |-> list[n].manifest.key,
                   label |-> list[n].scopes[k].label]
  <2>5. r \in ScopesOf(list[n])
    BY DEF ScopesOf, Registry!ToSet
  <2>6. r \in ScopeRows(list)
    BY <2>3, <2>5 DEF ScopeRows
  <2>7. Registry!IsOwnedBy(r.key, r.owner)
    BY <2>6 DEF Registry!RowsLoad
  <2>8. list[n].manifest.key = by
    BY <2>4, <2>7 DEF Registry!IsOwnedBy
  <2>9. QED
    BY <1>1, <2>8
<1>4. QED
  BY <1>2, <1>3

\* A valid declaration is nobody else's, and is registered whole.
LEMMA DeclarationRegisters ==
  ASSUME Registry!Inv, NEW command \in RegistryCommands, Registry!Validate(command) = "ok"
  PROVE  LET registry == Registry!Hydrate(Registry!HydrationInput(s2, s3))
             done == Registry!RegisterDeclaration(registry, Registry!Declared(command))
             key == command.manifest.key IN
         /\ ~ Registry!OwnedElsewhere(registry, Registry!Declared(command))
         /\ \E version \in Nat : \E list :
              /\ done.registry = [version |-> version, services |-> list]
              /\ Listing(list) /\ Announced(s2, s3, list, done.events, key)
              /\ \A n \in DOMAIN command.scopes :
                   \E r \in ScopeRows(list) : r.key = command.scopes[n].key /\ r.owner = key
<1> DEFINE registry == Registry!Hydrate(Registry!HydrationInput(s2, s3))
           declaration == Registry!Declared(command)
           manifest == Registry!ServiceManifest(command.manifest)
           key == command.manifest.key
           specs == [n \in DOMAIN command.scopes |-> Registry!ScopeSpec(command.scopes[n])]
           count == Len(command.scopes)
<1>1. PICK list : /\ registry = [version |-> s1, services |-> list]
                  /\ Listing(list) /\ ServiceRows(list) = s2 /\ ScopeRows(list) = s3
  BY HydrateLists
<1>2. /\ IsFiniteSet(s2) /\ IsFiniteSet(s3) /\ Registry!RowsLoad(s2, s3) /\ s1 \in Nat
  BY RegistryCount DEF Registry!Inv, Registry!TypeOK
<1>3. /\ declaration.manifest = manifest /\ declaration.scopes = specs
      /\ manifest.key = key /\ manifest \in Registry!Introductions
  BY DEF Registry!Declared, Registry!ServiceManifest, Registry!Introductions
<1>4. /\ DOMAIN specs = 1..count /\ count \in Nat /\ DOMAIN command.scopes = 1..count
  BY RegistryConstants DEF Registry!IsCommand
<1>5. /\ Registry!IsServiceKey(key)
      /\ \A n \in 1..count : /\ Registry!IsScopeKey(command.scopes[n].key)
                             /\ Registry!IsOwnedBy(command.scopes[n].key, key)
  BY <1>4, ValidDeclares
<1>6. \A n \in 1..count : specs[n] \in Registry!Specs /\ specs[n].key = command.scopes[n].key
  <2>1. TAKE n \in 1..count
  <2>2. specs[n] = Registry!ScopeSpec(command.scopes[n])
    BY <1>4
  <2>3. specs[n] \in {Registry!ScopeSpec(command.scopes[m]) : m \in DOMAIN command.scopes}
    BY <1>4, <2>2
  <2> HIDE DEF specs
  <2>4. QED
    BY <2>2, <2>3 DEF Registry!Specs, Registry!ScopeSpec
<1> HIDE DEF registry, declaration, specs, manifest, count
<1>7. ~ Registry!OwnedElsewhere(registry, declaration)
  <2>1. ASSUME NEW n \in 1..count
        PROVE  Registry!OwnerOf(registry, specs[n].key) \subseteq {key}
    <3>1. Registry!IsOwnedBy(specs[n].key, key)
      BY <1>5, <1>6
    <3>2. QED
      BY <1>1, <1>2, <3>1, OwnedAtHome
  <2>2. QED
    BY <1>3, <1>4, <2>1 DEF Registry!OwnedElsewhere
<1>8. PICK first, told :
        /\ Registry!RegisterService([version |-> s1, services |-> list], manifest)
             = Underway(s1, first, key, told)
        /\ Listing(first) /\ Announced(s2, s3, first, told, key)
  <2>1. Registry!IsServiceKey(manifest.key)
    BY <1>3, <1>5
  <2>2. \E more, events :
          /\ Registry!RegisterService([version |-> s1, services |-> list], manifest)
               = Underway(s1, more, manifest.key, events)
          /\ Listing(more)
          /\ Announced(ServiceRows(list), ScopeRows(list), more, events, manifest.key)
    BY <1>1, <1>2, <1>3, <2>1, ServiceRegisters
  <2>3. QED
    BY <1>1, <1>3, <2>2
<1>9. PICK more, added :
        /\ RegisteredAll(Underway(s1, first, key, told), specs) = Underway(s1, more, key, added)
        /\ Listing(more) /\ Announced(s2, s3, more, added, key)
        /\ \A k \in 1..count : \E r \in ScopeRows(more) : r.key = specs[k].key /\ r.owner = key
  <2>1. \A k \in 1..count : /\ specs[k] \in Registry!Specs
                            /\ Registry!IsScopeKey(specs[k].key)
                            /\ Registry!IsOwnedBy(specs[k].key, key)
    BY <1>5, <1>6
  <2>2. QED
    BY <1>4, <1>8, <2>1, ScopesRegister
<1> DEFINE done == Registry!RegisterDeclaration(registry, declaration)
           up == IF added = <<>> THEN 0 ELSE 1
           last == Underway(s1, more, key, added)
<1>10. done = [last EXCEPT !.registry.version = @ + up]
  <2>1. RegisteredAll(Registry!RegisterService(registry, declaration.manifest), declaration.scopes) = last
    BY <1>1, <1>3, <1>8, <1>9
  <2>2. last.events = added
    BY DEF Underway
  <2> HIDE DEF last
  <2>3. Registry!IsNoop(last) <=> added = <<>>
    BY <2>2 DEF Registry!IsNoop
  <2>4. QED
    BY <2>1, <2>3 DEF Registry!RegisterDeclaration, RegisteredAll
<1> HIDE DEF done
<1>11. done.registry = [version |-> s1 + up, services |-> more] /\ done.events = added
  BY <1>10 DEF Underway
<1>12. s1 + up \in Nat
  BY <1>2
<1>13. \A n \in DOMAIN command.scopes :
         \E r \in ScopeRows(more) : r.key = command.scopes[n].key /\ r.owner = key
  BY <1>4, <1>6, <1>9
<1> HIDE DEF key, up
<1>14. \E version \in Nat : \E l :
         /\ done.registry = [version |-> version, services |-> l]
         /\ Listing(l) /\ Announced(s2, s3, l, done.events, key)
         /\ \A n \in DOMAIN command.scopes :
              \E r \in ScopeRows(l) : r.key = command.scopes[n].key /\ r.owner = key
  BY <1>9, <1>11, <1>12, <1>13
<1>15. QED
  BY <1>7, <1>14 DEF registry, declaration, done, key

\* What is stored of it are its rows.
LEMMA WriteStores ==
  ASSUME NEW list, Listing(list), NEW version, Registry!RowsLoad(ServiceRows(list), ScopeRows(list)),
         s2 \subseteq ServiceRows(list), s3 \subseteq ScopeRows(list),
         NEW registry, registry = [version |-> version, services |-> list], Registry!Write(registry)
  PROVE  s1' = version /\ s2' = ServiceRows(list) /\ s3' = ScopeRows(list)
<1> DEFINE new == {list[n] : n \in DOMAIN list}
           rowOf(spec, s) == [key |-> spec.key, owner |-> s.manifest.key, label |-> spec.label]
           missing(s) == {spec \in Registry!ToSet(s.scopes) :
                            \A row \in s3 : <<row.key, row.owner>> # <<spec.key, s.manifest.key>>}
<1>1. registry.version = version /\ registry.services = list
  OBVIOUS
<1>2. /\ s1' = version
      /\ s2' = s2 \cup {s.manifest : s \in {s \in new : \A row \in s2 : row.key # s.manifest.key}}
      /\ s3' = s3 \cup UNION {{rowOf(spec, s) : spec \in missing(s)} : s \in new}
  BY <1>1 DEF Registry!Write
<1>3. \A s, t \in ServiceRows(list) : s.key = t.key => s = t
  BY DEF Registry!RowsLoad
<1>4. \A r, q \in ScopeRows(list) : r.key = q.key => r = q
  BY DEF Registry!RowsLoad
<1>5. ServiceRows(list) = {s.manifest : s \in new}
  BY DEF ServiceRows
<1>6. \A r : r \in ScopeRows(list) <=> \E s \in new : \E spec \in Registry!ToSet(s.scopes) : r = rowOf(spec, s)
  BY DEF ScopeRows, ScopesOf
<1> HIDE DEF new
<1>7. s2' = ServiceRows(list)
  BY <1>2, <1>3, <1>5
<1>8. \A r : r \in s3' <=> r \in s3 \/ \E s \in new : \E spec \in missing(s) : r = rowOf(spec, s)
  BY <1>2
<1>9. ASSUME NEW r \in s3' PROVE r \in ScopeRows(list)
  BY <1>6, <1>8
<1>10. ASSUME NEW r \in ScopeRows(list) PROVE r \in s3'
  <2>0. PICK s \in new : \E spec \in Registry!ToSet(s.scopes) : r = rowOf(spec, s)
    BY <1>6
  <2>1. PICK spec \in Registry!ToSet(s.scopes) : r = rowOf(spec, s)
    BY <2>0
  <2>2. CASE spec \in missing(s)
    BY <1>8, <2>1, <2>2
  <2>3. CASE spec \notin missing(s)
    <3>1. PICK row \in s3 : row.key = spec.key
      BY <2>3
    <3>2. row = r
      BY <1>4, <2>1, <3>1
    <3>3. QED
      BY <1>8, <3>2
  <2>4. QED
    BY <2>2, <2>3
<1>11. QED
  BY <1>2, <1>7, <1>9, <1>10

-----------------------------------------------------------------------------
(* A declaration is handled *)

LEMMA ToldTogether ==
  ASSUME NEW A, NEW B
  PROVE  /\ Registry!ServicesTold(A \cup B) = Registry!ServicesTold(A) \cup Registry!ServicesTold(B)
         /\ Registry!ScopesTold(A \cup B) = Registry!ScopesTold(A) \cup Registry!ScopesTold(B)
BY DEF Registry!ServicesTold, Registry!ScopesTold

LEMMA BothTell ==
  ASSUME NEW S, NEW p \in Seq(S), NEW q \in Seq(S)
  PROVE  LET r == p \o q IN
         /\ r \in Seq(S) /\ Len(r) = Len(p) + Len(q) /\ Len(p) \in Nat /\ Len(q) \in Nat
         /\ DOMAIN r = 1..Len(p) + Len(q)
         /\ \A i \in 1..Len(p) : r[i] = p[i]
         /\ \A i \in 1..Len(q) : r[Len(p) + i] = q[i]
         /\ Registry!ToSet(r) = Registry!ToSet(p) \cup Registry!ToSet(q)
<1> DEFINE r == p \o q
           m == Len(p)
           n == Len(q)
<1>1. /\ r \in Seq(S) /\ Len(r) = m + n
      /\ \A i \in 1..m : r[i] = p[i]
      /\ \A i \in 1..n : r[m + i] = q[i]
  BY Concatenated
<1>2. m \in Nat /\ n \in Nat /\ DOMAIN p = 1..m /\ DOMAIN q = 1..n
  BY LenProperties
<1> HIDE DEF r
<1>3. DOMAIN r = 1..m + n
  BY <1>1, LenProperties
<1> HIDE DEF m, n
<1>4. \A i \in 1..m + n : i \in 1..m \/ \E j \in 1..n : i = m + j
  <2>1. TAKE i \in 1..m + n
  <2>2. CASE i \notin 1..m
    <3>1. i - m \in 1..n /\ i = m + (i - m)
      BY <1>2, <2>2
    <3>2. QED
      BY <3>1
  <2>3. QED
    BY <2>2
<1>5. \A i \in 1..m : i \in 1..m + n
  BY <1>2
<1>6. \A j \in 1..n : m + j \in 1..m + n
  BY <1>2
<1>7. Registry!ToSet(r) = Registry!ToSet(p) \cup Registry!ToSet(q)
  <2>1. ASSUME NEW x \in Registry!ToSet(r) PROVE x \in Registry!ToSet(p) \cup Registry!ToSet(q)
    <3>1. PICK i \in 1..m + n : r[i] = x
      BY <1>3 DEF Registry!ToSet
    <3>2. CASE i \in 1..m
      BY <1>1, <1>2, <3>1, <3>2 DEF Registry!ToSet
    <3>3. CASE \E j \in 1..n : i = m + j
      <4>1. PICK j \in 1..n : i = m + j
        BY <3>3
      <4>2. q[j] = x
        BY <1>1, <3>1, <4>1
      <4>3. QED
        BY <1>2, <4>2 DEF Registry!ToSet
    <3>4. QED
      BY <1>4, <3>2, <3>3
  <2>2. ASSUME NEW x \in Registry!ToSet(p) PROVE x \in Registry!ToSet(r)
    BY <1>1, <1>2, <1>3, <1>5 DEF Registry!ToSet
  <2>3. ASSUME NEW x \in Registry!ToSet(q) PROVE x \in Registry!ToSet(r)
    BY <1>1, <1>2, <1>3, <1>6 DEF Registry!ToSet
  <2>4. QED
    BY <2>1, <2>2, <2>3
<1>8. QED
  BY <1>1, <1>2, <1>3, <1>7 DEF r, m, n

\* The events go on telling what the rows are.
LEMMA TellsOn ==
  ASSUME Registry!Inv, NEW list, NEW added, NEW by, Announced(s2, s3, list, added, by),
         s2' = ServiceRows(list), s3' = ScopeRows(list), s4' = s4 \o added
  PROVE  s4' \in Seq(Registry!Announcements) /\ Registry!EventsTellAll'
<1> DEFINE m == Len(s4)
           n == Len(added)
<1>1. s4 \in Seq(Registry!Announcements) /\ added \in Seq(Registry!Announcements)
  BY DEF Registry!Inv, Announced
<1>2. /\ s4' \in Seq(Registry!Announcements) /\ Len(s4') = m + n /\ m \in Nat /\ n \in Nat
      /\ DOMAIN s4' = 1..m + n
      /\ \A i \in 1..m : s4'[i] = s4[i]
      /\ \A i \in 1..n : s4'[m + i] = added[i]
      /\ Registry!ToSet(s4') = Registry!ToSet(s4) \cup Registry!ToSet(added)
  BY <1>1, BothTell
<1>3. /\ s2 = Registry!ServicesTold(Registry!ToSet(s4)) /\ s3 = Registry!ScopesTold(Registry!ToSet(s4))
      /\ m = Cardinality(s2) + Cardinality(s3)
      /\ \A i \in 1..m : \E j \in 1..i : s4[j].event = "ServiceRegistered" /\ s4[j].key = s4[i].by
  <2>1. DOMAIN s4 = 1..m
    BY <1>1, LenProperties
  <2>2. QED
    BY <2>1, RegistryCount DEF Registry!Inv, Registry!EventsTellAll
<1>4. s2' = Registry!ServicesTold(Registry!ToSet(s4')) /\ s3' = Registry!ScopesTold(Registry!ToSet(s4'))
  <2>1. /\ s2' = s2 \cup Registry!ServicesTold(Registry!ToSet(added))
        /\ s3' = s3 \cup Registry!ScopesTold(Registry!ToSet(added))
    BY DEF Announced
  <2>2. Registry!ToSet(s4') = Registry!ToSet(s4) \cup Registry!ToSet(added)
    BY <1>2
  <2> DEFINE before == Registry!ToSet(s4)
             now == Registry!ToSet(added)
  <2>3. s2 = Registry!ServicesTold(before) /\ s3 = Registry!ScopesTold(before)
    BY <1>3
  <2> HIDE DEF before, now
  <2>4. /\ Registry!ServicesTold(before \cup now) = Registry!ServicesTold(before) \cup Registry!ServicesTold(now)
        /\ Registry!ScopesTold(before \cup now) = Registry!ScopesTold(before) \cup Registry!ScopesTold(now)
    BY ToldTogether
  <2>5. QED
    BY <2>1, <2>2, <2>3, <2>4 DEF before, now
<1>5. Len(s4') = Cardinality(s2') + Cardinality(s3')
  BY <1>2, <1>3 DEF Announced
<1>6. \A i \in DOMAIN s4' : \E j \in 1..i :
        s4'[j].event = "ServiceRegistered" /\ s4'[j].key = s4'[i].by
  <2>1. ASSUME NEW i \in 1..m
        PROVE  \E j \in 1..i : s4'[j].event = "ServiceRegistered" /\ s4'[j].key = s4'[i].by
    <3>1. PICK j \in 1..i : s4[j].event = "ServiceRegistered" /\ s4[j].key = s4[i].by
      BY <1>3
    <3>2. j \in 1..m
      BY <1>2
    <3>3. QED
      BY <1>2, <3>1, <3>2
  <2>2. ASSUME NEW k \in 1..n
        PROVE  \E j \in 1..m + k : s4'[j].event = "ServiceRegistered" /\ s4'[j].key = s4'[m + k].by
    <3>1. s4'[m + k].by = by
      BY <1>2 DEF Announced
    <3>2. CASE \E s \in s2 : s.key = by
      <4>1. PICK s \in s2 : s.key = by
        BY <3>2
      <4>2. PICK e \in Registry!ToSet(s4) : e.event = "ServiceRegistered" /\ s = [key |-> e.key, label |-> e.label]
        BY <1>3 DEF Registry!ServicesTold
      <4>3. PICK j \in 1..m : s4[j] = e
        <5>1. DOMAIN s4 = 1..m
          BY <1>1, LenProperties
        <5>2. QED
          BY <5>1 DEF Registry!ToSet
      <4>4. j \in 1..m + k
        BY <1>2
      <4>5. e.key = by
        BY <4>1, <4>2
      <4>6. s4'[j] = e
        BY <1>2, <4>3
      <4>7. QED
        BY <3>1, <4>2, <4>4, <4>5, <4>6
    <3>3. CASE Len(added) >= 1 /\ added[1].event = "ServiceRegistered" /\ added[1].key = by
      <4>1. 1 \in 1..n /\ m + 1 \in 1..m + k
        BY <1>2, <3>3
      <4>2. s4'[m + 1] = added[1]
        BY <1>2, <4>1
      <4>3. QED
        BY <3>1, <3>3, <4>1, <4>2
    <3>4. QED
      BY <3>2, <3>3 DEF Announced
  <2>3. \A i \in 1..m + n : i \in 1..m \/ \E k \in 1..n : i = m + k
    <3>1. TAKE i \in 1..m + n
    <3>2. CASE i \notin 1..m
      <4>1. i - m \in 1..n /\ i = m + (i - m)
        BY <1>2, <3>2
      <4>2. QED
        BY <4>1
    <3>3. QED
      BY <3>2
  <2>4. DOMAIN s4' = 1..m + n
    BY <1>2
  <2> HIDE DEF m, n
  <2>5. ASSUME NEW i \in DOMAIN s4'
        PROVE  \E j \in 1..i : s4'[j].event = "ServiceRegistered" /\ s4'[j].key = s4'[i].by
    <3>1. CASE i \in 1..m
      BY <2>1, <3>1
    <3>2. CASE \E k \in 1..n : i = m + k
      BY <2>2, <3>2
    <3>3. QED
      BY <2>3, <2>4, <3>1, <3>2
  <2>6. QED
    BY <2>5
<1>7. QED
  BY <1>2, <1>4, <1>5, <1>6, RegistryCount DEF Registry!EventsTellAll

LEMMA AcceptKeeps ==
  ASSUME Registry!Inv, NEW command \in RegistryCommands, Registry!Handle(command),
         Registry!Validate(command) = "ok"
  PROVE  Registry!Inv'
<1> DEFINE input == Registry!HydrationInput(s2, s3)
           registry == Registry!Hydrate(input)
           key == command.manifest.key
           done == Registry!RegisterDeclaration(registry, Registry!Declared(command))
<1>1. Registry!RowsLoad(s2, s3)
  BY DEF Registry!Inv
<1>2. Registry!Hydrates(input)
  BY <1>1, StoreLoads
<1>3. ~ Registry!OwnedElsewhere(registry, Registry!Declared(command))
  BY DeclarationRegisters
<1>4. PICK version \in Nat : \E list :
        /\ done.registry = [version |-> version, services |-> list]
        /\ Listing(list) /\ Announced(s2, s3, list, done.events, key)
        /\ \A n \in DOMAIN command.scopes :
             \E r \in ScopeRows(list) : r.key = command.scopes[n].key /\ r.owner = key
  BY DeclarationRegisters
<1>5. PICK list :
        /\ done.registry = [version |-> version, services |-> list]
        /\ Listing(list) /\ Announced(s2, s3, list, done.events, key)
        /\ \A n \in DOMAIN command.scopes :
             \E r \in ScopeRows(list) : r.key = command.scopes[n].key /\ r.owner = key
  BY <1>4
<1>6. Registry!IsServiceKey(key)
  BY ValidDeclares
<1>7. Registry!Judge(registry, command) = "ok"
  BY <1>3 DEF Registry!Judge
<1>8. Registry!ReplyService(key) = key
  BY <1>6 DEF Registry!ReplyService
<1> HIDE DEF input, registry, done
<1>9. /\ s7' = TRUE /\ s5' = [fact |-> "accepted", service |-> key, reason |-> "ok"]
      /\ s6' = {command} /\ s4' = s4 \o done.events
      /\ Registry!Write(done.registry)
  <2>1. s7' = Registry!Hydrates(input)
    BY DEF Registry!Handle, input
  <2>2. s7' = TRUE
    BY <1>2, <2>1 DEF Registry!Hydrates
  <2>3. /\ s5' = Registry!Accepted(Registry!ReplyService(key)) /\ s6' = {command}
        /\ s4' = s4 \o done.events /\ Registry!Write(done.registry)
    BY <1>7, <2>2 DEF Registry!Handle, input, registry, done
  <2>4. QED
    BY <1>8, <2>2, <2>3 DEF Registry!Accepted
<1>10. /\ Registry!RowsLoad(ServiceRows(list), ScopeRows(list))
       /\ IsFiniteSet(ServiceRows(list)) /\ IsFiniteSet(ScopeRows(list))
       /\ s2 \subseteq ServiceRows(list) /\ s3 \subseteq ScopeRows(list)
       /\ \E n \in 1..Len(list) : list[n].manifest.key = key
  BY <1>5 DEF Announced
<1>11. s1' = version /\ s2' = ServiceRows(list) /\ s3' = ScopeRows(list)
  BY <1>5, <1>9, <1>10, WriteStores
<1>12. s4' \in Seq(Registry!Announcements) /\ Registry!EventsTellAll'
  BY <1>5, <1>9, <1>11, TellsOn
<1>13. Registry!RowsLoad(s2', s3')
  BY <1>10, <1>11
<1>14. Registry!TypeOK'
  <2>1. \A r \in s3' : DOMAIN r = {"key", "owner", "label"}
    <3>1. TAKE r \in s3'
    <3>2. r = [key |-> r.key, owner |-> r.owner, label |-> r.label]
      BY <1>13 DEF Registry!RowsLoad
    <3>3. QED
      BY <3>2
  <2>2. QED
    BY <1>9, <1>11, <2>1 DEF Registry!TypeOK
<1>15. Registry!NeverCorrupt'
  <2>1. Registry!Hydrates(Registry!HydrationInput(s2', s3'))
    BY <1>13, StoreLoads
  <2>2. QED
    BY <1>9, <2>1 DEF Registry!NeverCorrupt
<1>16. Registry!RepliesAreJust'
  <2>1. \E s \in s2' : s.key = key
    <3>1. DOMAIN list = 1..Len(list)
      BY <1>5 DEF Listing
    <3>2. QED
      BY <1>10, <1>11, <3>1 DEF ServiceRows
  <2>2. s5'.fact = "accepted" /\ s5'.service = key
    BY <1>9
  <2>3. QED
    BY <1>5, <1>9, <1>11, <2>1, <2>2 DEF Registry!RepliesAreJust
<1>17. Registry!IsFiniteSet(s2') /\ Registry!IsFiniteSet(s3')
  BY <1>10, <1>11, RegistryCount
<1>18. QED
  BY <1>12, <1>13, <1>14, <1>15, <1>16, <1>17 DEF Registry!Inv

LEMMA RejectKeeps ==
  ASSUME Registry!Inv, NEW command \in RegistryCommands, Registry!Handle(command),
         Registry!Validate(command) # "ok"
  PROVE  Registry!Inv'
<1> DEFINE input == Registry!HydrationInput(s2, s3)
           registry == Registry!Hydrate(input)
           reason == Registry!Validate(command)
           service == Registry!ReplyService(command.manifest.key)
<1>1. Registry!RowsLoad(s2, s3)
  BY DEF Registry!Inv
<1>2. Registry!Hydrates(input)
  BY <1>1, StoreLoads
<1>3. Registry!Judge(registry, command) = reason
  BY DEF Registry!Judge
<1>4. s7' = Registry!Hydrates(input)
  BY DEF Registry!Handle
<1>5. s7' = TRUE
  BY <1>2, <1>4 DEF Registry!Hydrates
<1> HIDE DEF registry
<1>6. /\ s5' = Registry!Rejected(service, reason) /\ s6' = {command}
      /\ UNCHANGED <<s1, s2, s3, s4>>
  BY <1>3, <1>5 DEF Registry!Handle, registry
<1> HIDE DEF reason, input, service
<1>7. s5'.fact = "rejected" /\ s5'.reason = reason
  BY <1>6 DEF Registry!Rejected
<1>8. Registry!TypeOK'
  BY <1>5, <1>6, <1>7 DEF Registry!Inv, Registry!TypeOK
<1>9. Registry!NeverCorrupt' /\ Registry!EventsTellAll' /\ Registry!RowsLoad(s2', s3')
  BY <1>1, <1>2, <1>5, <1>6 DEF Registry!Inv, Registry!NeverCorrupt, Registry!EventsTellAll, input
<1>10. Registry!RepliesAreJust'
  <2>1. \/ /\ reason = "invalid_scope_key"
           /\ \/ Registry!IllNamed(command.manifest.key, 1)
              \/ \E n \in DOMAIN command.scopes : Registry!IllNamed(command.scopes[n].key, 2)
        \/ /\ reason = "scope_prefix_mismatch"
           /\ \E n \in DOMAIN command.scopes : command.scopes[n].key[1] # command.manifest.key[1]
        \/ /\ reason = "duplicate_scope_in_declaration"
           /\ Registry!Cardinality({s.key : s \in Registry!ToSet(command.scopes)}) < Len(command.scopes)
    BY RefusalIsJust DEF reason
  <2>2. QED
    BY <1>6, <1>7, <2>1 DEF Registry!RepliesAreJust
<1>11. QED
  BY <1>6, <1>8, <1>9, <1>10 DEF Registry!Inv

-----------------------------------------------------------------------------
LEMMA RegistryInit == ProvedInit => RegistryInv
<1>1. SUFFICES ASSUME ProvedInit, part = "registry" PROVE Registry!Inv
  BY DEF RegistryInv
<1>2. /\ s1 = 0 /\ s2 = {} /\ s3 = {} /\ s4 = <<>> /\ s5 = Registry!Unanswered /\ s6 = {} /\ s7 = TRUE
  BY <1>1 DEF ProvedInit, Registry!Init
<1>3. Registry!TypeOK
  BY <1>2 DEF Registry!TypeOK, Registry!Unanswered
<1>4. Registry!RowsLoad(s2, s3)
  BY <1>2 DEF Registry!RowsLoad
<1>5. Registry!NeverCorrupt
  BY <1>2, <1>4, StoreLoads DEF Registry!NeverCorrupt
<1>6. Registry!EventsTellAll
  <2>1. Registry!ToSet(s4) = {}
    BY <1>2 DEF Registry!ToSet
  <2>2. Len(s4) = 0 /\ DOMAIN s4 = {}
    BY <1>2
  <2>3. Registry!Cardinality(s2) = 0 /\ Registry!Cardinality(s3) = 0
    BY <1>2, RegistryCount, FS_EmptySet
  <2>4. s2 = Registry!ServicesTold({}) /\ s3 = Registry!ScopesTold({})
    BY <1>2 DEF Registry!ServicesTold, Registry!ScopesTold
  <2>5. QED
    BY <2>1, <2>2, <2>3, <2>4 DEF Registry!EventsTellAll
<1>7. Registry!RepliesAreJust
  BY <1>2 DEF Registry!RepliesAreJust
<1>8. Registry!IsFiniteSet(s2) /\ Registry!IsFiniteSet(s3)
  BY <1>2, RegistryCount, FS_EmptySet
<1>9. s4 \in Seq(Registry!Announcements)
  BY <1>2
<1>10. QED
  BY <1>3, <1>4, <1>5, <1>6, <1>7, <1>8, <1>9 DEF Registry!Inv

LEMMA RegistryQuiet ==
  ASSUME Registry!Inv, UNCHANGED <<s1, s2, s3, s4, s5, s6, s7>>
  PROVE  Registry!Inv'
BY DEF Registry!Inv, Registry!TypeOK, Registry!NeverCorrupt, Registry!EventsTellAll,
       Registry!RepliesAreJust

LEMMA RegistryNext == RegistryInv /\ [ProvedNext]_vars => RegistryInv'
<1>1. SUFFICES ASSUME RegistryInv, [ProvedNext]_vars, part' = "registry" PROVE Registry!Inv'
  BY DEF RegistryInv
<1>2. part = "registry" /\ (Registry!Next \/ UNCHANGED <<s1, s2, s3, s4, s5, s6, s7>>)
  BY <1>1 DEF ProvedNext, vars
<1>3. Registry!Inv
  BY <1>1, <1>2 DEF RegistryInv
<1>4. QED
  BY <1>2, <1>3, RegistryQuiet, AcceptKeeps, RejectKeeps DEF Registry!Next

\* ScopeRegistry, for any declarations in any order: the rows are what the events tell, each service
\* and each scope announced once; they always load again; and a reply is just.
THEOREM RegistryCorrect == ProvedSpec => []RegistryIsJust
<1>1. RegistryInv => RegistryIsJust
  BY DEF RegistryInv, RegistryIsJust, Registry!Inv, Registry!RegistryIsJust
<1>2. QED
  BY RegistryInit, RegistryNext, <1>1, PTL DEF ProvedSpec
=============================================================================
