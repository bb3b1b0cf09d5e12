------------------------- MODULE StableNamesProofs -------------------------
(***************************************************************************)
(* What genStableObjectName promises, for names of any length.             *)
(***************************************************************************)
EXTENDS StableNames, SequenceTheorems, TLAPS

LEMMA RoomType == Room \in Nat \ {0} /\ Room + HashLen + 1 = MaxLen
BY DigestAssumption DEF Room

LEMMA KeptType ==
  ASSUME NEW s \in Seq(Char)
  PROVE  /\ Kept(s) \in Seq(Char)
         /\ Len(Kept(s)) = IF Len(s) <= Room THEN Len(s) ELSE Room
         /\ \A i \in 1 .. Len(Kept(s)) : Kept(s)[i] = s[i]
<1>1. Len(s) \in Nat /\ Room \in Nat \ {0}
  BY RoomType
<1>2. CASE Len(s) <= Room
  BY <1>1, <1>2 DEF Kept
<1>3. CASE Len(s) > Room
  <2>1. Kept(s) = SubSeq(s, 1, Room)
    BY <1>1, <1>3 DEF Kept
  <2>2. /\ SubSeq(s, 1, Room) \in Seq(Char)
        /\ Len(SubSeq(s, 1, Room)) = Room
        /\ \A i \in 1 .. Room : SubSeq(s, 1, Room)[i] = s[i]
    BY <1>1, <1>3
  <2> QED BY <2>1, <2>2, <1>1, <1>3
<1> QED BY <1>1, <1>2, <1>3

LEMMA ThreeParts ==
  ASSUME NEW S, NEW k \in Seq(S), NEW d \in S, NEW h \in Seq(S)
  PROVE  /\ k \o <<d>> \o h \in Seq(S)
         /\ Len(k \o <<d>> \o h) = Len(k) + 1 + Len(h)
         /\ \A i \in 1 .. Len(k) : (k \o <<d>> \o h)[i] = k[i]
         /\ (k \o <<d>> \o h)[Len(k) + 1] = d
         /\ \A i \in 1 .. Len(h) : (k \o <<d>> \o h)[Len(k) + 1 + i] = h[i]
<1> DEFINE p == k \o <<d>>
           n == p \o h
<1>1. /\ <<d>> \in Seq(S) /\ Len(<<d>>) = 1 /\ <<d>>[1] = d
      /\ Len(k) \in Nat /\ Len(h) \in Nat
  OBVIOUS
<1>2. /\ p \in Seq(S) /\ Len(p) = Len(k) + 1
      /\ \A i \in 1 .. Len(k) + 1 : p[i] = IF i <= Len(k) THEN k[i] ELSE <<d>>[i - Len(k)]
  BY <1>1, ConcatProperties
<1>3. (\A i \in 1 .. Len(k) : p[i] = k[i]) /\ p[Len(k) + 1] = d
  BY <1>1, <1>2
<1> HIDE DEF p
<1>4. /\ n \in Seq(S) /\ Len(n) = Len(p) + Len(h)
      /\ \A i \in 1 .. Len(p) + Len(h) : n[i] = IF i <= Len(p) THEN p[i] ELSE h[i - Len(p)]
  <2>1. p \in Seq(S) /\ h \in Seq(S)
    BY <1>2
  <2> QED BY <2>1, ConcatProperties, Zenon
<1> HIDE DEF n
<1>5. \A i \in 1 .. Len(k) : n[i] = k[i]
  BY <1>1, <1>2, <1>3, <1>4
<1>6. n[Len(k) + 1] = d
  BY <1>1, <1>2, <1>3, <1>4
<1>7. ASSUME NEW i \in 1 .. Len(h) PROVE n[Len(k) + 1 + i] = h[i]
  <2>1. Len(k) + 1 + i \in 1 .. Len(p) + Len(h) /\ ~(Len(k) + 1 + i <= Len(p))
    BY <1>1, <1>2
  <2>2. (Len(k) + 1 + i) - Len(p) = i
    BY <1>1, <1>2
  <2> QED BY <2>1, <2>2, <1>4
<1> QED BY <1>2, <1>4, <1>5, <1>6, <1>7 DEF n, p

LEMMA PartsType ==
  ASSUME NEW s \in Seq(Char), NEW a \in DOMAIN Digest
  PROVE  Kept(s) \in Seq(Char) /\ Dash \in Char /\ Digest[a] \in Seq(Char)
<1>1. Digest[a] \in Seq(Alnum)
  BY DigestAssumption
<1> QED BY <1>1, KeptType DEF Char

\* Whether cut or not, a name is what is kept, a dash and the digest.
LEMMA NameIs ==
  ASSUME NEW s \in Seq(Char), NEW a \in DOMAIN Digest
  PROVE  genStableObjectName(s, a) = Kept(s) \o <<Dash>> \o Digest[a]
<1>1. Len(s) \in Nat /\ Len(Digest[a]) = HashLen /\ HashLen \in Nat /\ MaxLen \in Nat
  BY DigestAssumption
<1>2. MaxLen - HashLen - 1 = Room /\ (Len(s) + HashLen + 1 <= MaxLen <=> Len(s) <= Room)
  BY <1>1, RoomType DEF Room
<1> QED BY <1>1, <1>2 DEF genStableObjectName, setSuffixMax63, Kept

LEMMA NameShape ==
  ASSUME NEW s \in Seq(Char), NEW a \in DOMAIN Digest
  PROVE  /\ genStableObjectName(s, a) \in Seq(Char)
         /\ Len(Kept(s)) \in Nat
         /\ Len(genStableObjectName(s, a)) = Len(Kept(s)) + 1 + HashLen
         /\ \A i \in 1 .. Len(Kept(s)) : genStableObjectName(s, a)[i] = Kept(s)[i]
         /\ genStableObjectName(s, a)[Len(Kept(s)) + 1] = Dash
         /\ \A i \in 1 .. HashLen :
              genStableObjectName(s, a)[Len(Kept(s)) + 1 + i] = Digest[a][i]
<1> DEFINE k == Kept(s)
           h == Digest[a]
           n == k \o <<Dash>> \o h
<1>0. k \in Seq(Char) /\ Dash \in Char /\ h \in Seq(Char)
  BY PartsType
<1> HIDE DEF k, h
<1>1. /\ n \in Seq(Char)
      /\ Len(n) = Len(k) + 1 + Len(h)
      /\ \A i \in 1 .. Len(k) : n[i] = k[i]
      /\ n[Len(k) + 1] = Dash
      /\ \A i \in 1 .. Len(h) : n[Len(k) + 1 + i] = h[i]
  BY <1>0, ThreeParts
<1>2. Len(h) = HashLen
  BY DigestAssumption DEF h
<1>3. Len(k) \in Nat
  BY <1>0
<1>5. genStableObjectName(s, a) = n /\ Kept(s) = k /\ Digest[a] = h
  BY NameIs DEF k, h
<1> HIDE DEF n
<1> QED BY <1>1, <1>2, <1>3, <1>5

\* A generated name fits a label of 63 characters however long the name of the
\* Config is, and always keeps the whole digest of the App.
THEOREM NameFits ==
  ASSUME NEW s \in Seq(Char), NEW a \in DOMAIN Digest
  PROVE  Len(genStableObjectName(s, a)) <= MaxLen
<1>1. /\ Len(genStableObjectName(s, a)) = Len(Kept(s)) + 1 + HashLen
      /\ Len(Kept(s)) \in Nat
  BY NameShape, Zenon
<1>2. Len(Kept(s)) <= Room
  <2>1. Len(s) \in Nat
    OBVIOUS
  <2> QED BY <2>1, KeptType, RoomType
<1> QED BY <1>1, <1>2, RoomType, DigestAssumption

\* Two Configs have a name in common exactly when they are for the same App and
\* agree in the part that is kept.
THEOREM NamesSharedIff ==
  ASSUME NEW s \in Seq(Char), NEW t \in Seq(Char), NEW a \in DOMAIN Digest, NEW b \in DOMAIN Digest
  PROVE  genStableObjectName(s, a) = genStableObjectName(t, b)
           <=> Kept(s) = Kept(t) /\ a = b
<1> DEFINE m == genStableObjectName(s, a)
           n == genStableObjectName(t, b)
<1>1. ASSUME Kept(s) = Kept(t) /\ a = b PROVE m = n
  BY <1>1, NameIs
<1>2. ASSUME m = n PROVE Kept(s) = Kept(t) /\ a = b
  <2>0. /\ Kept(s) \in Seq(Char) /\ Kept(t) \in Seq(Char)
        /\ HashLen \in Nat /\ Len(Kept(s)) \in Nat /\ Len(Kept(t)) \in Nat
    <3>1. Kept(s) \in Seq(Char) /\ Kept(t) \in Seq(Char)
      BY KeptType
    <3> QED BY <3>1, DigestAssumption
  <2>a. /\ Len(m) = Len(Kept(s)) + 1 + HashLen
        /\ \A i \in 1 .. Len(Kept(s)) : m[i] = Kept(s)[i]
        /\ \A i \in 1 .. HashLen : m[Len(Kept(s)) + 1 + i] = Digest[a][i]
    BY NameShape
  <2>b. /\ Len(n) = Len(Kept(t)) + 1 + HashLen
        /\ \A i \in 1 .. Len(Kept(t)) : n[i] = Kept(t)[i]
        /\ \A i \in 1 .. HashLen : n[Len(Kept(t)) + 1 + i] = Digest[b][i]
    BY NameShape
  <2> HIDE DEF m, n
  <2>1. Len(Kept(s)) = Len(Kept(t))
    BY <1>2, <2>0, <2>a, <2>b
  <2>2. \A i \in 1 .. Len(Kept(s)) : Kept(s)[i] = Kept(t)[i]
    BY <1>2, <2>1, <2>a, <2>b
  <2>3. Kept(s) = Kept(t)
    BY <2>0, <2>1, <2>2, SeqEqual
  <2>4. \A i \in 1 .. HashLen : Digest[a][i] = Digest[b][i]
    BY <1>2, <2>1, <2>a, <2>b
  <2>5. /\ Digest[a] \in Seq(Alnum) /\ Digest[b] \in Seq(Alnum)
        /\ Len(Digest[a]) = HashLen /\ Len(Digest[b]) = HashLen
    BY DigestAssumption
  <2>6. Digest[a] = Digest[b]
    BY <2>4, <2>5, SeqEqual
  <2> QED BY <2>3, <2>6, DigestAssumption
<1> QED BY <1>1, <1>2

\* One Config never uses one name for two Apps: what ConfigReconciler assumes
\* of StableName.
THEOREM NameTellsApps ==
  ASSUME NEW s \in Seq(Char), NEW a \in DOMAIN Digest, NEW b \in DOMAIN Digest,
         genStableObjectName(s, a) = genStableObjectName(s, b)
  PROVE  a = b
BY NamesSharedIff

\* Configs whose names are short enough never share an object.
THEOREM ShortNamesApart ==
  ASSUME NEW s \in Seq(Char), NEW t \in Seq(Char), NEW a \in DOMAIN Digest, NEW b \in DOMAIN Digest,
         Len(s) <= Room, Len(t) <= Room,
         genStableObjectName(s, a) = genStableObjectName(t, b)
  PROVE  s = t
BY NamesSharedIff DEF Kept

\* The API server accepts the generated name of a Config it accepted, unless
\* the cut leaves a dot in front of the dash.
THEOREM NameLegal ==
  ASSUME NEW s \in ConfigNames, NEW a \in DOMAIN Digest
  PROVE  Legal(genStableObjectName(s, a)) <=> Kept(s)[Len(Kept(s))] # Dot
<1> DEFINE n == genStableObjectName(s, a)
           k == Len(Kept(s))
<1>0. /\ HashLen \in Nat \ {0} /\ Dash \notin Alnum /\ Dot \notin Alnum /\ Dash # Dot
      /\ s \in Seq(Char) /\ Legal(s) /\ s # << >>
  BY DigestAssumption DEF ConfigNames, Legal
<1>1. /\ Len(s) \in Nat \ {0} /\ k \in Nat \ {0} /\ k <= Len(s) /\ Room \in Nat \ {0}
      /\ \A i \in 1 .. k : Kept(s)[i] = s[i]
  <2>1. Len(s) \in Nat \ {0}
    BY <1>0
  <2> QED BY <2>1, <1>0, KeptType, RoomType
<1>2. /\ Len(n) = k + 1 + HashLen
      /\ \A i \in 1 .. k : n[i] = s[i]
      /\ n[k + 1] = Dash
      /\ \A i \in k + 2 .. Len(n) : n[i] \in Alnum
  <2>1. /\ Len(n) = k + 1 + HashLen
        /\ \A i \in 1 .. k : n[i] = Kept(s)[i]
        /\ n[k + 1] = Dash
        /\ \A i \in 1 .. HashLen : n[k + 1 + i] = Digest[a][i]
    BY <1>0, NameShape
  <2>2. \A i \in 1 .. HashLen : Digest[a][i] \in Alnum
    BY DigestAssumption
  <2>3. ASSUME NEW i \in k + 2 .. Len(n) PROVE n[i] \in Alnum
    <3>1. i - k - 1 \in 1 .. HashLen /\ k + 1 + (i - k - 1) = i
      BY <1>0, <1>1, <2>1
    <3> QED BY <3>1, <2>1, <2>2
  <2> QED BY <1>1, <2>1, <2>3
<1>a. n \in Seq(Char)
  BY <1>0, NameShape
<1>b. Kept(s)[Len(Kept(s))] = s[k]
  BY <1>1
<1> HIDE DEF n, k
<1>3. n # << >> /\ n[1] \in Alnum /\ n[Len(n)] \in Alnum
  <2>1. n[1] = s[1] /\ s[1] \in Alnum
    BY <1>0, <1>1, <1>2 DEF Legal
  <2>2. Len(n) \in k + 2 .. Len(n) /\ Len(n) # 0
    BY <1>0, <1>1, <1>2
  <2> QED BY <1>2, <1>a, <2>1, <2>2
<1>4. ASSUME Legal(n) PROVE s[k] # Dot
  <2>1. SUFFICES ASSUME s[k] = Dot PROVE FALSE
    OBVIOUS
  <2>2. k # 1
    BY <1>0, <2>1 DEF Legal
  <2>3. k \in 2 .. Len(n) - 1 /\ n[k] = Dot
    <3>1. k \in 1 .. k /\ k \in 2 .. k + 1 + HashLen - 1
      BY <1>0, <1>1, <2>2
    <3>2. k + 1 + HashLen - 1 = Len(n) - 1
      BY <1>0, <1>1, <1>2
    <3> QED BY <1>2, <2>1, <3>1, <3>2
  <2>4. n[k + 1] \in Alnum
    BY <1>4, <2>3 DEF Legal
  <2> QED BY <2>4, <1>2, <1>0
<1>5. ASSUME s[k] # Dot, NEW i \in 2 .. Len(n) - 1, n[i] = Dot
      PROVE  n[i - 1] \in Alnum /\ n[i + 1] \in Alnum
  <2>1. i \in 2 .. k - 1
    <3>1. i \notin k + 2 .. Len(n)
      BY <1>0, <1>2, <1>5
    <3>2. i # k + 1
      BY <1>0, <1>2, <1>5
    <3>3. i # k
      BY <1>1, <1>2, <1>5
    <3> QED BY <3>1, <3>2, <3>3, <1>0, <1>1, <1>2
  <2>2. i \in 2 .. Len(s) - 1 /\ s[i] = Dot
    BY <2>1, <1>1, <1>2, <1>5
  <2>3. s[i - 1] \in Alnum /\ s[i + 1] \in Alnum
    BY <2>2, <1>0 DEF Legal
  <2> QED BY <2>1, <2>3, <1>1, <1>2
<1>6. Legal(n) <=> s[k] # Dot
  BY <1>3, <1>4, <1>5 DEF Legal
<1> QED BY <1>6, <1>b DEF n

=============================================================================
