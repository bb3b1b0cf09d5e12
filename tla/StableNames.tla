---------------------------- MODULE StableNames ----------------------------
(***************************************************************************)
(* The name shared by the ConfigMap and the Secret of a Config: the name   *)
(* of the Config, cut if need be, a dash and ten digits that stand for the *)
(* App.  Names are sequences of characters of the API server's alphabet.   *)
(***************************************************************************)
EXTENDS Naturals, Sequences

CONSTANTS
  Alnum,    \* letters and digits
  Dash, Dot,
  Digest,   \* of each App in use, the first HashLen digits of its SHA-1
  HashLen,  \* 10
  MaxLen    \* 63

Char == Alnum \cup {Dash, Dot}

\* A name has room for at least one character of the Config's, and no two Apps
\* in use have digests that agree in the first HashLen digits.
ASSUME DigestAssumption ==
  /\ HashLen \in Nat \ {0} /\ MaxLen \in Nat /\ HashLen + 1 < MaxLen
  /\ Dash \notin Alnum /\ Dot \notin Alnum /\ Dash # Dot
  /\ \A a \in DOMAIN Digest : Digest[a] \in Seq(Alnum) /\ Len(Digest[a]) = HashLen
  /\ \A a, b \in DOMAIN Digest : Digest[a] = Digest[b] => a = b

\* The part of a Config's name that is kept.
Room == MaxLen - HashLen - 1
Kept(s) == IF Len(s) <= Room THEN s ELSE SubSeq(s, 1, Room)

setSuffixMax63(s, suffix) ==
  IF Len(s) + Len(suffix) + 1 <= MaxLen
  THEN s \o <<Dash>> \o suffix
  ELSE SubSeq(s, 1, MaxLen - Len(suffix) - 1) \o <<Dash>> \o suffix

genStableObjectName(s, app) == setSuffixMax63(s, Digest[app])

\* A lowercase RFC 1123 subdomain, which names of Configs, ConfigMaps and
\* Secrets must be, but for its length.
Legal(s) ==
  /\ s # << >>
  /\ s[1] \in Alnum /\ s[Len(s)] \in Alnum
  /\ \A i \in 2 .. Len(s) - 1 : s[i] = Dot => s[i - 1] \in Alnum /\ s[i + 1] \in Alnum

ConfigNames == {s \in Seq(Char) : Legal(s)}

=============================================================================
