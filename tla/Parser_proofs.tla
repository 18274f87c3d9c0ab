------------------------------ MODULE Parser_proofs ------------------------------
(***************************************************************************)
(* Proofs about CallChain, for any words, markers and kernel limits, and   *)
(* about Parser, for any set of fields and kinds, any lengths and numbers  *)
(* of registers.                                                           *)
(***************************************************************************)
EXTENDS Parser, CallChain, NatLemmas, SequenceTheorems, FiniteSetTheorems, TLAPS

\* Every context of the kernel's fits in the limit, each once, the cookie counting as
\* one: 7 contexts, and 8 by default.
ContextsFit ==
  /\ IsFiniteSet(Contexts) /\ {"User", Deferred} \subseteq Contexts
  /\ Cardinality(Contexts) <= MaxContexts

Pairs(C, I) == [ctx : C, ips : Seq(I)]
Context == Pairs(Contexts, Ips \cup Cookies)
Chain == Pairs(Known \cup {"Unknown"}, Nat)

-----------------------------------------------------------------------------
(* Words.                                                                   *)

LEMMA WordTypes ==
  /\ 2^Width \in Nat /\ MaxMarker \in Nat \ {0} /\ MaxMarker < 2^Width
  /\ \A k \in Contexts : Marker[k] \in 0..(2^Width - 1) /\ IsMarker(Marker[k])
  /\ \A ip \in Ips : ip \in 0..(2^Width - 1) /\ ~IsMarker(ip)
  /\ Ips \cup Cookies \subseteq Nat /\ MaxContexts \in Nat
  /\ Known \subseteq Contexts
<1>1. /\ 2^Width \in Nat /\ MaxMarker \in 1..(2^Width - 1)
      /\ \A ip \in Ips : ip \in 0..(2^Width - 1)
      /\ \A c \in Cookies : c \in 0..(2^Width - 1)
  BY ChainAssumption
<1>2. PICK N \in Nat : N = 2^Width BY <1>1
<1>3. MaxMarker \in Nat \ {0} /\ MaxMarker < N BY <1>1, <1>2
<1>4. Ips \cup Cookies \subseteq Nat BY <1>1, <1>2
<1> QED BY <1>2, <1>3, <1>4, ChainAssumption

\* take_ips: adding 4095 wraps exactly for the markers.
LEMMA StopsAtMarkers ==
  ASSUME NEW w \in 0..(2^Width - 1)
  PROVE  Stops(w) <=> IsMarker(w)
<1>1. PICK N \in Nat : N = 2^Width BY WordTypes
<1>2. MaxMarker \in Nat \ {0} /\ MaxMarker < N /\ w \in 0..(N - 1)
  BY <1>1, WordTypes
<1>3. CASE w >= N - MaxMarker
  <2>1. (w + MaxMarker) - N \in 0..(N - 1) BY <1>2, <1>3
  <2>2. (w + MaxMarker) % N = (w + MaxMarker) - N BY <1>2, <2>1, ModSmall
  <2> QED BY <1>1, <1>2, <1>3, <2>2 DEF Stops, Mod, IsMarker
<1>4. CASE ~(w >= N - MaxMarker)
  <2>1. w + MaxMarker \in 0..(N - 1) BY <1>2, <1>4
  <2>2. (w + MaxMarker) % N = w + MaxMarker BY <1>2, <2>1, ModSmall
  <2> QED BY <1>1, <1>2, <1>4, <2>2 DEF Stops, Mod, IsMarker
<1> QED BY <1>3, <1>4

\* No two markers are taken for each other.
LEMMA KindOfMarker ==
  ASSUME NEW k \in Contexts
  PROVE  /\ KindOf(Marker[k]) = IF k \in Known THEN k ELSE "Unknown"
         /\ KindOf(Marker[k]) \in Known \cup {"Unknown"}
         /\ Deferred \in Known /\ k # Deferred => KindOf(Marker[k]) # Deferred
<1>1. \A l \in Known : Marker[l] = Marker[k] => l = k
  BY ChainAssumption
<1>2. KindOf(Marker[k]) = IF k \in Known THEN k ELSE "Unknown"
  BY <1>1 DEF KindOf
<1> QED BY <1>2 DEF Deferred

LEMMA OneMore ==
  ASSUME NEW S, NEW s \in Seq(S), NEW x \in S
  PROVE  /\ Append(s, x) \in Seq(S) /\ Len(Append(s, x)) = Len(s) + 1
         /\ Append(s, x)[Len(s) + 1] = x
         /\ \A i \in 1..Len(s) : Append(s, x)[i] = s[i]
BY AppendProperties

\* One more word of the last context.
LEMMA ExtendedLast ==
  ASSUME NEW C, NEW I, NEW s \in Seq(Pairs(C, I)), Len(s) > 0, NEW w \in I
  PROVE  /\ Extended(s, w) \in Seq(Pairs(C, I)) /\ Len(Extended(s, w)) = Len(s)
         /\ \A i \in 1..(Len(s) - 1) : Extended(s, w)[i] = s[i]
         /\ Extended(s, w)[Len(s)].ctx = s[Len(s)].ctx
         /\ Extended(s, w)[Len(s)].ips = Append(s[Len(s)].ips, w)
<1> DEFINE n == Len(s)
           x == [s[n] EXCEPT !.ips = Append(@, w)]
<1>1. n \in Nat /\ n > 0 BY LenProperties
<1>0. DOMAIN s = 1..n BY LenProperties
<1>2. s[n] \in Pairs(C, I) /\ n \in 1..Len(s) BY <1>1, ElementOfSeq
<1>3. s[n].ips \in Seq(I) /\ Append(s[n].ips, w) \in Seq(I)
  <2>1. s[n].ips \in Seq(I) BY <1>2 DEF Pairs
  <2> QED BY <2>1, OneMore
<1>4. x \in Pairs(C, I) /\ x.ctx = s[n].ctx /\ x.ips = Append(s[n].ips, w)
  BY <1>2, <1>3 DEF Pairs
<1>5. Extended(s, w) = [s EXCEPT ![n] = x]
  BY <1>0, <1>1 DEF Extended
<1>6. n \in 1..Len(s) BY <1>1
<1> HIDE DEF x, n
<1>7. /\ [s EXCEPT ![n] = x] \in Seq(Pairs(C, I))
      /\ Len([s EXCEPT ![n] = x]) = Len(s)
      /\ \A j \in 1..Len(s) : [s EXCEPT ![n] = x][j] = IF j = n THEN x ELSE s[j]
  BY <1>4, <1>6, ExceptSeq
<1>8. n = Len(s) BY DEF n
<1>9. \A j \in 1..(Len(s) - 1) : j \in 1..Len(s) /\ j # Len(s) BY <1>1, <1>8
<1>10. Extended(s, w)[n] = x /\ \A j \in 1..(Len(s) - 1) : Extended(s, w)[j] = s[j]
  BY <1>5, <1>6, <1>7, <1>8, <1>9
<1> QED BY <1>4, <1>5, <1>7, <1>8, <1>10 DEF x

-----------------------------------------------------------------------------
(* The kernel.                                                              *)

LEMMA InitChain == ChainInit => ChainInv
<1> SUFFICES ASSUME ChainInit PROVE ChainInv OBVIOUS
<1> DEFINE pos == [i \in 1..1 |-> 0]
<1>1. /\ pc = "write" /\ words = <<>> /\ sent = <<>> /\ at = 0 /\ chains = <<>>
      /\ Len(sent) = 0 /\ Len(words) = 0 /\ DOMAIN sent = {}
  BY DEF ChainInit
<1>2. pos \in [1..(Len(sent) + 1) -> 0..Len(words)] BY <1>1
<1>3. Laid(pos) /\ CursorOK(pos) BY <1>1 DEF Laid, CursorOK
<1>4. SentOK BY <1>1 DEF SentOK
<1>5. chains \in Seq(Chain) BY <1>1
<1> QED BY <1>2, <1>3, <1>4, <1>5 DEF ChainInv, Chain, Pairs

LEMMA SentTypes ==
  ASSUME SentOK
  PROVE  /\ words \in Seq(Nat) /\ Len(words) \in Nat /\ DOMAIN words = 1..Len(words)
         /\ sent \in Seq(Context) /\ Len(sent) \in Nat /\ DOMAIN sent = 1..Len(sent)
         /\ \A i \in 1..Len(sent) :
              /\ sent[i] \in Context /\ sent[i].ctx \in Contexts
              /\ sent[i].ips \in Seq(Ips \cup Cookies)
              /\ Len(sent[i].ips) \in Nat /\ DOMAIN sent[i].ips = 1..Len(sent[i].ips)
<1>1. words \in Seq(Nat) /\ sent \in Seq(Context)
  BY DEF SentOK, Context, Pairs
<1>2. /\ Len(words) \in Nat /\ DOMAIN words = 1..Len(words)
      /\ Len(sent) \in Nat /\ DOMAIN sent = 1..Len(sent)
  BY <1>1, LenProperties
<1>3. ASSUME NEW i \in 1..Len(sent)
      PROVE  /\ sent[i] \in Context /\ sent[i].ctx \in Contexts
             /\ sent[i].ips \in Seq(Ips \cup Cookies)
             /\ Len(sent[i].ips) \in Nat /\ DOMAIN sent[i].ips = 1..Len(sent[i].ips)
  <2>1. sent[i] \in Context BY <1>1, ElementOfSeq
  <2>2. sent[i].ctx \in Contexts /\ sent[i].ips \in Seq(Ips \cup Cookies) BY <2>1 DEF Context, Pairs
  <2> QED BY <2>1, <2>2, LenProperties
<1> QED BY <1>1, <1>2, <1>3

Placed(pos) == pos \in [1..(Len(sent) + 1) -> 0..Len(words)] /\ Laid(pos)

AddContext(k, ws) == /\ words' = Append(words, Marker[k]) \o ws
                     /\ sent' = Append(sent, Ctx(k, ws))
                     /\ IF k = Deferred THEN Len(ws) = 1 /\ pc' # "write" /\ Deferred \in Known
                                        ELSE ws \in Seq(Ips)

AddIp(ip) == words # <<>> /\ words' = Append(words, ip) /\ sent' = Extended(sent, ip)

\* A new context k with the words ws, behind all others.
LEMMA NewContext ==
  ASSUME SentOK, NEW pos, Placed(pos), pc = "write", NEW k \in Contexts, ~Written(k),
         NEW ws \in Seq(Ips \cup Cookies), AddContext(k, ws)
  PROVE  SentOK' /\ \E p : Placed(p)' /\ p[1] = 0
<1> DEFINE n == Len(sent)
           len == Len(words)
           m == Len(ws)
<1>0. PICK p : p = [i \in 1..(n + 2) |-> IF i = n + 2 THEN len + 1 + m ELSE pos[i]]
  OBVIOUS
<1>1. len \in Nat /\ n \in Nat /\ m \in Nat
  BY SentTypes, LenProperties
<1>21. /\ words \in Seq(Nat) /\ sent \in Seq(Context) /\ ws \in Seq(Nat)
       /\ DOMAIN sent = 1..n /\ DOMAIN ws = 1..m
  <2>1. ws \in Seq(Nat) BY WordTypes, SeqMonotonic
  <2> QED BY <2>1, SentTypes, LenProperties
<1>2. Marker[k] \in Nat BY WordTypes
<1>3. /\ words' \in Seq(Nat) /\ Len(words') = len + 1 + m
      /\ \A i \in 1..len : words'[i] = words[i]
      /\ words'[len + 1] = Marker[k]
      /\ \A j \in 1..m : words'[len + 1 + j] = ws[j]
  <2> DEFINE a == Append(words, Marker[k])
  <2>1. /\ a \in Seq(Nat) /\ Len(a) = len + 1 /\ a[len + 1] = Marker[k]
        /\ \A i \in 1..len : a[i] = words[i]
    BY <1>1, <1>2, <1>21, OneMore
  <2>2. words' = a \o ws BY DEF AddContext
  <2> HIDE DEF a
  <2>3. /\ a \o ws \in Seq(Nat) /\ Len(a \o ws) = Len(a) + m
        /\ \A i \in 1..(Len(a) + m) : (a \o ws)[i] = IF i <= Len(a) THEN a[i] ELSE ws[i - Len(a)]
    BY <1>1, <1>21, <2>1, ConcatProperties
  <2> HIDE DEF len, m
  <2>4. ASSUME NEW j \in 1..m PROVE words'[len + 1 + j] = ws[j]
    <3>1. /\ len + 1 + j \in 1..(Len(a) + m) /\ ~(len + 1 + j <= Len(a))
          /\ (len + 1 + j) - Len(a) = j
      BY <1>1, <2>1
    <3> QED BY <2>2, <2>3, <3>1
  <2>5. words' \in Seq(Nat) /\ Len(words') = len + 1 + m
    BY <1>1, <2>1, <2>2, <2>3
  <2>6. ASSUME NEW i \in 1..(len + 1) PROVE words'[i] = a[i]
    <3>1. i \in 1..(Len(a) + m) /\ i <= Len(a) BY <1>1, <2>1
    <3> QED BY <2>2, <2>3, <3>1
  <2>7. len + 1 \in 1..(len + 1) /\ \A i \in 1..len : i \in 1..(len + 1) BY <1>1
  <2> QED BY <2>1, <2>4, <2>5, <2>6, <2>7
<1>4. Ctx(k, ws) \in Context /\ Ctx(k, ws).ctx = k /\ Ctx(k, ws).ips = ws
  BY DEF Ctx, Context, Pairs
<1>5. /\ sent' \in Seq(Context) /\ Len(sent') = n + 1 /\ DOMAIN sent' = 1..(n + 1)
      /\ sent'[n + 1] = Ctx(k, ws) /\ \A i \in 1..n : sent'[i] = sent[i]
  <2> DEFINE x == Ctx(k, ws)
  <2>1. x \in Context BY <1>4
  <2>2. sent' = Append(sent, x) BY DEF AddContext
  <2> HIDE DEF x
  <2>3. /\ sent' \in Seq(Context) /\ Len(sent') = n + 1
        /\ sent'[n + 1] = x /\ \A i \in 1..n : sent'[i] = sent[i]
    BY <1>21, <2>1, <2>2, OneMore
  <2> QED BY <1>1, <2>3, LenProperties DEF x
<1>6. \A i \in 1..n : sent[i].ctx # k
  BY <1>21 DEF Written
<1>7. SentOK'
  <2>1. \A i, j \in 1..(n + 1) : sent'[i].ctx = sent'[j].ctx => i = j
    <3>1. \A i, j \in 1..n : sent[i].ctx = sent[j].ctx => i = j
      BY <1>1, <1>21 DEF SentOK
    <3>2. sent'[n + 1].ctx = k BY <1>4, <1>5
    <3>3. \A i \in 1..(n + 1) : i = n + 1 \/ i \in 1..n BY <1>1
    <3> QED BY <1>5, <1>6, <3>1, <3>2, <3>3
  <2>2. ASSUME NEW i \in 1..(n + 1)
        PROVE  IF sent'[i].ctx = Deferred
               THEN i = n + 1 /\ Len(sent'[i].ips) = 1 /\ pc' # "write" /\ Deferred \in Known
               ELSE sent'[i].ips \in Seq(Ips)
    <3>1. CASE i = n + 1 BY <1>4, <1>5, <3>1 DEF AddContext
    <3>2. CASE i \in 1..n
      <4>1. sent[i].ctx # Deferred /\ sent[i].ips \in Seq(Ips)
        BY <1>1, <1>21, <3>2 DEF SentOK
      <4> QED BY <1>5, <3>2, <4>1
    <3> QED BY <1>1, <3>1, <3>2
  <2> QED BY <1>3, <1>5, <2>1, <2>2 DEF SentOK, Context, Pairs
<1>8. /\ pos[1] = 0 /\ pos[n + 1] = len
      /\ \A i \in 1..n :
           /\ pos[i + 1] = pos[i] + 1 + Len(sent[i].ips) /\ pos[i + 1] <= len
           /\ words[pos[i] + 1] = Marker[sent[i].ctx]
           /\ \A j \in 1..Len(sent[i].ips) : words[pos[i] + 1 + j] = sent[i].ips[j]
      /\ \A i \in 1..(n + 1) : pos[i] \in 0..len
  BY SentTypes DEF Placed, Laid
<1>9. p[n + 2] = len + 1 + m /\ \A i \in 1..(n + 1) : p[i] = pos[i]
  BY <1>0, <1>1
<1> HIDE DEF n, len, m
<1>10. p \in [1..(n + 2) -> 0..(len + 1 + m)]
  BY <1>0, <1>1, <1>8
<1>11. ASSUME NEW i \in 1..(n + 1)
       PROVE  /\ p[i + 1] = p[i] + 1 + Len(sent'[i].ips) /\ p[i + 1] <= len + 1 + m
              /\ words'[p[i] + 1] = Marker[sent'[i].ctx]
              /\ \A j \in 1..Len(sent'[i].ips) : words'[p[i] + 1 + j] = sent'[i].ips[j]
  <2>1. CASE i = n + 1
    <3>1. p[i] = len /\ p[i + 1] = len + 1 + m
      <4>1. i + 1 = n + 2 /\ i \in 1..(n + 1) BY <1>1, <2>1
      <4> QED BY <1>8, <1>9, <2>1, <4>1
    <3>2. sent'[i].ctx = k /\ sent'[i].ips = ws /\ Len(ws) = m
      BY <1>4, <1>5, <2>1 DEF m
    <3> QED BY <1>1, <1>3, <3>1, <3>2
  <2>2. CASE i \in 1..n
    <3>1. p[i] = pos[i] /\ p[i + 1] = pos[i + 1] /\ sent'[i] = sent[i]
      BY <1>1, <1>5, <1>9, <2>2
    <3>2. Len(sent[i].ips) \in Nat BY <2>2, SentTypes DEF n
    <3>3. pos[i] \in Nat /\ pos[i] + 1 + Len(sent[i].ips) <= len
      <4>1. pos[i] \in 0..len BY <1>8
      <4>2. pos[i + 1] = pos[i] + 1 + Len(sent[i].ips) /\ pos[i + 1] <= len BY <1>8, <2>2
      <4> QED BY <4>1, <4>2
    <3>4. pos[i] + 1 \in 1..len /\ \A j \in 1..Len(sent[i].ips) : pos[i] + 1 + j \in 1..len
      BY <1>1, <3>2, <3>3
    <3>5. p[i + 1] <= len + 1 + m
      BY <1>1, <1>8, <2>2, <3>1, <3>2, <3>3
    <3>6. p[i + 1] = p[i] + 1 + Len(sent'[i].ips)
      BY ONLY <1>8, <2>2, <3>1
    <3>7. words'[p[i] + 1] = Marker[sent'[i].ctx]
      BY ONLY <1>3, <1>8, <2>2, <3>1, <3>4
    <3>8. ASSUME NEW j \in 1..Len(sent'[i].ips) PROVE words'[p[i] + 1 + j] = sent'[i].ips[j]
      <4>1. words'[pos[i] + 1 + j] = words[pos[i] + 1 + j] BY ONLY <1>3, <3>1, <3>4, <3>8
      <4>2. words[pos[i] + 1 + j] = sent[i].ips[j] BY ONLY <1>8, <2>2, <3>1, <3>8
      <4> QED BY ONLY <3>1, <4>1, <4>2
    <3> QED BY <3>5, <3>6, <3>7, <3>8
  <2> QED BY <1>1, <2>1, <2>2
<1>12. p[1] = 0 /\ p[n + 2] = len + 1 + m
  BY <1>1, <1>8, <1>9
<1>13. Laid(p)'
  <2>1. Len(sent') + 1 = n + 2 BY <1>1, <1>5
  <2>2. \A i \in DOMAIN sent' : DOMAIN sent'[i].ips = 1..Len(sent'[i].ips)
    <3>1. ASSUME NEW i \in 1..(n + 1) PROVE DOMAIN sent'[i].ips = 1..Len(sent'[i].ips)
      <4>1. sent'[i] \in Context BY <1>5, ElementOfSeq
      <4> QED BY <4>1, LenProperties DEF Context, Pairs
    <3> QED BY <1>5, <3>1
  <2>3. \A i \in DOMAIN sent' :
          /\ p[i + 1] = p[i] + 1 + Len(sent'[i].ips) /\ p[i + 1] <= Len(words')
          /\ words'[p[i] + 1] = Marker[sent'[i].ctx]
          /\ \A j \in DOMAIN sent'[i].ips : words'[p[i] + 1 + j] = sent'[i].ips[j]
    <3> SUFFICES ASSUME NEW i \in DOMAIN sent'
        PROVE  /\ p[i + 1] = p[i] + 1 + Len(sent'[i].ips) /\ p[i + 1] <= Len(words')
               /\ words'[p[i] + 1] = Marker[sent'[i].ctx]
               /\ \A j \in DOMAIN sent'[i].ips : words'[p[i] + 1 + j] = sent'[i].ips[j]
      OBVIOUS
    <3>1. i \in 1..(n + 1) /\ DOMAIN sent'[i].ips = 1..Len(sent'[i].ips) /\ Len(words') = len + 1 + m
      BY ONLY <1>3, <1>5, <2>2, i \in DOMAIN sent'
    <3> QED BY ONLY <3>1, <1>11
  <2>4. p[1] = 0 /\ p[Len(sent') + 1] = Len(words')
    BY <1>3, <1>12, <2>1
  <2> QED BY ONLY <2>3, <2>4 DEF Laid
<1>14. p \in [1..(Len(sent') + 1) -> 0..Len(words')]
  <2>1. Len(sent') + 1 = n + 2 BY <1>1, <1>5
  <2> QED BY <1>3, <1>10, <2>1
<1> QED BY <1>7, <1>12, <1>13, <1>14 DEF Placed

\* One more instruction pointer.
LEMMA NewIp ==
  ASSUME SentOK, NEW pos, Placed(pos), pc = "write", NEW ip \in Ips, AddIp(ip)
  PROVE  SentOK' /\ \E p : Placed(p)' /\ p[1] = 0
<1> DEFINE n == Len(sent)
           len == Len(words)
<1>0. PICK p : p = [i \in 1..(n + 1) |-> IF i = n + 1 THEN len + 1 ELSE pos[i]]
  OBVIOUS
<1>1. len \in Nat /\ n \in Nat
  BY SentTypes
<1>21. words \in Seq(Nat) /\ sent \in Seq(Context) /\ DOMAIN sent = 1..n
  BY SentTypes
<1>2. ip \in Nat /\ ip \in Ips \cup Cookies BY WordTypes
<1>3. /\ words' \in Seq(Nat) /\ Len(words') = len + 1 /\ words'[len + 1] = ip
      /\ \A i \in 1..len : words'[i] = words[i]
  BY <1>2, <1>21, OneMore DEF AddIp
<1>4. /\ pos[1] = 0 /\ pos[n + 1] = len
      /\ \A i \in 1..n :
           /\ pos[i + 1] = pos[i] + 1 + Len(sent[i].ips) /\ pos[i + 1] <= len
           /\ words[pos[i] + 1] = Marker[sent[i].ctx]
           /\ \A j \in 1..Len(sent[i].ips) : words[pos[i] + 1 + j] = sent[i].ips[j]
      /\ \A i \in 1..(n + 1) : pos[i] \in 0..len
  BY SentTypes DEF Placed, Laid
<1>5. n > 0
  <2>1. len # 0 BY <1>21, EmptySeq DEF AddIp
  <2> QED BY <1>1, <1>4, <2>1
<1>6. /\ sent' \in Seq(Context) /\ Len(sent') = n
      /\ \A i \in 1..(n - 1) : sent'[i] = sent[i]
      /\ sent'[n].ctx = sent[n].ctx /\ sent'[n].ips = Append(sent[n].ips, ip)
  <2>0. PICK I : I = Ips \cup Cookies OBVIOUS
  <2>1. sent \in Seq(Pairs(Contexts, I)) /\ Len(sent) > 0 /\ ip \in I
    BY <1>2, <1>5, <1>21, <2>0 DEF Context
  <2>2. sent' = Extended(sent, ip) BY DEF AddIp
  <2>3. /\ Extended(sent, ip) \in Seq(Pairs(Contexts, I))
        /\ Len(Extended(sent, ip)) = Len(sent)
        /\ \A i \in 1..(Len(sent) - 1) : Extended(sent, ip)[i] = sent[i]
        /\ Extended(sent, ip)[Len(sent)].ctx = sent[Len(sent)].ctx
        /\ Extended(sent, ip)[Len(sent)].ips = Append(sent[Len(sent)].ips, ip)
    BY ONLY <2>1, ExtendedLast
  <2> QED BY <2>0, <2>2, <2>3 DEF Context
<1>7. DOMAIN sent' = 1..n BY <1>6, LenProperties
<1>8. \A i \in 1..n : sent'[i].ctx = sent[i].ctx
  BY <1>1, <1>5, <1>6
<1>9. /\ sent[n].ips \in Seq(Ips) /\ Append(sent[n].ips, ip) \in Seq(Ips)
      /\ Len(Append(sent[n].ips, ip)) = Len(sent[n].ips) + 1
      /\ Append(sent[n].ips, ip)[Len(sent[n].ips) + 1] = ip
      /\ \A j \in 1..Len(sent[n].ips) : Append(sent[n].ips, ip)[j] = sent[n].ips[j]
  <2>1. sent[n].ips \in Seq(Ips)
    <3>1. n \in DOMAIN sent BY <1>1, <1>5, <1>21
    <3> HIDE DEF n
    <3> QED BY <3>1 DEF SentOK
  <2> QED BY <2>1, OneMore
<1> HIDE DEF n, len
<1>10. SentOK'
  <2>1. \A i, j \in 1..n : sent'[i].ctx = sent'[j].ctx => i = j
    <3>1. \A i, j \in 1..n : sent[i].ctx = sent[j].ctx => i = j
      BY <1>1, <1>21 DEF SentOK
    <3> QED BY <1>8, <3>1
  <2>2. ASSUME NEW i \in 1..n
        PROVE  sent'[i].ctx # Deferred /\ sent'[i].ips \in Seq(Ips)
    <3>1. sent[i].ctx # Deferred /\ sent[i].ips \in Seq(Ips)
      BY <1>1, <1>21 DEF SentOK
    <3>2. CASE i = n BY <1>6, <1>9, <3>1, <3>2
    <3>3. CASE i \in 1..(n - 1) BY <1>6, <3>1, <3>3
    <3> QED BY <1>1, <3>2, <3>3
  <2> QED BY <1>3, <1>6, <1>7, <2>1, <2>2 DEF SentOK, Context, Pairs
<1>11. p[n + 1] = len + 1 /\ \A i \in 1..n : p[i] = pos[i]
  BY <1>0, <1>1
<1>12. p \in [1..(n + 1) -> 0..(len + 1)]
  BY <1>0, <1>1, <1>4
<1>13. ASSUME NEW i \in 1..n
       PROVE  /\ p[i + 1] = p[i] + 1 + Len(sent'[i].ips) /\ p[i + 1] <= len + 1
              /\ words'[p[i] + 1] = Marker[sent'[i].ctx]
              /\ \A j \in 1..Len(sent'[i].ips) : words'[p[i] + 1 + j] = sent'[i].ips[j]
  <2>1. Len(sent[i].ips) \in Nat BY SentTypes DEF n
  <2>2. /\ pos[i] \in Nat /\ pos[i + 1] = pos[i] + 1 + Len(sent[i].ips)
        /\ pos[i] + 1 + Len(sent[i].ips) <= len /\ pos[i + 1] <= len /\ p[i] = pos[i]
    BY <1>1, <1>4, <1>11
  <2>3. pos[i] + 1 \in 1..len /\ \A j \in 1..Len(sent[i].ips) : pos[i] + 1 + j \in 1..len
    BY <1>1, <2>1, <2>2
  <2>4. words'[p[i] + 1] = Marker[sent'[i].ctx]
    BY <1>3, <1>4, <1>8, <2>2, <2>3
  <2>5. CASE i = n
    <3>1. p[i + 1] = len + 1 /\ len = pos[i] + 1 + Len(sent[i].ips)
      BY <1>4, <1>11, <2>2, <2>5
    <3>2. Len(sent'[i].ips) = Len(sent[i].ips) + 1
      BY <1>6, <1>9, <2>5
    <3>3. ASSUME NEW j \in 1..Len(sent'[i].ips) PROVE words'[p[i] + 1 + j] = sent'[i].ips[j]
      <4>1. CASE j = Len(sent[i].ips) + 1
        <5>1. PICK a \in Nat : a = Len(sent[i].ips) BY <2>1
        <5>2. PICK b \in Nat : b = pos[i] BY <2>2
        <5>3. p[i] = b /\ len = b + 1 + a /\ j = a + 1 BY <2>2, <3>1, <4>1, <5>1, <5>2
        <5>4. b + 1 + (a + 1) = (b + 1 + a) + 1 BY <5>1, <5>2
        <5>5. p[i] + 1 + j = len + 1 BY ONLY <5>3, <5>4
        <5> QED BY <1>3, <1>6, <1>9, <2>5, <4>1, <5>5
      <4>2. CASE j \in 1..Len(sent[i].ips)
        <5>1. words'[p[i] + 1 + j] = sent[i].ips[j] BY <1>3, <1>4, <2>2, <2>3, <4>2
        <5> QED BY <1>6, <1>9, <2>5, <4>2, <5>1
      <4> QED BY <2>1, <3>2, <4>1, <4>2
    <3>4. p[i + 1] = p[i] + 1 + Len(sent'[i].ips) /\ p[i + 1] <= len + 1
      <4>1. PICK a \in Nat : a = Len(sent[i].ips) BY <2>1
      <4>2. PICK b \in Nat : b = pos[i] BY <2>2
      <4>3. p[i + 1] = len + 1 /\ p[i] = b /\ len = b + 1 + a /\ Len(sent'[i].ips) = a + 1
        BY <2>2, <3>1, <3>2, <4>1, <4>2
      <4> QED BY ONLY <1>1, <4>3, a \in Nat, b \in Nat
    <3> QED BY <2>4, <3>3, <3>4
  <2>6. CASE i \in 1..(n - 1)
    <3>1. p[i + 1] = pos[i + 1] /\ sent'[i] = sent[i]
      BY <1>1, <1>6, <1>11, <2>6
    <3>2. p[i + 1] = p[i] + 1 + Len(sent'[i].ips) /\ p[i + 1] <= len + 1
      BY <1>1, <1>4, <2>2, <3>1
    <3>3. \A j \in 1..Len(sent'[i].ips) : words'[p[i] + 1 + j] = sent'[i].ips[j]
      <4> SUFFICES ASSUME NEW j \in 1..Len(sent'[i].ips)
          PROVE  words'[p[i] + 1 + j] = sent'[i].ips[j]
        OBVIOUS
      <4>1. j \in 1..Len(sent[i].ips) BY ONLY <3>1, j \in 1..Len(sent'[i].ips)
      <4>2. words'[pos[i] + 1 + j] = words[pos[i] + 1 + j] BY ONLY <1>3, <2>3, <4>1
      <4>3. words[pos[i] + 1 + j] = sent[i].ips[j] BY ONLY <1>4, <4>1, i \in 1..n
      <4> QED BY ONLY <2>2, <3>1, <4>2, <4>3
    <3> QED BY <2>4, <3>2, <3>3
  <2> QED BY <1>1, <2>5, <2>6
<1>14. p[1] = 0
  BY <1>1, <1>4, <1>5, <1>11
<1>15. Laid(p)'
  <2>1. \A i \in DOMAIN sent' : DOMAIN sent'[i].ips = 1..Len(sent'[i].ips)
    <3>1. ASSUME NEW i \in 1..n PROVE DOMAIN sent'[i].ips = 1..Len(sent'[i].ips)
      <4>1. sent'[i] \in Context BY <1>6, ElementOfSeq
      <4> QED BY <4>1, LenProperties DEF Context, Pairs
    <3> QED BY <1>7, <3>1
  <2>3. \A i \in DOMAIN sent' :
          /\ p[i + 1] = p[i] + 1 + Len(sent'[i].ips) /\ p[i + 1] <= Len(words')
          /\ words'[p[i] + 1] = Marker[sent'[i].ctx]
          /\ \A j \in DOMAIN sent'[i].ips : words'[p[i] + 1 + j] = sent'[i].ips[j]
    <3> SUFFICES ASSUME NEW i \in DOMAIN sent'
        PROVE  /\ p[i + 1] = p[i] + 1 + Len(sent'[i].ips) /\ p[i + 1] <= Len(words')
               /\ words'[p[i] + 1] = Marker[sent'[i].ctx]
               /\ \A j \in DOMAIN sent'[i].ips : words'[p[i] + 1 + j] = sent'[i].ips[j]
      OBVIOUS
    <3>1. i \in 1..(n) /\ DOMAIN sent'[i].ips = 1..Len(sent'[i].ips) /\ Len(words') = len + 1
      BY ONLY <1>3, <1>7, <2>1, i \in DOMAIN sent'
    <3> QED BY ONLY <3>1, <1>13
  <2>4. p[1] = 0 /\ p[Len(sent') + 1] = Len(words')
    BY <1>3, <1>6, <1>11, <1>14
  <2> QED BY ONLY <2>3, <2>4 DEF Laid
<1>16. p \in [1..(Len(sent') + 1) -> 0..Len(words')]
  BY <1>3, <1>6, <1>12
<1> QED BY <1>10, <1>14, <1>15, <1>16 DEF Placed

\* The limit on contexts leaves room for the cookie.
LEMMA CookieFits ==
  ASSUME ContextsFit, SentOK, ~Written("User"), \A i \in DOMAIN sent : sent[i].ctx # Deferred
  PROVE  Len(sent) + 1 < MaxContexts
<1> DEFINE n == Len(sent)
           f == [i \in 1..n |-> sent[i].ctx]
           T == (Contexts \ {"User"}) \ {Deferred}
<1>1. n \in Nat /\ DOMAIN sent = 1..n /\ \A i \in 1..n : sent[i].ctx \in Contexts
  BY SentTypes
<1>2. IsFiniteSet(T) /\ Cardinality(T) = Cardinality(Contexts) - 2
  <2>1. IsFiniteSet(Contexts) /\ "User" \in Contexts /\ Deferred \in Contexts \ {"User"}
    BY DEF ContextsFit, Deferred
  <2>2. /\ IsFiniteSet(Contexts \ {"User"})
        /\ Cardinality(Contexts \ {"User"}) = Cardinality(Contexts) - 1
    BY <2>1, FS_RemoveElement
  <2>3. IsFiniteSet(T) /\ Cardinality(T) = Cardinality(Contexts \ {"User"}) - 1
    BY <2>1, <2>2, FS_RemoveElement
  <2>4. Cardinality(Contexts) \in Nat BY <2>1, FS_CardinalityType
  <2> QED BY <2>2, <2>3, <2>4
<1>3. f \in Injection(1..n, T)
  <2>1. \A i \in 1..n : sent[i].ctx # "User" /\ sent[i].ctx # Deferred
    BY <1>1 DEF Written
  <2>2. \A i, j \in 1..n : sent[i].ctx = sent[j].ctx => i = j
    BY <1>1 DEF SentOK
  <2>3. f \in [1..n -> T] BY <1>1, <2>1
  <2> QED BY <2>2, <2>3 DEF Injection, IsInjective
<1> HIDE DEF T, f, n
<1>4. Cardinality(1..n) <= Cardinality(T)
  BY <1>2, <1>3, FS_Injection
<1>5. Cardinality(1..n) = n
  <2>1. Cardinality(1..n) = IF 1 > n THEN 0 ELSE n - 1 + 1 BY <1>1, FS_Interval
  <2> QED BY <1>1, <2>1
<1>6. Cardinality(Contexts) \in Nat /\ Cardinality(Contexts) <= MaxContexts /\ MaxContexts \in Nat
  BY FS_CardinalityType, WordTypes DEF ContextsFit
<1> QED BY <1>1, <1>2, <1>4, <1>5, <1>6 DEF n

LEMMA InvParts ==
  ChainInv <=> SentOK /\ chains \in Seq(Chain) /\ \E pos : Placed(pos) /\ CursorOK(pos)
BY DEF ChainInv, Placed, Chain, Pairs

\* Until it is parsed there is nothing behind the cursor.
LEMMA WriteKeeps ==
  ASSUME ContextsFit, ChainInv, WriteMarker \/ WriteIp \/ WriteDeferred \/ WriteEnd
  PROVE  ChainInv'
<1>1. SentOK /\ chains \in Seq(Chain) BY InvParts
<1>2. PICK pos : Placed(pos) /\ CursorOK(pos) BY InvParts
<1>3. pc = "write" /\ at = 0 /\ chains = <<>> /\ UNCHANGED <<at, chains>>
  <2>1. pc = "write" /\ UNCHANGED <<at, chains>>
    BY DEF WriteMarker, WriteIp, WriteDeferred, WriteEnd
  <2> QED BY <1>2, <2>1 DEF CursorOK
<1>4. \A i \in DOMAIN sent : sent[i].ctx # Deferred
  BY <1>1, <1>3 DEF SentOK
<1>5. SentOK' /\ pc' \in {"write", "parse"} /\ \E p : Placed(p)' /\ p[1] = 0
  <2>1. ASSUME NEW k \in Contexts \ {Deferred}, ~Written(k), WriteMarker,
               words' = Append(words, Marker[k]), sent' = Append(sent, Ctx(k, <<>>))
        PROVE  SentOK' /\ pc' \in {"write", "parse"} /\ \E p : Placed(p)' /\ p[1] = 0
    <3>1. Append(words, Marker[k]) \in Seq(Nat)
      <4>1. words \in Seq(Nat) /\ Marker[k] \in Nat BY <1>1, SentTypes, WordTypes
      <4> QED BY <4>1, OneMore
    <3>2. Append(words, Marker[k]) = Append(words, Marker[k]) \o <<>>
      <4> DEFINE a == Append(words, Marker[k])
      <4>1. a \in Seq(Nat) BY <3>1
      <4> HIDE DEF a
      <4>2. a \o <<>> = a BY <4>1, ConcatEmptySeq
      <4> QED BY <4>2 DEF a
    <3>3. <<>> \in Seq(Ips) /\ <<>> \in Seq(Ips \cup Cookies) BY EmptySeq
    <3>4. AddContext(k, <<>>) BY <2>1, <3>2, <3>3 DEF AddContext
    <3>5. pc' = "write" BY <1>3, <2>1 DEF WriteMarker
    <3> QED BY <1>1, <1>2, <1>3, <2>1, <3>3, <3>4, <3>5, NewContext
  <2>2. CASE WriteMarker
    BY <2>1, <2>2 DEF WriteMarker
  <2>3. CASE WriteIp
    <3>1. PICK ip \in Ips : words' = Append(words, ip) /\ sent' = Extended(sent, ip)
      BY <2>3 DEF WriteIp
    <3>2. AddIp(ip) /\ pc' = "write" BY <1>3, <2>3, <3>1 DEF WriteIp, AddIp
    <3> QED BY <1>1, <1>2, <1>3, <3>2, NewIp
  <2>4. CASE WriteDeferred
    <3>1. ~Written("User") /\ Deferred \in Known /\ pc' = "parse"
      BY <2>4 DEF WriteDeferred
    <3>2. Len(sent) + 1 < MaxContexts BY <1>1, <1>4, <3>1, CookieFits
    <3>3. PICK c \in Cookies : /\ words' = Append(words, Marker[Deferred]) \o <<c>>
                               /\ sent' = Append(sent, Ctx(Deferred, <<c>>))
      BY <2>4, <3>2 DEF WriteDeferred
    <3>4. AddContext(Deferred, <<c>>) BY <3>1, <3>3 DEF AddContext
    <3>5. ~Written(Deferred) BY <1>4 DEF Written
    <3>6. Deferred \in Contexts /\ <<c>> \in Seq(Ips \cup Cookies)
      BY <3>1, WordTypes
    <3> HIDE DEF Deferred
    <3> QED BY <1>1, <1>2, <1>3, <3>1, <3>4, <3>5, <3>6, NewContext
  <2>5. CASE WriteEnd
    <3>1. UNCHANGED <<words, sent>> /\ pc' = "parse" BY <2>5 DEF WriteEnd
    <3>2. Placed(pos)' BY <1>2, <3>1 DEF Placed, Laid
    <3>3. pos[1] = 0 BY <1>2 DEF Placed, Laid
    <3>4. SentOK' BY <1>1, <3>1 DEF SentOK
    <3> QED BY <3>1, <3>2, <3>3, <3>4
  <2> QED BY <2>2, <2>3, <2>4, <2>5
<1>6. PICK p : Placed(p)' /\ p[1] = 0 BY <1>5
<1>7. CursorOK(p)'
  <2>1. chains' = <<>> /\ Len(chains') = 0 /\ at' = 0 BY <1>3
  <2>2. Len(sent') \in Nat BY <1>5, LenProperties DEF SentOK
  <2> QED BY <1>5, <1>6, <2>1, <2>2 DEF CursorOK
<1>8. chains' \in Seq(Chain) BY <1>1, <1>3
<1>9. SentOK' /\ chains' \in Seq(Chain) /\ \E q : Placed(q)' /\ CursorOK(q)'
  BY <1>5, <1>6, <1>7, <1>8
<1> QED BY <1>9 DEF ChainInv, Placed, Chain, Pairs

-----------------------------------------------------------------------------
(* parse_call_chain.                                                        *)

LEMMA PlacedAt ==
  ASSUME SentOK, NEW pos, Placed(pos)
  PROVE  /\ pos[1] = 0 /\ pos[Len(sent) + 1] = Len(words)
         /\ \A i \in 1..(Len(sent) + 1) : pos[i] \in 0..Len(words)
         /\ \A i \in 1..Len(sent) :
              /\ pos[i] \in Nat /\ pos[i + 1] \in Nat
              /\ pos[i + 1] = pos[i] + 1 + Len(sent[i].ips)
              /\ pos[i] < Len(words) /\ pos[i + 1] <= Len(words)
              /\ words[pos[i] + 1] = Marker[sent[i].ctx]
              /\ \A j \in 1..Len(sent[i].ips) : words[pos[i] + 1 + j] = sent[i].ips[j]
<1>1. /\ Len(words) \in Nat /\ Len(sent) \in Nat /\ DOMAIN sent = 1..Len(sent)
  BY SentTypes
<1>2. /\ pos[1] = 0 /\ pos[Len(sent) + 1] = Len(words)
      /\ \A i \in 1..(Len(sent) + 1) : pos[i] \in 0..Len(words)
  BY DEF Placed, Laid
<1>3. ASSUME NEW i \in 1..Len(sent)
      PROVE  /\ pos[i] \in Nat /\ pos[i + 1] \in Nat
             /\ pos[i + 1] = pos[i] + 1 + Len(sent[i].ips)
             /\ pos[i] < Len(words) /\ pos[i + 1] <= Len(words)
             /\ words[pos[i] + 1] = Marker[sent[i].ctx]
             /\ \A j \in 1..Len(sent[i].ips) : words[pos[i] + 1 + j] = sent[i].ips[j]
  <2>1. /\ pos[i + 1] = pos[i] + 1 + Len(sent[i].ips) /\ pos[i + 1] <= Len(words)
        /\ words[pos[i] + 1] = Marker[sent[i].ctx]
        /\ \A j \in DOMAIN sent[i].ips : words[pos[i] + 1 + j] = sent[i].ips[j]
    BY <1>1 DEF Placed, Laid
  <2>2. Len(sent[i].ips) \in Nat /\ DOMAIN sent[i].ips = 1..Len(sent[i].ips)
    BY SentTypes
  <2>3. i \in 1..(Len(sent) + 1) /\ i + 1 \in 1..(Len(sent) + 1) BY <1>1
  <2>4. pos[i] \in Nat /\ pos[i + 1] \in Nat BY <1>1, <1>2, <2>3
  <2>5. pos[i] < Len(words) BY <1>1, <2>1, <2>2, <2>4
  <2> QED BY <2>1, <2>2, <2>4, <2>5
<1> QED BY <1>2, <1>3

\* All that a step of parse_call_chain must leave.
LEMMA ParserStep ==
  ASSUME SentOK, pc # "write", pc' # "write", UNCHANGED <<words, sent>>, chains' \in Seq(Chain),
         NEW pos, Placed(pos), CursorOK(pos)'
  PROVE  ChainInv'
<1>1. SentOK' BY DEF SentOK
<1>2. Placed(pos)' BY DEF Placed, Laid
<1> QED BY <1>1, <1>2 DEF ChainInv, Placed, Chain, Pairs

LEMMA TakeMarkerKeeps ==
  ASSUME ChainInv, TakeMarker
  PROVE  ChainInv'
<1>1. SentOK /\ chains \in Seq(Chain) BY InvParts
<1>2. PICK pos : Placed(pos) /\ CursorOK(pos) BY InvParts
<1>3. pc = "parse" /\ at < Len(words) /\ UNCHANGED <<words, sent>>
  BY DEF TakeMarker, More
<1>4. PICK n \in Nat : n = Len(chains) BY <1>1, LenProperties
<1>5. PICK len \in Nat : len = Len(words) BY <1>1, SentTypes
<1>6. PICK q \in Nat : q = Len(sent) BY <1>1, SentTypes
<1>7. n <= q /\ at = pos[n + 1] /\ \A i \in 1..n : chains[i] = Parsed(i)
  BY <1>2, <1>3, <1>4, <1>6 DEF CursorOK
<1>8. n + 1 \in 1..q
  <2>1. pos[q + 1] = len BY <1>1, <1>2, <1>5, <1>6, PlacedAt
  <2>2. at < len BY <1>3, <1>5
  <2>3. ASSUME n = q PROVE FALSE
    <3>1. at = len BY ONLY <1>7, <2>1, <2>3
    <3> QED BY ONLY <2>2, <3>1, len \in Nat
  <2> QED BY ONLY <1>7, <2>3, n \in Nat, q \in Nat
<1> DEFINE x == sent[n + 1]
<1>9. /\ at \in Nat /\ pos[n + 2] = at + 1 + Len(x.ips) /\ pos[n + 2] <= len
      /\ words[at + 1] = Marker[x.ctx]
      /\ \A j \in 1..Len(x.ips) : words[at + 1 + j] = x.ips[j]
  <2>1. (n + 1) + 1 = n + 2 OBVIOUS
  <2> QED BY <1>1, <1>2, <1>5, <1>6, <1>7, <1>8, <2>1, PlacedAt
<1>10. /\ x.ctx \in Contexts /\ x.ips \in Seq(Ips \cup Cookies) /\ Len(x.ips) \in Nat
       /\ IF x.ctx = Deferred THEN n + 1 = q /\ Len(x.ips) = 1 /\ Deferred \in Known
                              ELSE x.ips \in Seq(Ips)
  <2>1. n + 1 \in DOMAIN sent BY <1>1, <1>6, <1>8, SentTypes
  <2> QED BY <1>1, <1>6, <1>8, <2>1, SentTypes DEF SentOK
<1> DEFINE k == KindOf(words[at + 1])
<1>11. k = KindOf(Marker[x.ctx]) /\ k \in Known \cup {"Unknown"} /\ (k = Deferred <=> x.ctx = Deferred)
  <2> HIDE DEF x
  <2>1. /\ KindOf(Marker[x.ctx]) = IF x.ctx \in Known THEN x.ctx ELSE "Unknown"
        /\ KindOf(Marker[x.ctx]) \in Known \cup {"Unknown"}
    BY <1>10, KindOfMarker
  <2> QED BY <1>9, <1>10, <2>1 DEF Deferred
<1>12. Parsed(n + 1) = Ctx(k, x.ips)
  BY <1>11 DEF Parsed
<1> HIDE DEF x, k
<1>13. CASE x.ctx = Deferred
  <2>1. at + 2 <= len /\ pos[n + 2] = at + 2 /\ words[at + 2] = x.ips[1]
    <3>1. Len(x.ips) = 1 /\ 1 \in 1..Len(x.ips)
      <4>1. Len(x.ips) = 1 BY <1>10, <1>13
      <4> QED BY ONLY <4>1
    <3>2. words[at + 1 + 1] = x.ips[1] BY <1>9, <3>1
    <3>3. at + 1 + 1 = at + 2 BY <1>9
    <3> QED BY <1>9, <3>1, <3>2, <3>3
  <2>2. k = Deferred BY <1>11, <1>13
  <2>3. chains' = Append(chains, Ctx(k, <<x.ips[1]>>)) /\ at' = at + 2 /\ pc' = "parse"
    BY <1>3, <1>5, <2>1, <2>2 DEF TakeMarker, k
  <2>4. x.ips = <<x.ips[1]>>
    <3>1. Len(x.ips) = 1 BY <1>10, <1>13
    <3> QED BY <1>10, <3>1
  <2>5. chains' = Append(chains, Parsed(n + 1)) BY <1>12, <2>3, <2>4
  <2>6. Parsed(n + 1) \in Chain
    <3>1. x.ips \in Seq(Nat) BY <1>10, WordTypes, SeqMonotonic
    <3> QED BY <1>11, <1>12, <3>1 DEF Ctx, Chain, Pairs
  <2>7. /\ chains' \in Seq(Chain) /\ Len(chains') = n + 1
        /\ chains'[n + 1] = Parsed(n + 1) /\ \A i \in 1..n : chains'[i] = chains[i]
    BY <1>1, <1>4, <2>5, <2>6, OneMore
  <2>8. \A i \in 1..(n + 1) : chains'[i] = Parsed(i)'
    <3>1. \A i \in 1..(n + 1) : Parsed(i)' = Parsed(i) BY <1>3 DEF Parsed
    <3>2. \A i \in 1..(n + 1) : i = n + 1 \/ i \in 1..n OBVIOUS
    <3> QED BY <1>7, <2>7, <3>1, <3>2
  <2>9. CursorOK(pos)'
    <3>1. Len(chains') <= Len(sent') /\ at' = pos[Len(chains') + 1]
      <4>1. (n + 1) + 1 = n + 2 OBVIOUS
      <4> QED BY <1>3, <1>6, <1>8, <2>1, <2>3, <2>7, <4>1
    <3> QED BY <2>3, <2>7, <2>8, <3>1 DEF CursorOK
  <2> QED BY <1>1, <1>2, <1>3, <2>3, <2>7, <2>9, ParserStep
<1>14. CASE x.ctx # Deferred
  <2>1. k # Deferred BY <1>11, <1>14
  <2>2. chains' = Append(chains, Ctx(k, <<>>)) /\ at' = at + 1 /\ pc' = "take_ips"
    BY <2>1 DEF TakeMarker, k
  <2>3. Ctx(k, <<>>) \in Chain /\ Ctx(k, <<>>).ctx = k /\ Ctx(k, <<>>).ips = <<>>
    <3>1. <<>> \in Seq(Nat) OBVIOUS
    <3> QED BY <1>11, <3>1 DEF Ctx, Chain, Pairs
  <2>4. /\ chains' \in Seq(Chain) /\ Len(chains') = n + 1
        /\ chains'[n + 1] = Ctx(k, <<>>) /\ \A i \in 1..n : chains'[i] = chains[i]
    <3> DEFINE y == Ctx(k, <<>>)
    <3> HIDE DEF y
    <3>1. y \in Chain /\ chains' = Append(chains, y) BY <2>2, <2>3 DEF y
    <3>2. /\ chains' \in Seq(Chain) /\ Len(chains') = n + 1
          /\ chains'[n + 1] = y /\ \A i \in 1..n : chains'[i] = chains[i]
      BY <1>1, <1>4, <3>1, OneMore
    <3> QED BY <3>2 DEF y
  <2>5. \A i \in 1..n : chains'[i] = Parsed(i)'
    <3>1. \A i \in 1..n : Parsed(i)' = Parsed(i) BY <1>3 DEF Parsed
    <3> QED BY <1>7, <2>4, <3>1
  <2>6. /\ chains'[n + 1].ctx = Parsed(n + 1)'.ctx /\ chains'[n + 1].ips = <<>>
        /\ Len(chains'[n + 1].ips) = 0 /\ DOMAIN chains'[n + 1].ips = {}
    <3>1. Parsed(n + 1)' = Parsed(n + 1) BY <1>3 DEF Parsed
    <3>2. Parsed(n + 1).ctx = k BY <1>12 DEF Ctx
    <3> QED BY <2>3, <2>4, <3>1, <3>2
  <2>7. CursorOK(pos)'
    <3>1. n + 1 \in DOMAIN sent' /\ sent'[n + 1].ctx # Deferred
      <4>1. n + 1 \in DOMAIN sent BY <1>1, <1>6, <1>8, SentTypes
      <4> QED BY <1>3, <1>14, <4>1 DEF x
    <3>2. at' = pos[n + 1] + 1 + Len(chains'[n + 1].ips) /\ at' <= pos[(n + 1) + 1]
      <4>1. (n + 1) + 1 = n + 2 OBVIOUS
      <4>2. PICK a \in Nat : a = Len(x.ips) BY <1>10
      <4>3. at' = at + 1 /\ Len(chains'[n + 1].ips) = 0 BY <2>2, <2>6
      <4> QED BY ONLY <1>7, <1>9, <4>1, <4>2, <4>3, a \in Nat
    <3>3. (n + 1) - 1 = n OBVIOUS
    <3> QED BY <2>2, <2>4, <2>5, <2>6, <3>1, <3>2, <3>3 DEF CursorOK
  <2> QED BY <1>1, <1>2, <1>3, <2>2, <2>4, <2>7, ParserStep
<1> QED BY <1>13, <1>14

LEMMA TakeIpKeeps ==
  ASSUME ChainInv, TakeIp
  PROVE  ChainInv'
<1>1. SentOK /\ chains \in Seq(Chain) BY InvParts
<1>2. PICK pos : Placed(pos) /\ CursorOK(pos) BY InvParts
<1>3. pc = "take_ips" /\ UNCHANGED <<words, sent>>
  BY DEF TakeIp
<1>4. PICK n \in Nat : n = Len(chains) BY <1>1, LenProperties
<1>5. PICK len \in Nat : len = Len(words) BY <1>1, SentTypes
<1>6. PICK q \in Nat : q = Len(sent) BY <1>1, SentTypes
<1> DEFINE x == sent[n]
           y == chains[n]
<1>7. /\ n \in 1..q /\ x.ctx # Deferred
      /\ \A i \in 1..(n - 1) : chains[i] = Parsed(i)
      /\ y.ctx = Parsed(n).ctx
      /\ at = pos[n] + 1 + Len(y.ips) /\ at <= pos[n + 1]
      /\ \A j \in DOMAIN y.ips : y.ips[j] = x.ips[j]
  <2>1. DOMAIN sent = 1..q BY <1>1, <1>6, SentTypes
  <2> QED BY <1>2, <1>3, <1>4, <2>1 DEF CursorOK
<1>8. y \in Chain /\ y.ips \in Seq(Nat)
  <2>1. n \in 1..Len(chains) BY <1>4, <1>7
  <2>2. y \in Chain BY <1>1, <2>1, ElementOfSeq
  <2> QED BY <2>2 DEF Chain, Pairs
<1>9. PICK m \in Nat : m = Len(y.ips) BY <1>8, LenProperties
<1>10. DOMAIN y.ips = 1..m BY <1>8, <1>9, LenProperties
<1>11. x.ips \in Seq(Ips)
  <2>1. n \in DOMAIN sent BY <1>1, <1>6, <1>7, SentTypes
  <2> QED BY <1>1, <1>7, <2>1 DEF SentOK
<1>12. PICK L \in Nat : L = Len(x.ips) BY <1>11, LenProperties
<1>13. PICK b \in Nat : b = pos[n] BY <1>1, <1>2, <1>6, <1>7, PlacedAt
<1>14. /\ pos[n + 1] = b + 1 + L /\ b + 1 + L <= len
       /\ \A j \in 1..L : words[b + 1 + j] = x.ips[j]
  BY <1>1, <1>2, <1>5, <1>6, <1>7, <1>12, <1>13, PlacedAt
<1>15. at = b + 1 + m /\ m <= L
  BY <1>7, <1>9, <1>13, <1>14
<1> HIDE DEF x, y
\* The instruction pointers of this context are not used up: one more is taken.
<1>16. CASE m < L
  <2>1. m + 1 \in 1..L BY <1>16
  <2>2. words[at + 1] = x.ips[m + 1]
    <3>1. at + 1 = b + 1 + (m + 1) BY <1>15
    <3> QED BY <1>14, <2>1, <3>1
  <2>3. x.ips[m + 1] \in Ips BY <1>11, <1>12, <2>1, ElementOfSeq
  <2>4. More /\ ~Stops(words[at + 1])
    <3>1. at < len BY <1>14, <1>15, <1>16
    <3>2. words[at + 1] \in 0..(2^Width - 1) /\ ~IsMarker(words[at + 1]) BY <2>2, <2>3, WordTypes
    <3> QED BY <1>5, <3>1, <3>2, StopsAtMarkers DEF More
  <2>5. PICK w \in Nat : w = words[at + 1] BY <2>2, <2>3, WordTypes
  <2>6. chains' = Extended(chains, w) /\ at' = at + 1 /\ pc' = "take_ips"
    BY <1>3, <2>4, <2>5 DEF TakeIp
  <2>7. /\ chains' \in Seq(Chain) /\ Len(chains') = n
        /\ \A i \in 1..(n - 1) : chains'[i] = chains[i]
        /\ chains'[n].ctx = y.ctx /\ chains'[n].ips = Append(y.ips, w)
    <3>1. Len(chains) > 0 BY <1>4, <1>7
    <3>2. PICK K : K = Known \cup {"Unknown"} OBVIOUS
    <3>3. chains \in Seq(Pairs(K, Nat)) BY <1>1, <3>2 DEF Chain
    <3>4. /\ Extended(chains, w) \in Seq(Pairs(K, Nat)) /\ Len(Extended(chains, w)) = Len(chains)
          /\ \A i \in 1..(Len(chains) - 1) : Extended(chains, w)[i] = chains[i]
          /\ Extended(chains, w)[Len(chains)].ctx = chains[Len(chains)].ctx
          /\ Extended(chains, w)[Len(chains)].ips = Append(chains[Len(chains)].ips, w)
      BY ONLY <3>1, <3>3, w \in Nat, ExtendedLast
    <3> QED BY <1>4, <2>6, <3>2, <3>4 DEF Chain, y
  <2>8. /\ Append(y.ips, w) \in Seq(Nat) /\ Len(Append(y.ips, w)) = m + 1
        /\ Append(y.ips, w)[m + 1] = w /\ \A j \in 1..m : Append(y.ips, w)[j] = y.ips[j]
    BY <1>8, <1>9, OneMore
  <2>9. Len(chains'[n].ips) = m + 1 /\ \A j \in DOMAIN chains'[n].ips : chains'[n].ips[j] = x.ips[j]
    <3>1. DOMAIN Append(y.ips, w) = 1..(m + 1) BY <2>8, LenProperties
    <3>2. ASSUME NEW j \in 1..(m + 1) PROVE Append(y.ips, w)[j] = x.ips[j]
      <4>1. CASE j = m + 1 BY <2>2, <2>5, <2>8, <4>1
      <4>2. CASE j \in 1..m BY <1>7, <1>10, <2>8, <4>2
      <4>3. j = m + 1 \/ j \in 1..m BY ONLY m \in Nat, j \in 1..(m + 1)
      <4> QED BY ONLY <4>1, <4>2, <4>3
    <3> QED BY <2>7, <2>8, <3>1, <3>2
  <2>10. CursorOK(pos)'
    <3>1. n \in DOMAIN sent' /\ sent'[n].ctx # Deferred /\ sent'[n] = x
      <4>1. n \in DOMAIN sent BY <1>1, <1>6, <1>7, SentTypes
      <4> QED BY <1>3, <1>7, <4>1 DEF x
    <3>2. \A i \in 1..n : Parsed(i)' = Parsed(i) BY <1>3 DEF Parsed
    <3>3. \A i \in 1..(n - 1) : chains'[i] = Parsed(i)' BY <1>7, <2>7, <3>2
    <3>4. chains'[n].ctx = Parsed(n)'.ctx BY <1>7, <2>7, <3>2
    <3>5. at' = pos[n] + 1 + Len(chains'[n].ips) /\ at' <= pos[n + 1]
      <4>1. at' = at + 1 /\ Len(chains'[n].ips) = m + 1 BY <2>6, <2>9
      <4>2. pos[n + 1] = b + 1 + L BY <1>14
      <4>3. at' = b + 1 + m + 1 /\ b + 1 + m + 1 <= b + 1 + L
        BY ONLY <1>15, <1>16, <4>1, b \in Nat, m \in Nat, L \in Nat
      <4>4. PICK z : z = Len(chains'[n].ips) OBVIOUS
      <4>5. b + 1 + m + 1 = b + 1 + (m + 1) OBVIOUS
      <4>6. at' = b + 1 + z BY ONLY <4>1, <4>3, <4>4, <4>5
      <4> QED BY ONLY <1>13, <4>2, <4>3, <4>4, <4>6
    <3> QED BY <2>6, <2>7, <2>9, <3>1, <3>3, <3>4, <3>5 DEF CursorOK
  <2> QED BY <1>1, <1>2, <1>3, <2>6, <2>7, <2>10, ParserStep
\* They are: the chain ends here, or has the next context's marker.
<1>17. CASE m = L
  <2>1. at = pos[n + 1] BY <1>14, <1>15, <1>17
  <2>2. ~(More /\ ~Stops(words[at + 1]))
    <3>1. CASE n = q
      <4>1. at = len BY <1>1, <1>2, <1>5, <1>6, <2>1, <3>1, PlacedAt
      <4> QED BY <1>5, <4>1 DEF More
    <3>2. CASE n # q
      <4>1. n + 1 \in 1..q BY <1>7, <3>2
      <4>2. words[at + 1] = Marker[sent[n + 1].ctx] BY <1>1, <1>2, <1>6, <2>1, <4>1, PlacedAt
      <4>3. sent[n + 1].ctx \in Contexts BY <1>1, <1>6, <4>1, SentTypes
      <4>4. words[at + 1] \in 0..(2^Width - 1) /\ IsMarker(words[at + 1]) BY <4>2, <4>3, WordTypes
      <4> QED BY <4>4, StopsAtMarkers
    <3> QED BY <3>1, <3>2
  <2>3. pc' = "parse" /\ UNCHANGED <<chains, at>> BY <2>2 DEF TakeIp
  <2>4. y = Parsed(n)
    <3>1. x.ips \in Seq(Nat) BY <1>11, WordTypes, SeqMonotonic
    <3>2. y.ips = x.ips
      <4>1. \A j \in 1..Len(y.ips) : y.ips[j] = x.ips[j] BY <1>7, <1>9, <1>10
      <4>2. Len(y.ips) = Len(x.ips) BY <1>9, <1>12, <1>17
      <4> QED BY <1>8, <3>1, <4>1, <4>2, SeqEqual
    <3>3. y = Ctx(y.ctx, y.ips) BY <1>8 DEF Ctx, Chain, Pairs
    <3>4. Parsed(n) = Ctx(Parsed(n).ctx, x.ips) BY DEF Parsed, Ctx, x
    <3> QED BY <1>7, <3>2, <3>3, <3>4
  <2>5. \A i \in 1..n : chains'[i] = Parsed(i)'
    <3>1. \A i \in 1..n : Parsed(i)' = Parsed(i) BY <1>3 DEF Parsed
    <3>2. chains[n] = Parsed(n) BY <2>4 DEF y
    <3>3. \A i \in 1..n : i = n \/ i \in 1..(n - 1) OBVIOUS
    <3> QED BY <1>7, <2>3, <3>1, <3>2, <3>3
  <2>6. CursorOK(pos)'
    <3>1. Len(chains') = n /\ n <= Len(sent') /\ at' = pos[n + 1]
      BY <1>3, <1>4, <1>6, <1>7, <2>1, <2>3
    <3> QED BY <2>3, <2>5, <3>1 DEF CursorOK
  <2> QED BY <1>1, <1>2, <1>3, <2>3, <2>6, ParserStep
<1> QED BY <1>15, <1>16, <1>17

LEMMA ReturnKeeps ==
  ASSUME ChainInv, Return
  PROVE  ChainInv'
<1>1. SentOK /\ chains \in Seq(Chain) BY InvParts
<1>2. PICK pos : Placed(pos) /\ CursorOK(pos) BY InvParts
<1>3. pc = "parse" /\ pc' = "done" /\ ~(at < Len(words)) /\ UNCHANGED <<words, sent, at, chains>>
  BY DEF Return, More
<1>4. PICK n \in Nat : n = Len(chains) BY <1>1, LenProperties
<1>5. PICK len \in Nat : len = Len(words) BY <1>1, SentTypes
<1>6. PICK q \in Nat : q = Len(sent) BY <1>1, SentTypes
<1>7. n <= q /\ at = pos[n + 1] /\ \A i \in 1..n : chains[i] = Parsed(i)
  BY <1>2, <1>3, <1>4, <1>6 DEF CursorOK
<1>8. n = q
  <2>1. SUFFICES ASSUME n # q PROVE FALSE OBVIOUS
  <2>2. n + 1 \in 1..q BY <1>7, <2>1
  <2>3. pos[n + 1] < Len(words) BY <1>1, <1>2, <1>6, <2>2, PlacedAt
  <2> QED BY <1>3, <1>7, <2>3
<1>9. CursorOK(pos)'
  <2>1. \A i \in 1..n : chains'[i] = Parsed(i)'
    <3>1. \A i \in 1..n : Parsed(i)' = Parsed(i) BY <1>3 DEF Parsed
    <3> QED BY <1>3, <1>7, <3>1
  <2>2. Len(chains') = n /\ Len(sent') = n /\ at' = pos[n + 1]
    BY <1>3, <1>4, <1>6, <1>7, <1>8
  <2> QED BY <1>3, <2>1, <2>2 DEF CursorOK
<1> QED BY <1>1, <1>2, <1>3, <1>9, ParserStep

LEMMA NextChain == ContextsFit /\ ChainInv /\ [ChainNext]_chainVars => ChainInv'
<1> SUFFICES ASSUME ContextsFit, ChainInv, [ChainNext]_chainVars PROVE ChainInv' OBVIOUS
<1>1. CASE WriteMarker \/ WriteIp \/ WriteDeferred \/ WriteEnd BY <1>1, WriteKeeps
<1>2. CASE TakeMarker BY <1>2, TakeMarkerKeeps
<1>3. CASE TakeIp BY <1>3, TakeIpKeeps
<1>4. CASE Return BY <1>4, ReturnKeeps
<1>5. CASE UNCHANGED chainVars
  BY <1>5 DEF chainVars, ChainInv, SentOK, Laid, CursorOK, Parsed
<1> QED BY <1>1, <1>2, <1>3, <1>4, <1>5 DEF ChainNext

LEMMA ChainExact == ChainInv => ChainsAreExact
<1> SUFFICES ASSUME ChainInv PROVE ChainsAreExact OBVIOUS
<1>1. SentOK /\ chains \in Seq(Chain) BY InvParts
<1>2. PICK pos : Placed(pos) /\ CursorOK(pos) BY InvParts
<1>3. PICK n \in Nat : n = Len(chains) BY <1>1, LenProperties
<1>4. PICK q \in Nat : q = Len(sent) BY <1>1, SentTypes
<1>5. PICK len \in Nat : len = Len(words) BY <1>1, SentTypes
<1>6. DOMAIN sent = 1..q /\ DOMAIN chains = 1..n
  BY <1>1, <1>3, <1>4, SentTypes, LenProperties
<1>7. at <= len
  <2>1. CASE pc = "write" BY <1>2, <1>5, <2>1 DEF CursorOK
  <2>2. CASE pc \in {"parse", "done"}
    <3>1. n <= q /\ at = pos[n + 1] BY <1>2, <1>3, <1>4, <2>2 DEF CursorOK
    <3>2. n + 1 \in 1..(q + 1) BY <3>1
    <3>3. pos[n + 1] \in 0..len BY <1>1, <1>2, <1>4, <1>5, <3>2, PlacedAt
    <3> QED BY <3>1, <3>3
  <2>3. CASE pc = "take_ips"
    <3>1. n \in 1..q /\ at <= pos[n + 1] /\ at = pos[n] + 1 + Len(chains[n].ips)
      BY <1>2, <1>3, <1>6, <2>3 DEF CursorOK
    <3>2. pos[n + 1] \in Nat /\ pos[n] \in Nat /\ pos[n + 1] <= len
      BY <1>1, <1>2, <1>4, <1>5, <3>1, PlacedAt
    <3>3. Len(chains[n].ips) \in Nat
      <4>1. chains[n] \in Chain BY <1>1, <1>3, <3>1, ElementOfSeq
      <4>2. chains[n].ips \in Seq(Nat) BY <4>1 DEF Chain, Pairs
      <4> QED BY <4>2, LenProperties
    <3> QED BY <3>1, <3>2, <3>3
  <2> QED BY <1>2, <2>1, <2>2, <2>3 DEF CursorOK
<1>8. ASSUME pc = "done"
      PROVE  chains = [i \in DOMAIN sent |-> Ctx(KindOf(Marker[sent[i].ctx]), sent[i].ips)]
  <2>1. n = q /\ \A i \in 1..n : chains[i] = Parsed(i)
    BY <1>2, <1>3, <1>4, <1>8 DEF CursorOK
  <2>2. chains = [i \in 1..n |-> chains[i]]
    <3>1. chains \in [1..n -> Chain] BY <1>1, <1>3, LenProperties
    <3> QED BY <3>1
  <2> QED BY <1>6, <2>1, <2>2 DEF Parsed
<1> QED BY <1>5, <1>7, <1>8 DEF ChainsAreExact

\* Where the cursor of parse_call_chain is among the contexts of the kernel.
THEOREM ChainInvAlways == ContextsFit => (ChainSpec => []ChainInv)
<1> SUFFICES ASSUME ContextsFit PROVE ChainSpec => []ChainInv OBVIOUS
<1>1. ChainInv /\ [ChainNext]_chainVars => ChainInv' BY NextChain
<1> QED BY InitChain, <1>1, PTL DEF ChainSpec

\* parse_call_chain gives back each context with its own instruction pointers, and takes
\* no word past the end, for any words, markers and kernel limits, if the limit on
\* contexts leaves room for a cookie (sample.rs:383-384).
THEOREM ContextsComeBack == ContextsFit => (ChainSpec => []ChainsAreExact)
<1> SUFFICES ASSUME ContextsFit PROVE ChainSpec => []ChainsAreExact OBVIOUS
<1> QED BY ChainInvAlways, ChainExact, PTL

-----------------------------------------------------------------------------
(* The parser of records.  What it reads is put together by three recursive *)
(* functions; each is its equation first.                                  *)

\* One more atom is laid, told of, or walked over.
LayOne(r, a) == [size |-> r.size + a.w, at |-> With(r.at, r.size, a)]

TellOne(s, a) == IF a.val.of \in {"nr", "pad"} THEN s ELSE Append(s, a.val)

WalkOne(c, r) ==
  [p    |-> c.p + r.w,
   vals |-> IF r.val.of = "pad" THEN c.vals
            ELSE Append(c.vals, IF Get(c.p, r.w).of = r.val.of THEN Get(c.p, r.w) ELSE Torn)]

LayRec(f, bytes, atoms, n) ==
  f = [i \in 0..n |-> IF i = 0 THEN bytes ELSE LayOne(f[i - 1], atoms[i])]

LEMMA LayExists ==
  ASSUME NEW CONSTANT n \in Nat, NEW bytes, NEW atoms
  PROVE  \E f : LayRec(f, bytes, atoms, n)
<1> DEFINE S == {m \in Nat : \E f : LayRec(f, bytes, atoms, m)}
<1>1. 0 \in S
  <2>1. LayRec([i \in 0..0 |-> bytes], bytes, atoms, 0)
    BY DEF LayRec
  <2> QED BY <2>1
<1>2. \A m \in Nat : m \in S => m + 1 \in S
  <2> SUFFICES ASSUME NEW m \in Nat, m \in S PROVE m + 1 \in S OBVIOUS
  <2>1. PICK f : LayRec(f, bytes, atoms, m) OBVIOUS
  <2> DEFINE g == [i \in 0..(m + 1) |-> IF i = 0 THEN bytes ELSE LayOne(f[i - 1], atoms[i])]
  <2>2. \A i \in 0..m : g[i] = f[i]
    <3>1. \A i \in 0..m : f[i] = IF i = 0 THEN bytes ELSE LayOne(f[i - 1], atoms[i])
      BY <2>1 DEF LayRec
    <3>2. \A i \in 0..m : i \in 0..(m + 1) OBVIOUS
    <3> QED BY <3>1, <3>2
  <2>3. \A i \in 0..(m + 1) : i # 0 => i - 1 \in 0..m
    OBVIOUS
  <2>4. g = [i \in 0..(m + 1) |-> IF i = 0 THEN bytes ELSE LayOne(g[i - 1], atoms[i])]
    BY <2>2, <2>3
  <2>5. LayRec(g, bytes, atoms, m + 1) BY <2>4 DEF LayRec
  <2> QED BY <2>5
<1> HIDE DEF S
<1>3. n \in S BY <1>1, <1>2, SetInduction
<1> QED BY <1>3 DEF S

TellRec(f, atoms, n) ==
  f = [i \in 0..n |-> IF i = 0 THEN <<>> ELSE TellOne(f[i - 1], atoms[i])]

LEMMA TellExists ==
  ASSUME NEW CONSTANT n \in Nat, NEW atoms
  PROVE  \E f : TellRec(f, atoms, n)
<1> DEFINE S == {m \in Nat : \E f : TellRec(f, atoms, m)}
<1>1. 0 \in S
  <2>1. TellRec([i \in 0..0 |-> <<>>], atoms, 0)
    BY DEF TellRec
  <2> QED BY <2>1
<1>2. \A m \in Nat : m \in S => m + 1 \in S
  <2> SUFFICES ASSUME NEW m \in Nat, m \in S PROVE m + 1 \in S OBVIOUS
  <2>1. PICK f : TellRec(f, atoms, m) OBVIOUS
  <2> DEFINE g == [i \in 0..(m + 1) |-> IF i = 0 THEN <<>> ELSE TellOne(f[i - 1], atoms[i])]
  <2>2. \A i \in 0..m : g[i] = f[i]
    <3>1. \A i \in 0..m : f[i] = IF i = 0 THEN <<>> ELSE TellOne(f[i - 1], atoms[i])
      BY <2>1 DEF TellRec
    <3>2. \A i \in 0..m : i \in 0..(m + 1) OBVIOUS
    <3> QED BY <3>1, <3>2
  <2>3. \A i \in 0..(m + 1) : i # 0 => i - 1 \in 0..m
    OBVIOUS
  <2>4. g = [i \in 0..(m + 1) |-> IF i = 0 THEN <<>> ELSE TellOne(g[i - 1], atoms[i])]
    BY <2>2, <2>3
  <2>5. TellRec(g, atoms, m + 1) BY <2>4 DEF TellRec
  <2> QED BY <2>5
<1> HIDE DEF S
<1>3. n \in S BY <1>1, <1>2, SetInduction
<1> QED BY <1>3 DEF S

WalkRec(f, p, reads, n) ==
  f = [i \in 0..n |-> IF i = 0 THEN [p |-> p, vals |-> <<>>] ELSE WalkOne(f[i - 1], reads[i])]

LEMMA WalkExists ==
  ASSUME NEW CONSTANT n \in Nat, NEW p, NEW reads
  PROVE  \E f : WalkRec(f, p, reads, n)
<1> DEFINE S == {m \in Nat : \E f : WalkRec(f, p, reads, m)}
<1>1. 0 \in S
  <2>1. WalkRec([i \in 0..0 |-> [p |-> p, vals |-> <<>>]], p, reads, 0)
    BY DEF WalkRec
  <2> QED BY <2>1
<1>2. \A m \in Nat : m \in S => m + 1 \in S
  <2> SUFFICES ASSUME NEW m \in Nat, m \in S PROVE m + 1 \in S OBVIOUS
  <2>1. PICK f : WalkRec(f, p, reads, m) OBVIOUS
  <2> DEFINE g == [i \in 0..(m + 1) |-> IF i = 0 THEN [p |-> p, vals |-> <<>>] ELSE WalkOne(f[i - 1], reads[i])]
  <2>2. \A i \in 0..m : g[i] = f[i]
    <3>1. \A i \in 0..m : f[i] = IF i = 0 THEN [p |-> p, vals |-> <<>>] ELSE WalkOne(f[i - 1], reads[i])
      BY <2>1 DEF WalkRec
    <3>2. \A i \in 0..m : i \in 0..(m + 1) OBVIOUS
    <3> QED BY <3>1, <3>2
  <2>3. \A i \in 0..(m + 1) : i # 0 => i - 1 \in 0..m
    OBVIOUS
  <2>4. g = [i \in 0..(m + 1) |-> IF i = 0 THEN [p |-> p, vals |-> <<>>] ELSE WalkOne(g[i - 1], reads[i])]
    BY <2>2, <2>3
  <2>5. WalkRec(g, p, reads, m + 1) BY <2>4 DEF WalkRec
  <2> QED BY <2>5
<1> HIDE DEF S
<1>3. n \in S BY <1>1, <1>2, SetInduction
<1> QED BY <1>3 DEF S

LEMMA LayIs ==
  ASSUME NEW bytes, NEW atoms, Len(atoms) \in Nat
  PROVE  \E f : LayRec(f, bytes, atoms, Len(atoms)) /\ Lay(bytes, atoms) = f[Len(atoms)]
<1> DEFINE f == CHOOSE h : LayRec(h, bytes, atoms, Len(atoms))
<1>1. \E h : LayRec(h, bytes, atoms, Len(atoms)) BY LayExists
<1>2. LayRec(f, bytes, atoms, Len(atoms)) BY <1>1
<1>3. Lay(bytes, atoms) = f[Len(atoms)] BY DEF Lay, LayRec, LayOne
<1> QED BY <1>2, <1>3

LEMMA TellIs ==
  ASSUME NEW atoms, Len(atoms) \in Nat
  PROVE  \E f : TellRec(f, atoms, Len(atoms)) /\ Payload(atoms) = f[Len(atoms)]
<1> DEFINE f == CHOOSE h : TellRec(h, atoms, Len(atoms))
<1>1. \E h : TellRec(h, atoms, Len(atoms)) BY TellExists
<1>2. TellRec(f, atoms, Len(atoms)) BY <1>1
<1>3. Payload(atoms) = f[Len(atoms)] BY DEF Payload, TellRec, TellOne
<1> QED BY <1>2, <1>3

LEMMA WalkIs ==
  ASSUME NEW p, NEW reads, Len(reads) \in Nat
  PROVE  \E f : WalkRec(f, p, reads, Len(reads)) /\ Walk(p, reads) = f[Len(reads)]
<1> DEFINE f == CHOOSE h : WalkRec(h, p, reads, Len(reads))
<1>1. \E h : WalkRec(h, p, reads, Len(reads)) BY WalkExists
<1>2. WalkRec(f, p, reads, Len(reads)) BY <1>1
<1>3. Walk(p, reads) = f[Len(reads)] BY DEF Walk, WalkRec, WalkOne
<1> QED BY <1>2, <1>3

-----------------------------------------------------------------------------
(* Sequences of atoms.                                                      *)

IsAtoms(s) ==
  /\ Len(s) \in Nat /\ DOMAIN s = 1..Len(s) /\ s = [i \in 1..Len(s) |-> s[i]]
  /\ \A i \in 1..Len(s) : s[i].w \in Nat /\ s[i].w > 0

LEMMA AtomsCat ==
  ASSUME NEW s, NEW t, IsAtoms(s), IsAtoms(t)
  PROVE  /\ IsAtoms(s \o t) /\ Len(s \o t) = Len(s) + Len(t)
         /\ \A i \in 1..Len(s) : (s \o t)[i] = s[i]
         /\ \A i \in 1..Len(t) : (s \o t)[Len(s) + i] = t[i]
<1> DEFINE V == {s[i] : i \in 1..Len(s)} \cup {t[i] : i \in 1..Len(t)}
           m == Len(s) n == Len(t)
<1>1. s \in Seq(V) /\ t \in Seq(V)
  <2>1. s \in [1..m -> V] BY DEF IsAtoms
  <2>2. t \in [1..n -> V] BY DEF IsAtoms
  <2>3. m \in Nat /\ n \in Nat BY DEF IsAtoms
  <2> HIDE DEF V, m, n
  <2> QED BY <2>1, <2>2, <2>3
<1> HIDE DEF V
<1>2. /\ s \o t \in Seq(V) /\ Len(s \o t) = m + n
      /\ \A i \in 1..(m + n) : (s \o t)[i] = IF i <= m THEN s[i] ELSE t[i - m]
  BY <1>1, ConcatProperties
<1>3. m \in Nat /\ n \in Nat BY DEF IsAtoms
<1> DEFINE u == s \o t
<1>4. DOMAIN u = 1..(m + n) /\ u = [i \in 1..(m + n) |-> u[i]]
  <2> HIDE DEF u, m, n
  <2>1. u \in Seq(V) /\ Len(u) = m + n BY <1>2 DEF u, m, n
  <2> QED BY <2>1, LenProperties
<1> HIDE DEF u, m, n
<1>5. ASSUME NEW i \in 1..m PROVE u[i] = s[i]
  <2>1. i \in 1..(m + n) /\ i <= m BY <1>3, <1>5
  <2> QED BY <1>2, <2>1 DEF u
<1>6. ASSUME NEW i \in 1..n PROVE u[m + i] = t[i]
  <2>1. m + i \in 1..(m + n) /\ ~(m + i <= m) /\ (m + i) - m = i BY <1>3, <1>6
  <2> QED BY <1>2, <2>1 DEF u
<1>7. \A i \in 1..(m + n) : u[i].w \in Nat /\ u[i].w > 0
  <2> SUFFICES ASSUME NEW i \in 1..(m + n) PROVE u[i].w \in Nat /\ u[i].w > 0 OBVIOUS
  <2>1. CASE i \in 1..m BY <1>5, <2>1 DEF IsAtoms, m
  <2>2. CASE i \notin 1..m
    <3>1. i - m \in 1..n /\ i = m + (i - m) BY <1>3, <2>2
    <3>2. u[i] = t[i - m] BY <1>6, <3>1
    <3> QED BY <3>1, <3>2 DEF IsAtoms, n
  <2> QED BY <2>1, <2>2
<1>8. Len(u) = m + n BY <1>2 DEF u
<1>9. IsAtoms(u) BY <1>3, <1>4, <1>7, <1>8 DEF IsAtoms
<1> QED BY <1>5, <1>6, <1>8, <1>9 DEF u, m, n

LEMMA NoAtoms == IsAtoms(<<>>) /\ Len(<<>>) = 0
BY DEF IsAtoms

LEMMA OneAtom ==
  ASSUME NEW a, a.w \in Nat, a.w > 0
  PROVE  IsAtoms(<<a>>) /\ Len(<<a>>) = 1
BY DEF IsAtoms

LEMMA TwoAtoms ==
  ASSUME NEW a, NEW b, a.w \in Nat, a.w > 0, b.w \in Nat, b.w > 0
  PROVE  IsAtoms(<<a, b>>) /\ Len(<<a, b>>) = 2
BY DEF IsAtoms

LEMMA ThreeAtoms ==
  ASSUME NEW a, NEW b, NEW c, a.w \in Nat, a.w > 0, b.w \in Nat, b.w > 0, c.w \in Nat, c.w > 0
  PROVE  IsAtoms(<<a, b, c>>) /\ Len(<<a, b, c>>) = 3
BY DEF IsAtoms

LEMMA FourAtoms ==
  ASSUME NEW a, NEW b, NEW c, NEW d, a.w \in Nat, a.w > 0, b.w \in Nat, b.w > 0,
         c.w \in Nat, c.w > 0, d.w \in Nat, d.w > 0
  PROVE  IsAtoms(<<a, b, c, d>>) /\ Len(<<a, b, c, d>>) = 4
BY DEF IsAtoms

LEMMA FiveAtoms ==
  ASSUME NEW a, NEW b, NEW c, NEW d, NEW e, a.w \in Nat, a.w > 0, b.w \in Nat, b.w > 0,
         c.w \in Nat, c.w > 0, d.w \in Nat, d.w > 0, e.w \in Nat, e.w > 0
  PROVE  IsAtoms(<<a, b, c, d, e>>) /\ Len(<<a, b, c, d, e>>) = 5
BY DEF IsAtoms

-----------------------------------------------------------------------------
(* Where they are in a record.                                              *)

\* The offsets o, of atoms that lie one after the other from p to q.
Offsets(o, p, q, atoms) ==
  /\ o \in [1..(Len(atoms) + 1) -> Nat]
  /\ o[1] = p /\ o[Len(atoms) + 1] = q
  /\ \A i \in 1..Len(atoms) : o[i + 1] = o[i] + atoms[i].w

HeldAt(cells, p, q, atoms) ==
  \E o : /\ Offsets(o, p, q, atoms)
         /\ \A i \in 1..Len(atoms) : o[i] \in DOMAIN cells /\ cells[o[i]] = atoms[i]

BytesOK(r) == r.size \in Nat /\ \A p \in DOMAIN r.at : p \in Nat /\ p < r.size

\* perf_output_put writes after all that is there.
LEMMA LayAdds ==
  ASSUME NEW bytes, NEW atoms, IsAtoms(atoms), BytesOK(bytes)
  PROVE  LET r == Lay(bytes, atoms)
         IN  /\ BytesOK(r) /\ bytes.size <= r.size
             /\ \A p \in DOMAIN bytes.at : p \in DOMAIN r.at /\ r.at[p] = bytes.at[p]
             /\ HeldAt(r.at, bytes.size, r.size, atoms)
<1> DEFINE n == Len(atoms)
<1>1. n \in Nat BY DEF IsAtoms
<1>2. PICK f : LayRec(f, bytes, atoms, n) /\ Lay(bytes, atoms) = f[n]
  BY <1>1, LayIs
<1> HIDE DEF n
<1>3. f[0] = bytes /\ \A i \in 1..n : f[i] = LayOne(f[i - 1], atoms[i])
  BY <1>1, <1>2 DEF LayRec
<1> DEFINE Good(i) == /\ BytesOK(f[i]) /\ bytes.size <= f[i].size
                      /\ \A p \in DOMAIN bytes.at : p \in DOMAIN f[i].at /\ f[i].at[p] = bytes.at[p]
                      /\ \A j \in 1..i : /\ f[j - 1].size \in Nat
                                         /\ f[j].size = f[j - 1].size + atoms[j].w
                                         /\ f[j - 1].size \in DOMAIN f[i].at
                                         /\ f[i].at[f[j - 1].size] = atoms[j]
           S == {i \in Nat : i \in 0..n => Good(i)}
<1>4. 0 \in S
  <2>1. bytes.size \in Nat BY DEF BytesOK
  <2>2. bytes.size <= bytes.size BY <2>1
  <2> QED BY <1>1, <1>3, <2>2 DEF BytesOK
<1>5. \A i \in Nat : i \in S => i + 1 \in S
  <2> SUFFICES ASSUME NEW i \in Nat, i \in S, i + 1 \in 0..n PROVE Good(i + 1) OBVIOUS
  <2>1. Good(i) BY <1>1
  <2> DEFINE r == f[i] a == atoms[i + 1]
  <2>2. i + 1 \in 1..n /\ (i + 1) - 1 = i BY <1>1
  <2>3. f[i + 1] = LayOne(r, a) BY <1>3, <2>2
  <2>4. a.w \in Nat /\ a.w > 0 BY <2>2 DEF IsAtoms, n
  <2>5. /\ f[i + 1].size = r.size + a.w
        /\ DOMAIN f[i + 1].at = DOMAIN r.at \cup {r.size}
        /\ \A p \in DOMAIN r.at : f[i + 1].at[p] = r.at[p]
        /\ r.size \notin DOMAIN r.at => f[i + 1].at[r.size] = a
    BY <2>3 DEF LayOne, With
  <2> HIDE DEF a
  <2>6. r.size \in Nat /\ r.size \notin DOMAIN r.at BY <2>1 DEF BytesOK
  <2>7. BytesOK(f[i + 1]) /\ r.size <= f[i + 1].size /\ bytes.size <= f[i + 1].size
    <3>1. \A p \in DOMAIN r.at : p \in Nat /\ p < r.size BY <2>1 DEF BytesOK
    <3>2. bytes.size \in Nat BY DEF BytesOK
    <3>3. bytes.size <= r.size BY <2>1
    <3> HIDE DEF r, Good
    <3> QED BY <2>4, <2>5, <2>6, <3>1, <3>2, <3>3 DEF BytesOK
  <2>8. \A p \in DOMAIN bytes.at : p \in DOMAIN f[i + 1].at /\ f[i + 1].at[p] = bytes.at[p]
    BY <2>1, <2>5
  <2>9. ASSUME NEW j \in 1..(i + 1)
        PROVE  /\ f[j - 1].size \in Nat
               /\ f[j].size = f[j - 1].size + atoms[j].w
               /\ f[j - 1].size \in DOMAIN f[i + 1].at
               /\ f[i + 1].at[f[j - 1].size] = atoms[j]
    <3>1. CASE j = i + 1
      <4>1. j - 1 = i BY <3>1
      <4> QED BY <2>5, <2>6, <3>1, <4>1 DEF a
    <3>2. CASE j \in 1..i BY <2>1, <2>5, <3>2
    <3> QED BY <3>1, <3>2
  <2> HIDE DEF r
  <2> QED BY <2>7, <2>8, <2>9
<1> HIDE DEF S
<1>6. n \in S BY <1>1, <1>4, <1>5, SetInduction
<1>7. Good(n) BY <1>1, <1>6 DEF S
<1> DEFINE o == [i \in 1..(n + 1) |-> f[i - 1].size]
<1>8. Offsets(o, bytes.size, f[n].size, atoms)
  <2>1. \A i \in 1..(n + 1) : f[i - 1].size \in Nat
    <3> SUFFICES ASSUME NEW i \in 1..(n + 1) PROVE f[i - 1].size \in Nat OBVIOUS
    <3>1. CASE i \in 1..n BY <1>7, <3>1
    <3>2. CASE i = n + 1
      <4>1. i - 1 = n BY <1>1, <3>2
      <4> QED BY <1>7, <4>1 DEF BytesOK
    <3> QED BY <1>1, <3>1, <3>2
  <2>2. o \in [1..(n + 1) -> Nat] BY <2>1
  <2>3. 1 \in 1..(n + 1) /\ n + 1 \in 1..(n + 1) /\ 1 - 1 = 0 /\ (n + 1) - 1 = n BY <1>1
  <2>4. o[1] = bytes.size /\ o[n + 1] = f[n].size BY <1>3, <2>3
  <2>5. ASSUME NEW i \in 1..n PROVE o[i + 1] = o[i] + atoms[i].w
    <3>1. i \in 1..(n + 1) /\ i + 1 \in 1..(n + 1) /\ (i + 1) - 1 = i BY <1>1
    <3>2. o[i + 1] = f[i].size /\ o[i] = f[i - 1].size BY <3>1
    <3> QED BY <1>7, <3>2
  <2> HIDE DEF o
  <2> QED BY <2>2, <2>4, <2>5 DEF Offsets, n
<1>9. \A i \in 1..n : o[i] \in DOMAIN f[n].at /\ f[n].at[o[i]] = atoms[i]
  <2>1. \A i \in 1..n : o[i] = f[i - 1].size BY <1>1
  <2> QED BY <1>7, <2>1
<1>10. HeldAt(f[n].at, bytes.size, f[n].size, atoms)
  <2> HIDE DEF o
  <2> QED BY <1>8, <1>9 DEF HeldAt, n
<1> HIDE DEF o
<1> QED BY <1>2, <1>7, <1>10

\* What is held stays so when more is laid.
LEMMA HeldStays ==
  ASSUME NEW cells, NEW more, NEW p, NEW q, NEW atoms, HeldAt(cells, p, q, atoms),
         \A i \in DOMAIN cells : i \in DOMAIN more /\ more[i] = cells[i]
  PROVE  HeldAt(more, p, q, atoms)
BY DEF HeldAt

LEMMA HeldNone ==
  ASSUME NEW cells, NEW p, NEW q, HeldAt(cells, p, q, <<>>)
  PROVE  p = q /\ p \in Nat
BY DEF HeldAt, Offsets

LEMMA HeldOne ==
  ASSUME NEW cells, NEW p, NEW q, NEW a, HeldAt(cells, p, q, <<a>>)
  PROVE  p \in Nat /\ q = p + a.w /\ p \in DOMAIN cells /\ cells[p] = a
BY DEF HeldAt, Offsets

\* Two sequences of atoms, the second after the first.
LEMMA HeldCat ==
  ASSUME NEW cells, NEW p, NEW q, NEW s, NEW t, IsAtoms(s), IsAtoms(t), HeldAt(cells, p, q, s \o t)
  PROVE  \E r \in Nat : HeldAt(cells, p, r, s) /\ HeldAt(cells, r, q, t)
<1> DEFINE m == Len(s) n == Len(t) u == s \o t
<1>1. m \in Nat /\ n \in Nat BY DEF IsAtoms
<1>2. /\ Len(u) = m + n
      /\ \A i \in 1..m : u[i] = s[i]
      /\ \A i \in 1..n : u[m + i] = t[i]
  BY AtomsCat
<1>3. PICK o : /\ Offsets(o, p, q, u)
               /\ \A i \in 1..Len(u) : o[i] \in DOMAIN cells /\ cells[o[i]] = u[i]
  BY DEF HeldAt
<1> HIDE DEF m, n, u
<1>4. /\ o \in [1..(m + n + 1) -> Nat] /\ o[1] = p /\ o[m + n + 1] = q
      /\ \A i \in 1..(m + n) : o[i + 1] = o[i] + u[i].w /\ o[i] \in DOMAIN cells /\ cells[o[i]] = u[i]
  BY <1>2, <1>3 DEF Offsets
<1> DEFINE a == [i \in 1..(m + 1) |-> o[i]]
           b == [i \in 1..(n + 1) |-> o[m + i]]
<1>5. HeldAt(cells, p, o[m + 1], s)
  <2>1. a \in [1..(m + 1) -> Nat] /\ a[1] = p /\ a[m + 1] = o[m + 1] BY <1>1, <1>4
  <2>2. ASSUME NEW i \in 1..m
        PROVE a[i + 1] = a[i] + s[i].w /\ a[i] \in DOMAIN cells /\ cells[a[i]] = s[i]
    <3>1. i \in 1..(m + n) /\ a[i + 1] = o[i + 1] /\ a[i] = o[i] BY <1>1
    <3> QED BY <1>2, <1>4, <3>1
  <2> HIDE DEF a
  <2> QED BY <2>1, <2>2 DEF HeldAt, Offsets, m
<1>6. HeldAt(cells, o[m + 1], q, t)
  <2>1. b \in [1..(n + 1) -> Nat] /\ b[1] = o[m + 1] /\ b[n + 1] = q
    <3>1. m + (n + 1) = m + n + 1 BY <1>1
    <3> QED BY <1>1, <1>4, <3>1
  <2>2. ASSUME NEW i \in 1..n
        PROVE b[i + 1] = b[i] + t[i].w /\ b[i] \in DOMAIN cells /\ cells[b[i]] = t[i]
    <3>1. m + i \in 1..(m + n) /\ m + (i + 1) = (m + i) + 1 BY <1>1
    <3>2. b[i + 1] = o[m + (i + 1)] /\ b[i] = o[m + i] BY <1>1
    <3> QED BY <1>2, <1>4, <3>1, <3>2
  <2> HIDE DEF b
  <2> QED BY <2>1, <2>2 DEF HeldAt, Offsets, n
<1>7. o[m + 1] \in Nat BY <1>1, <1>4
<1> QED BY <1>5, <1>6, <1>7

\* An array of atoms of one width.
Wide(s, w) == \A i \in 1..Len(s) : s[i].w = w

LEMMA HeldArray ==
  ASSUME NEW cells, NEW p, NEW q, NEW s, IsAtoms(s), HeldAt(cells, p, q, s),
         NEW w \in Nat, Wide(s, w)
  PROVE  /\ p \in Nat /\ q = p + w * Len(s)
         /\ \A i \in 1..Len(s) : p + w * (i - 1) \in DOMAIN cells /\ cells[p + w * (i - 1)] = s[i]
<1> DEFINE n == Len(s)
<1>1. n \in Nat BY DEF IsAtoms
<1>2. PICK o : Offsets(o, p, q, s) /\ \A i \in 1..n : o[i] \in DOMAIN cells /\ cells[o[i]] = s[i]
  BY DEF HeldAt
<1> HIDE DEF n
<1>3. /\ o \in [1..(n + 1) -> Nat] /\ o[1] = p /\ o[n + 1] = q
      /\ \A i \in 1..n : o[i + 1] = o[i] + w
  BY <1>2 DEF Offsets, n, Wide
<1>4. p \in Nat BY <1>1, <1>3
<1> DEFINE S == {i \in Nat : i <= n => o[i + 1] = p + w * i}
<1>5. 0 \in S
  <2>1. w * 0 = 0 /\ p + 0 = p BY <1>4
  <2> QED BY <1>3, <2>1
<1>6. \A i \in Nat : i \in S => i + 1 \in S
  <2> SUFFICES ASSUME NEW i \in Nat, i \in S, i + 1 <= n PROVE o[(i + 1) + 1] = p + w * (i + 1) OBVIOUS
  <2>1. o[i + 1] = p + w * i BY <1>1
  <2>2. i + 1 \in 1..n BY <1>1
  <2>3. o[(i + 1) + 1] = o[i + 1] + w BY <1>3, <2>2
  <2>4. w * (i + 1) = w * i + w /\ w * i \in Nat OBVIOUS
  <2> QED BY <1>4, <2>1, <2>3, <2>4
<1> HIDE DEF S
<1>7. Nat \subseteq S BY <1>5, <1>6, SetInduction
<1>8. \A i \in 0..n : o[i + 1] = p + w * i BY <1>7 DEF S
<1>9. q = p + w * n BY <1>1, <1>3, <1>8
<1>10. ASSUME NEW i \in 1..n PROVE o[i] = p + w * (i - 1)
  <2>1. i - 1 \in 0..n /\ (i - 1) + 1 = i BY <1>1
  <2> QED BY <1>8, <2>1
<1> QED BY <1>2, <1>4, <1>9, <1>10 DEF n

\* Atoms that take n bytes, wherever they are.
Sized(s, n) ==
  IsAtoms(s) /\ n \in Nat /\ \A cells, p, q : HeldAt(cells, p, q, s) => p \in Nat /\ q = p + n

LEMMA SizedNone == Sized(<<>>, 0)
BY NoAtoms, HeldNone DEF Sized

LEMMA SizedOne ==
  ASSUME NEW a, a.w \in Nat, a.w > 0
  PROVE  Sized(<<a>>, a.w)
<1>1. ASSUME NEW cells, NEW p, NEW q, HeldAt(cells, p, q, <<a>>) PROVE p \in Nat /\ q = p + a.w
  BY <1>1, HeldOne
<1>2. IsAtoms(<<a>>) BY OneAtom
<1> QED BY <1>1, <1>2 DEF Sized

LEMMA SizedCat ==
  ASSUME NEW s, NEW t, NEW m, NEW n, Sized(s, m), Sized(t, n)
  PROVE  Sized(s \o t, m + n)
<1>1. IsAtoms(s) /\ IsAtoms(t) /\ m \in Nat /\ n \in Nat BY DEF Sized
<1>2. ASSUME NEW cells, NEW p, NEW q, HeldAt(cells, p, q, s \o t) PROVE p \in Nat /\ q = p + (m + n)
  <2>1. PICK r \in Nat : HeldAt(cells, p, r, s) /\ HeldAt(cells, r, q, t) BY <1>1, <1>2, HeldCat
  <2>2. p \in Nat /\ r = p + m /\ q = r + n BY <2>1 DEF Sized
  <2> QED BY <1>1, <2>2
<1>3. IsAtoms(s \o t) BY <1>1, AtomsCat
<1> QED BY <1>1, <1>2, <1>3 DEF Sized

LEMMA SizedTwo ==
  ASSUME NEW a, NEW b, a.w \in Nat, a.w > 0, b.w \in Nat, b.w > 0
  PROVE  Sized(<<a, b>>, a.w + b.w)
<1>1. ASSUME NEW cells, NEW p, NEW q, HeldAt(cells, p, q, <<a, b>>) PROVE p \in Nat /\ q = p + (a.w + b.w)
  <2>1. p \in Nat /\ q = (p + a.w) + b.w BY <1>1 DEF HeldAt, Offsets
  <2> QED BY <2>1
<1>2. IsAtoms(<<a, b>>) BY TwoAtoms
<1> QED BY <1>1, <1>2 DEF Sized

LEMMA SizedThree ==
  ASSUME NEW a, NEW b, NEW c, a.w \in Nat, a.w > 0, b.w \in Nat, b.w > 0, c.w \in Nat, c.w > 0
  PROVE  Sized(<<a, b, c>>, a.w + b.w + c.w)
<1>1. ASSUME NEW cells, NEW p, NEW q, HeldAt(cells, p, q, <<a, b, c>>)
      PROVE p \in Nat /\ q = p + (a.w + b.w + c.w)
  <2>1. p \in Nat /\ q = ((p + a.w) + b.w) + c.w BY <1>1 DEF HeldAt, Offsets
  <2> QED BY <2>1
<1>2. IsAtoms(<<a, b, c>>) BY ThreeAtoms
<1> QED BY <1>1, <1>2 DEF Sized

LEMMA SizedArray ==
  ASSUME NEW s, IsAtoms(s), NEW w \in Nat, Wide(s, w)
  PROVE  Sized(s, w * Len(s))
<1>1. ASSUME NEW cells, NEW p, NEW q, HeldAt(cells, p, q, s) PROVE p \in Nat /\ q = p + w * Len(s)
  BY <1>1, HeldArray
<1>2. w * Len(s) \in Nat BY DEF IsAtoms
<1> QED BY <1>1, <1>2 DEF Sized

-----------------------------------------------------------------------------
(* What the reader is told of them.                                         *)

Silent(a) == a.val.of \in {"nr", "pad"}

LEMMA PayloadType ==
  ASSUME NEW s, IsAtoms(s), NEW V, \A i \in 1..Len(s) : s[i].val \in V,
         NEW f, TellRec(f, s, Len(s))
  PROVE  \A i \in 0..Len(s) : f[i] \in Seq(V)
<1> DEFINE n == Len(s)
           S == {i \in Nat : i <= n => f[i] \in Seq(V)}
<1>1. n \in Nat BY DEF IsAtoms
<1>2. f[0] = <<>> /\ \A i \in 1..n : f[i] = TellOne(f[i - 1], s[i]) BY <1>1 DEF TellRec
<1> HIDE DEF n
<1>3. 0 \in S
  <2>1. <<>> \in Seq(V) OBVIOUS
  <2> QED BY <1>2, <2>1
<1>4. \A i \in Nat : i \in S => i + 1 \in S
  <2> SUFFICES ASSUME NEW i \in Nat, f[i] \in Seq(V), i + 1 <= n PROVE f[i + 1] \in Seq(V)
    BY <1>1
  <2>1. i + 1 \in 1..n /\ (i + 1) - 1 = i BY <1>1
  <2>2. f[i + 1] = TellOne(f[i], s[i + 1]) BY <1>2, <2>1
  <2>3. s[i + 1].val \in V BY <2>1 DEF n
  <2>4. Append(f[i], s[i + 1].val) \in Seq(V) BY <2>3, AppendProperties
  <2> QED BY <2>2, <2>4 DEF TellOne
<1> HIDE DEF S
<1>5. Nat \subseteq S BY <1>3, <1>4, SetInduction
<1> QED BY <1>1, <1>5 DEF S, n

LEMMA PayloadNone == Payload(<<>>) = <<>>
<1>1. Len(<<>>) = 0 OBVIOUS
<1>2. PICK f : TellRec(f, <<>>, 0) /\ Payload(<<>>) = f[0] BY <1>1, TellIs
<1> QED BY <1>2 DEF TellRec

LEMMA PayloadOne ==
  ASSUME NEW a
  PROVE  /\ Silent(a) => Payload(<<a>>) = <<>>
         /\ ~Silent(a) => Payload(<<a>>) = <<a.val>>
<1>1. Len(<<a>>) = 1 /\ <<a>>[1] = a OBVIOUS
<1>2. PICK f : TellRec(f, <<a>>, 1) /\ Payload(<<a>>) = f[1] BY <1>1, TellIs
<1>3. f[0] = <<>> /\ f[1] = TellOne(f[0], a) BY <1>1, <1>2 DEF TellRec
<1>4. Append(<<>>, a.val) = <<a.val>> OBVIOUS
<1> QED BY <1>2, <1>3, <1>4 DEF TellOne, Silent

LEMMA PayloadAll ==
  ASSUME NEW s, IsAtoms(s), \A i \in 1..Len(s) : ~Silent(s[i])
  PROVE  Payload(s) = [i \in 1..Len(s) |-> s[i].val]
<1> DEFINE n == Len(s)
           V == {s[i].val : i \in 1..Len(s)}
<1>1. n \in Nat BY DEF IsAtoms
<1>2. PICK f : TellRec(f, s, n) /\ Payload(s) = f[n] BY <1>1, TellIs
<1>3. f[0] = <<>> /\ \A i \in 1..n : f[i] = TellOne(f[i - 1], s[i]) BY <1>1, <1>2 DEF TellRec
<1>4. \A i \in 0..n : f[i] \in Seq(V)
  <2>1. \A i \in 1..Len(s) : s[i].val \in V OBVIOUS
  <2> HIDE DEF V
  <2> QED BY <1>2, <2>1, PayloadType
<1> DEFINE S == {i \in Nat : i <= n => Len(f[i]) = i /\ \A j \in 1..i : f[i][j] = s[j].val}
<1> HIDE DEF n, V
<1>5. 0 \in S BY <1>3
<1>6. \A i \in Nat : i \in S => i + 1 \in S
  <2> SUFFICES ASSUME NEW i \in Nat, i \in S, i + 1 <= n
               PROVE  Len(f[i + 1]) = i + 1 /\ \A j \in 1..(i + 1) : f[i + 1][j] = s[j].val
    OBVIOUS
  <2>1. i + 1 \in 1..n /\ (i + 1) - 1 = i /\ i \in 0..n BY <1>1
  <2>2. Len(f[i]) = i /\ \A j \in 1..i : f[i][j] = s[j].val BY <2>1
  <2>3. f[i + 1] = Append(f[i], s[i + 1].val)
    <3>1. ~Silent(s[i + 1]) BY <2>1 DEF n
    <3>2. f[i + 1] = TellOne(f[i], s[i + 1]) BY <1>3, <2>1
    <3> QED BY <3>1, <3>2 DEF TellOne, Silent
  <2>4. s[i + 1].val \in V /\ f[i] \in Seq(V) BY <1>4, <2>1 DEF V, n
  <2>5. /\ Len(Append(f[i], s[i + 1].val)) = Len(f[i]) + 1
        /\ \A j \in 1..Len(f[i]) : Append(f[i], s[i + 1].val)[j] = f[i][j]
        /\ Append(f[i], s[i + 1].val)[Len(f[i]) + 1] = s[i + 1].val
    BY <2>4, AppendProperties
  <2> QED BY <2>2, <2>3, <2>5
<1> HIDE DEF S
<1>7. Nat \subseteq S BY <1>5, <1>6, SetInduction
<1>8. Len(f[n]) = n /\ \A j \in 1..n : f[n][j] = s[j].val BY <1>1, <1>7 DEF S
<1>9. f[n] \in Seq(V) BY <1>1, <1>4
<1>10. f[n] = [i \in 1..n |-> s[i].val]
  <2>1. f[n] = [i \in 1..n |-> f[n][i]] BY <1>8, <1>9, LenProperties
  <2> QED BY <1>8, <2>1
<1> QED BY <1>2, <1>10 DEF n

LEMMA PayloadCat ==
  ASSUME NEW s, NEW t, IsAtoms(s), IsAtoms(t)
  PROVE  Payload(s \o t) = Payload(s) \o Payload(t)
<1> DEFINE m == Len(s) n == Len(t) u == s \o t
           V == {s[i].val : i \in 1..m} \cup {t[i].val : i \in 1..n}
<1>1. m \in Nat /\ n \in Nat BY DEF IsAtoms
<1>2. /\ IsAtoms(u) /\ Len(u) = m + n
      /\ \A i \in 1..m : u[i] = s[i]
      /\ \A i \in 1..n : u[m + i] = t[i]
  BY AtomsCat
<1>3. PICK f : TellRec(f, s, m) /\ Payload(s) = f[m] BY <1>1, TellIs
<1>4. PICK g : TellRec(g, t, n) /\ Payload(t) = g[n] BY <1>1, TellIs
<1>5. PICK h : TellRec(h, u, m + n) /\ Payload(u) = h[m + n]
  <2>1. Len(u) \in Nat BY <1>1, <1>2
  <2> HIDE DEF u
  <2>2. \E h : TellRec(h, u, Len(u)) /\ Payload(u) = h[Len(u)] BY <2>1, TellIs
  <2> QED BY <1>2, <2>2
<1>6. f[0] = <<>> /\ \A i \in 1..m : f[i] = TellOne(f[i - 1], s[i]) BY <1>1, <1>3 DEF TellRec
<1>7. g[0] = <<>> /\ \A i \in 1..n : g[i] = TellOne(g[i - 1], t[i]) BY <1>1, <1>4 DEF TellRec
<1>8. h[0] = <<>> /\ \A i \in 1..(m + n) : h[i] = TellOne(h[i - 1], u[i])
  <2>1. m + n \in Nat BY <1>1
  <2> HIDE DEF u, m, n
  <2> QED BY <1>5, <2>1 DEF TellRec
<1>9. (\A i \in 0..m : f[i] \in Seq(V)) /\ \A i \in 0..n : g[i] \in Seq(V)
  <2>1. (\A i \in 1..Len(s) : s[i].val \in V) /\ \A i \in 1..Len(t) : t[i].val \in V OBVIOUS
  <2> HIDE DEF V
  <2> QED BY <1>3, <1>4, <2>1, PayloadType
<1> HIDE DEF m, n, u, V
<1> DEFINE S == {i \in Nat : i <= m => h[i] = f[i]}
           Q(i) == h[m + i] = f[m] \o g[i]
           T == {i \in Nat : i <= n => Q(i)}
<1>10. Nat \subseteq S
  <2>1. 0 \in S BY <1>6, <1>8
  <2>2. \A i \in Nat : i \in S => i + 1 \in S
    <3> SUFFICES ASSUME NEW i \in Nat, i \in S, i + 1 <= m PROVE h[i + 1] = f[i + 1] OBVIOUS
    <3>1. h[i] = f[i] BY <1>1
    <3>2. i + 1 \in 1..m /\ i + 1 \in 1..(m + n) /\ (i + 1) - 1 = i BY <1>1
    <3>3. h[i + 1] = TellOne(h[i], u[i + 1]) /\ f[i + 1] = TellOne(f[i], s[i + 1])
      BY <1>6, <1>8, <3>2
    <3>4. u[i + 1] = s[i + 1] BY <1>2, <3>2
    <3> QED BY <3>1, <3>3, <3>4
  <2> HIDE DEF S
  <2> QED BY <2>1, <2>2, SetInduction
<1>11. h[m] = f[m] /\ f[m] \in Seq(V) BY <1>1, <1>9, <1>10
<1>12. Nat \subseteq T
  <2>1. 0 \in T
    <3>1. f[m] \o <<>> = f[m] BY <1>11, ConcatEmptySeq
    <3>2. m + 0 = m BY <1>1
    <3>3. Q(0) BY <1>7, <1>11, <3>1, <3>2
    <3> HIDE DEF Q
    <3> QED BY <3>3
  <2>2. \A i \in Nat : i \in T => i + 1 \in T
    <3> SUFFICES ASSUME NEW i \in Nat, i \in T, i + 1 <= n PROVE Q(i + 1)
      <4> HIDE DEF Q
      <4> QED OBVIOUS
    <3>0. Q(i)
      <4> HIDE DEF Q
      <4> QED BY <1>1
    <3>1. h[m + i] = f[m] \o g[i] BY <3>0
    <3>2. i + 1 \in 1..n /\ m + (i + 1) \in 1..(m + n) /\ (i + 1) - 1 = i
          /\ (m + (i + 1)) - 1 = m + i /\ i \in 0..n
      BY <1>1
    <3>3. h[m + (i + 1)] = TellOne(h[m + i], u[m + (i + 1)]) /\ g[i + 1] = TellOne(g[i], t[i + 1])
      BY <1>7, <1>8, <3>2
    <3>4. u[m + (i + 1)] = t[i + 1] BY <1>2, <3>2
    <3>5. g[i] \in Seq(V) BY <1>9, <3>2
    <3>6. t[i + 1].val \in V BY <3>2 DEF V, n
    <3>7. Append(f[m] \o g[i], t[i + 1].val) = f[m] \o Append(g[i], t[i + 1].val)
      <4> DEFINE x == f[m] y == g[i] v == t[i + 1].val
      <4>1. x \in Seq(V) /\ y \in Seq(V) /\ v \in V BY <1>11, <3>5, <3>6
      <4> HIDE DEF x, y, v
      <4>2. Append(x \o y, v) = x \o Append(y, v)
        <5>1. x \o y \in Seq(V) BY <4>1, ConcatProperties
        <5>2. Append(x \o y, v) = (x \o y) \o <<v>> BY <4>1, <5>1, AppendIsConcat
        <5>3. Append(y, v) = y \o <<v>> BY <4>1, AppendIsConcat
        <5>4. <<v>> \in Seq(V) BY <4>1
        <5>5. (x \o y) \o <<v>> = x \o (y \o <<v>>) BY <4>1, <5>4, ConcatAssociative
        <5> QED BY <5>2, <5>3, <5>5
      <4> QED BY <4>2 DEF x, y, v
    <3> QED BY <3>1, <3>3, <3>4, <3>7 DEF TellOne
  <2> HIDE DEF T
  <2> QED BY <2>1, <2>2, SetInduction
<1>13. h[m + n] = f[m] \o g[n]
  <2>1. Q(n)
    <3> HIDE DEF Q
    <3> QED BY <1>1, <1>12
  <2> QED BY <2>1
<1> QED BY <1>3, <1>4, <1>5, <1>13 DEF u

\* A count, or padding, before others.
LEMMA PayloadAfter ==
  ASSUME NEW a, a.w \in Nat, a.w > 0, Silent(a), NEW t, IsAtoms(t)
  PROVE  Payload(<<a>> \o t) = Payload(t)
<1> DEFINE V == {t[i].val : i \in 1..Len(t)}
<1>1. IsAtoms(<<a>>) BY OneAtom
<1>2. Payload(<<a>> \o t) = <<>> \o Payload(t)
  <2>1. Payload(<<a>> \o t) = Payload(<<a>>) \o Payload(t) BY <1>1, PayloadCat
  <2>2. Payload(<<a>>) = <<>> BY PayloadOne
  <2> QED BY <2>1, <2>2
<1>3. Payload(t) \in Seq(V)
  <2>1. Len(t) \in Nat BY DEF IsAtoms
  <2>2. PICK f : TellRec(f, t, Len(t)) /\ Payload(t) = f[Len(t)] BY <2>1, TellIs
  <2>3. \A i \in 1..Len(t) : t[i].val \in V OBVIOUS
  <2> HIDE DEF V
  <2>4. \A i \in 0..Len(t) : f[i] \in Seq(V) BY <2>2, <2>3, PayloadType
  <2> QED BY <2>1, <2>2, <2>4
<1> QED BY <1>2, <1>3, ConcatEmptySeq

\* A cursor that goes over the atoms of a record reads what a reader is to be told.
LEMMA WalkReads ==
  ASSUME NEW p, NEW q, NEW s, IsAtoms(s), HeldAt(rec.at, p, q, s),
         \A i \in 1..Len(s) : s[i].val.of # "nr"
  PROVE  Walk(p, s) = [p |-> q, vals |-> Payload(s)]
<1> DEFINE n == Len(s)
<1>1. n \in Nat BY DEF IsAtoms
<1>2. PICK f : WalkRec(f, p, s, n) /\ Walk(p, s) = f[n] BY <1>1, WalkIs
<1>3. PICK g : TellRec(g, s, n) /\ Payload(s) = g[n] BY <1>1, TellIs
<1>4. PICK o : Offsets(o, p, q, s) /\ \A i \in 1..n : o[i] \in DOMAIN rec.at /\ rec.at[o[i]] = s[i]
  BY DEF HeldAt
<1> HIDE DEF n
<1>5. f[0] = [p |-> p, vals |-> <<>>] /\ \A i \in 1..n : f[i] = WalkOne(f[i - 1], s[i])
  BY <1>1, <1>2 DEF WalkRec
<1>6. g[0] = <<>> /\ \A i \in 1..n : g[i] = TellOne(g[i - 1], s[i])
  BY <1>1, <1>3 DEF TellRec
<1>7. o[1] = p /\ o[n + 1] = q /\ \A i \in 1..n : o[i + 1] = o[i] + s[i].w
  BY <1>4 DEF Offsets, n
<1> DEFINE Q(i) == f[i] = [p |-> o[i + 1], vals |-> g[i]]
           S == {i \in Nat : i <= n => Q(i)}
<1>8. 0 \in S
  <2>1. Q(0) BY <1>5, <1>6, <1>7
  <2> HIDE DEF Q
  <2> QED BY <2>1
<1>9. \A i \in Nat : i \in S => i + 1 \in S
  <2> SUFFICES ASSUME NEW i \in Nat, i \in S, i + 1 <= n PROVE Q(i + 1)
    <3> HIDE DEF Q
    <3> QED OBVIOUS
  <2>1. Q(i)
    <3> HIDE DEF Q
    <3> QED BY <1>1
  <2>2. i + 1 \in 1..n /\ (i + 1) - 1 = i BY <1>1
  <2>3. f[i + 1] = WalkOne(f[i], s[i + 1]) /\ g[i + 1] = TellOne(g[i], s[i + 1])
    BY <1>5, <1>6, <2>2
  <2> DEFINE r == s[i + 1]
  <2>4. o[i + 1] \in DOMAIN rec.at /\ rec.at[o[i + 1]] = r BY <1>4, <2>2 DEF n
  <2>5. Get(o[i + 1], r.w) = r.val BY <2>4 DEF Get
  <2>6. r.val.of # "nr" BY <2>2 DEF n
  <2>7. o[(i + 1) + 1] = o[i + 1] + r.w BY <1>7, <2>2
  <2>8. f[i].p = o[i + 1] /\ f[i].vals = g[i] BY <2>1
  <2> HIDE DEF r
  <2>9. WalkOne(f[i], r) = [p |-> o[(i + 1) + 1], vals |-> TellOne(g[i], r)]
    BY <2>5, <2>6, <2>7, <2>8 DEF WalkOne, TellOne
  <2> QED BY <2>3, <2>9 DEF r
<1> HIDE DEF S
<1>10. Nat \subseteq S BY <1>8, <1>9, SetInduction
<1>11. Q(n)
  <2> HIDE DEF Q
  <2> QED BY <1>1, <1>10 DEF S
<1> QED BY <1>2, <1>3, <1>7, <1>11

-----------------------------------------------------------------------------
(* The parts of a record, of either family, in their order.                 *)

Order == IF kind = "sample" THEN KernelOrder ELSE KernelSideOrder

N == IF kind = "sample" THEN 24 ELSE 7

AllParts == IF kind = "sample" THEN flags ELSE Parts

Put(f) == IF kind = "sample" THEN KernelAtoms(f) ELSE KernelPart(f)

\* The place of a part in its order.
Rank == [ip |-> 1, tid |-> 2, time |-> 3, addr |-> 4, id |-> 5, stream_id |-> 6, cpu |-> 7,
         period |-> 8, read |-> 9, callchain |-> 10, raw |-> 11, branch_stack |-> 12,
         regs_user |-> 13, stack_user |-> 14, weight |-> 15, weight_struct |-> 16,
         data_src |-> 17, transaction |-> 18, regs_intr |-> 19, phys_addr |-> 20,
         cgroup |-> 21, data_page_size |-> 22, code_page_size |-> 23, aux |-> 24]

SideRank == [head |-> 1, tail |-> 2, task |-> 3, time |-> 4, id |-> 5, stream_id |-> 6, cpu |-> 7]

LEMMA Orders ==
  /\ DOMAIN KernelOrder = 1..24 /\ \A i \in 1..24 : Rank[KernelOrder[i]] = i
  /\ DOMAIN KernelSideOrder = 1..7 /\ \A i \in 1..7 : SideRank[KernelSideOrder[i]] = i
<1>1. DOMAIN KernelOrder = 1..24 BY DEF KernelOrder
<1>2. \A i \in 1..24 : Rank[KernelOrder[i]] = i
  BY DEF KernelOrder, Rank
<1>3. DOMAIN KernelSideOrder = 1..7 BY DEF KernelSideOrder
<1>4. \A i \in 1..7 : SideRank[KernelSideOrder[i]] = i
  BY DEF KernelSideOrder, SideRank
<1> QED BY <1>1, <1>2, <1>3, <1>4

LEMMA Least ==
  ASSUME NEW T, T \subseteq Nat, T # {}
  PROVE  \E m \in T : \A k \in T : m <= k
<1> SUFFICES ASSUME \A m \in T : \E k \in T : ~(m <= k) PROVE FALSE OBVIOUS
<1> DEFINE S == {n \in Nat : \A m \in 0..n : m \notin T}
<1>1. 0 \in S
  <2> SUFFICES ASSUME 0 \in T PROVE FALSE OBVIOUS
  <2>1. PICK k \in T : ~(0 <= k) OBVIOUS
  <2> QED BY <2>1
<1>2. \A n \in Nat : n \in S => n + 1 \in S
  <2> SUFFICES ASSUME NEW n \in Nat, n \in S, n + 1 \in T PROVE FALSE OBVIOUS
  <2>1. PICK k \in T : ~(n + 1 <= k) OBVIOUS
  <2>2. k \in 0..n BY <2>1
  <2> QED BY <2>2
<1> HIDE DEF S
<1>3. Nat \subseteq S BY <1>1, <1>2, SetInduction
<1>4. \A n \in Nat : n \notin T BY <1>3 DEF S
<1> QED BY <1>4

ConfigOK ==
  /\ base = 0
  /\ kind = "sample" => flags \subseteq Fields /\ format \subseteq St!Flags
  /\ kind # "sample" => /\ kind \in DOMAIN KernelHead /\ flags \subseteq RecordIdFields
                        /\ kind = "namespaces" => ~id_all
                        /\ format \subseteq St!Flags \ {"group"}

LEMMA OrderFacts ==
  ASSUME ConfigOK
  PROVE  /\ N \in Nat /\ N > 0 /\ DOMAIN Order = 1..N
         /\ \A i, j \in 1..N : Order[i] = Order[j] => i = j
         /\ \A f \in AllParts : \E i \in 1..N : Order[i] = f
<1>1. CASE kind = "sample"
  <2>1. N = 24 /\ Order = KernelOrder /\ AllParts = flags BY <1>1 DEF N, Order, AllParts
  <2>2. \A i, j \in 1..24 : KernelOrder[i] = KernelOrder[j] => i = j
    <3>1. \A i \in 1..24 : Rank[KernelOrder[i]] = i BY Orders
    <3> QED BY <3>1
  <2>3. \A f \in Fields : \E i \in 1..24 : KernelOrder[i] = f
    BY Orders DEF Fields, Range
  <2> QED BY <1>1, <2>1, <2>2, <2>3, Orders DEF ConfigOK
<1>2. CASE kind # "sample"
  <2>1. N = 7 /\ Order = KernelSideOrder /\ AllParts = Parts BY <1>2 DEF N, Order, AllParts
  <2>2. \A i, j \in 1..7 : KernelSideOrder[i] = KernelSideOrder[j] => i = j
    <3>1. \A i \in 1..7 : SideRank[KernelSideOrder[i]] = i BY Orders
    <3> QED BY <3>1
  <2>3. \A f \in {"head", "tail"} \cup RecordIdFields : \E i \in 1..7 : KernelSideOrder[i] = f
    <3>1. /\ KernelSideOrder[1] = "head" /\ KernelSideOrder[2] = "tail"
          /\ KernelSideOrder[3] = "task" /\ KernelSideOrder[4] = "time"
          /\ KernelSideOrder[5] = "id" /\ KernelSideOrder[6] = "stream_id"
          /\ KernelSideOrder[7] = "cpu"
      BY DEF KernelSideOrder
    <3>2. 1 \in 1..7 /\ 2 \in 1..7 /\ 3 \in 1..7 /\ 4 \in 1..7 /\ 5 \in 1..7 /\ 6 \in 1..7 /\ 7 \in 1..7
      OBVIOUS
    <3> QED BY <3>1, <3>2 DEF RecordIdFields
  <2>4. Parts \subseteq {"head", "tail"} \cup RecordIdFields
    BY <1>2 DEF Parts, ConfigOK
  <2>5. \A f \in Parts : \E i \in 1..7 : KernelSideOrder[i] = f
    BY <2>3, <2>4
  <2>6. DOMAIN KernelSideOrder = 1..7 BY Orders
  <2> QED BY <2>1, <2>2, <2>5, <2>6
<1> QED BY <1>1, <1>2

\* The i-th part is the first of fs.
Foremost(i, fs) == i \in 1..N /\ Order[i] \in fs /\ \A j \in 1..(i - 1) : Order[j] \notin fs

LEMMA FirstIs ==
  ASSUME ConfigOK, NEW fs, fs \subseteq AllParts, fs # {}
  PROVE  \E i \in 1..N : Foremost(i, fs) /\ First(Order, fs) = Order[i]
<1> DEFINE T == {i \in 1..N : Order[i] \in fs}
<1>1. T # {} /\ T \subseteq Nat BY OrderFacts
<1>2. PICK m \in T : \A k \in T : m <= k
  <2> HIDE DEF T
  <2> QED BY <1>1, Least
<1>3. \A j \in 1..(m - 1) : Order[j] \notin fs
  <2> SUFFICES ASSUME NEW j \in 1..(m - 1), Order[j] \in fs PROVE FALSE OBVIOUS
  <2>1. N \in Nat /\ m \in 1..N BY OrderFacts
  <2>2. j \in T /\ ~(m <= j) BY <2>1
  <2> QED BY <1>2, <2>2
<1>4. \E i \in DOMAIN Order : Order[i] \in fs /\ \A j \in 1..(i - 1) : Order[j] \notin fs
  BY <1>3, OrderFacts
<1> DEFINE c == CHOOSE i \in DOMAIN Order : Order[i] \in fs /\ \A j \in 1..(i - 1) : Order[j] \notin fs
<1>5. c \in DOMAIN Order /\ Order[c] \in fs /\ \A j \in 1..(c - 1) : Order[j] \notin fs
  BY <1>4
<1>6. First(Order, fs) = Order[c] BY DEF First
<1> HIDE DEF c
<1> QED BY <1>5, <1>6, OrderFacts DEF Foremost

LEMMA ForemostIsOne ==
  ASSUME ConfigOK, NEW fs, NEW i, NEW j, Foremost(i, fs), Foremost(j, fs)
  PROVE  i = j
<1>1. i \in Int /\ j \in Int /\ i >= 1 /\ j >= 1 BY OrderFacts DEF Foremost
<1>2. ~(i < j) /\ ~(j < i) BY <1>1 DEF Foremost
<1> QED BY <1>1, <1>2

-----------------------------------------------------------------------------
(* The inductive invariant.                                                 *)

\* The i-th part that is written lies from pos[i] to pos[i + 1].
Shape(pos) ==
  /\ pos \in [1..(N + 1) -> Nat] /\ pos[1] = 0 /\ pos[N + 1] = rec.size
  /\ \A i, j \in 1..(N + 1) : i <= j => pos[i] <= pos[j]
  /\ \A i, j \in 1..(N + 1) :
       i <= j /\ (\A k \in i..(j - 1) : Order[k] \notin DOMAIN meant) => pos[i] = pos[j]
  /\ \A i \in 1..N : Order[i] \in DOMAIN meant =>
       \E atoms \in Put(Order[i]) : /\ meant[Order[i]] = Payload(atoms)
                                    /\ HeldAt(rec.at, pos[i], pos[i + 1], atoms)
  /\ kind = "sample" => \A i \in 1..(N + 1) : pos[i] % 8 = 0

\* While there is a part left, the cursor is where the first of them begins.
Cursor(pos) ==
  \A i \in 1..N : Foremost(i, AllParts \ DOMAIN got) => ptr = pos[i]

\* The parts are written, and then parsed, in their order.
Prefix(fs) ==
  /\ fs \subseteq AllParts
  /\ \A i, j \in 1..N : i < j /\ Order[j] \in fs /\ Order[i] \in AllParts => Order[i] \in fs

ParserInv ==
  /\ ConfigOK /\ BytesOK(rec)
  /\ Prefix(DOMAIN meant) /\ Prefix(DOMAIN got)
  /\ IF DOMAIN got = {} THEN ptr = 0 /\ reach = 0 ELSE DOMAIN meant = AllParts
  /\ \A f \in DOMAIN got : got[f] = meant[f]
  /\ kind = "sample" /\ DOMAIN meant = flags /\ DOMAIN got = flags => reach = rec.size
  /\ reach <= rec.size
  /\ \E pos : Shape(pos) /\ Cursor(pos)

LEMMA InvIsSafe == ParserInv => FieldsAreExact /\ StaysInRecord
BY DEF ParserInv, FieldsAreExact, StaysInRecord

LEMMA SameConfig ==
  ASSUME UNCHANGED config
  PROVE  /\ Order' = Order /\ N' = N /\ AllParts' = AllParts
         /\ \A f : Put(f)' = Put(f)
         /\ ConfigOK' = ConfigOK
         /\ \A i, fs : Foremost(i, fs)' = Foremost(i, fs)
<1>1. /\ base' = base /\ kind' = kind /\ id_all' = id_all /\ flags' = flags
      /\ format' = format /\ branch' = branch
  BY DEF config
<1>2. Order' = Order /\ N' = N BY <1>1 DEF Order, N
<1>3. AllParts' = AllParts BY <1>1 DEF AllParts, Parts
<1>4. ConfigOK' = ConfigOK BY <1>1 DEF ConfigOK
<1>5. ASSUME NEW f PROVE KernelAtoms(f)' = KernelAtoms(f)
  BY <1>1 DEF KernelAtoms, StatAtoms, BranchAtoms, NoBranches
<1>6. ASSUME NEW f PROVE KernelPart(f)' = KernelPart(f)
  BY <1>1 DEF KernelPart, KernelTail, StatAtoms, KernelId
<1>7. \A f : Put(f)' = Put(f) BY <1>1, <1>5, <1>6 DEF Put
<1>8. \A i, fs : Foremost(i, fs)' = Foremost(i, fs) BY <1>2 DEF Foremost
<1> QED BY <1>2, <1>3, <1>4, <1>7, <1>8

LEMMA PrefixAdds ==
  ASSUME ConfigOK, NEW fs, Prefix(fs), NEW i, Foremost(i, AllParts \ fs)
  PROVE  /\ Prefix(fs \cup {Order[i]})
         /\ \A j \in 1..N : j > i => Order[j] \notin fs \cup {Order[i]}
<1>1. /\ i \in 1..N /\ Order[i] \in AllParts \ fs
      /\ \A j \in 1..(i - 1) : Order[j] \notin AllParts \ fs
  BY DEF Foremost
<1>2. N \in Nat /\ \A a, b \in 1..N : Order[a] = Order[b] => a = b BY OrderFacts
<1>3. ASSUME NEW a \in 1..N, NEW b \in 1..N, a < b, Order[b] \in fs \cup {Order[i]}, Order[a] \in AllParts
      PROVE  Order[a] \in fs \cup {Order[i]}
  <2>1. CASE Order[b] \in fs BY <1>3, <2>1 DEF Prefix
  <2>2. CASE Order[b] = Order[i]
    <3>1. b = i BY <1>1, <1>2, <2>2
    <3>2. a \in 1..(i - 1) BY <1>1, <1>2, <1>3, <3>1
    <3> QED BY <1>1, <1>3, <3>2
  <2> QED BY <1>3, <2>1, <2>2
<1>4. ASSUME NEW j \in 1..N, j > i PROVE Order[j] \notin fs \cup {Order[i]}
  <2>1. Order[j] # Order[i] BY <1>1, <1>2, <1>4
  <2>2. Order[j] \notin fs
    <3> SUFFICES ASSUME Order[j] \in fs PROVE FALSE OBVIOUS
    <3>1. i < j BY <1>1, <1>2, <1>4
    <3> QED BY <1>1, <3>1 DEF Prefix
  <2> QED BY <2>1, <2>2
<1> QED BY <1>1, <1>3, <1>4 DEF Prefix

\* The kernel writes the next part, a multiple of 8 bytes in a sample.
LEMMA PartKeeps ==
  ASSUME ParserInv, NEW f, NEW atoms \in Put(f), IsAtoms(atoms), Write(f, atoms),
         AllParts \ DOMAIN meant # {}, f = First(Order, AllParts \ DOMAIN meant),
         kind = "sample" => \E n \in Nat : Sized(atoms, 8 * n)
  PROVE  ParserInv'
<1>0. /\ ConfigOK /\ BytesOK(rec) /\ Prefix(DOMAIN meant) /\ Prefix(DOMAIN got)
      /\ DOMAIN got = {} /\ ptr = 0 /\ reach = 0
  BY DEF ParserInv
<1>1. PICK pos : Shape(pos) /\ Cursor(pos) BY DEF ParserInv
<1>2. PICK i \in 1..N : Foremost(i, AllParts \ DOMAIN meant) /\ f = Order[i]
  BY <1>0, FirstIs
<1>3. /\ rec' = Lay(rec, atoms) /\ meant' = With(meant, f, Payload(atoms))
      /\ UNCHANGED config /\ ptr' = ptr /\ got' = got /\ reach' = reach
  BY DEF Write, parsed
<1>4. /\ BytesOK(rec') /\ rec.size <= rec'.size
      /\ \A p \in DOMAIN rec.at : p \in DOMAIN rec'.at /\ rec'.at[p] = rec.at[p]
      /\ HeldAt(rec'.at, rec.size, rec'.size, atoms)
  BY <1>0, <1>3, LayAdds
<1>5. /\ Order' = Order /\ N' = N /\ AllParts' = AllParts /\ ConfigOK'
      /\ \A g : Put(g)' = Put(g)
      /\ kind' = kind
  BY <1>0, <1>3, SameConfig DEF config
<1>6. f \notin DOMAIN meant /\ f \in AllParts BY <1>2 DEF Foremost
<1>7. /\ DOMAIN meant' = DOMAIN meant \cup {f}
      /\ meant'[f] = Payload(atoms)
      /\ \A g \in DOMAIN meant : meant'[g] = meant[g]
  BY <1>3, <1>6 DEF With
<1>8. /\ Prefix(DOMAIN meant \cup {f})
      /\ \A j \in 1..N : j > i => Order[j] \notin DOMAIN meant \cup {f}
  BY <1>0, <1>2, PrefixAdds
<1>9. N \in Nat /\ N > 0 /\ \A a, b \in 1..N : Order[a] = Order[b] => a = b
  BY <1>0, OrderFacts
<1> DEFINE s == rec.size t == rec'.size
<1>10. s \in Nat /\ t \in Nat /\ s <= t BY <1>0, <1>4 DEF BytesOK
<1>11. /\ pos \in [1..(N + 1) -> Nat] /\ pos[1] = 0 /\ pos[N + 1] = s
       /\ \A a, b \in 1..(N + 1) : a <= b => pos[a] <= pos[b]
  BY <1>1 DEF Shape
<1>12. \A a, b \in 1..(N + 1) :
         a <= b /\ (\A k \in a..(b - 1) : Order[k] \notin DOMAIN meant) => pos[a] = pos[b]
  BY <1>1 DEF Shape
<1>13. pos[i] = s
  <2>1. ASSUME NEW k \in i..((N + 1) - 1) PROVE Order[k] \notin DOMAIN meant
    <3>1. CASE k = i BY <1>2, <1>6, <3>1
    <3>2. CASE k # i
      <4>1. k \in 1..N /\ k > i BY <1>9, <3>2
      <4> QED BY <1>8, <4>1
    <3> QED BY <3>1, <3>2
  <2>2. i \in 1..(N + 1) /\ N + 1 \in 1..(N + 1) /\ i <= N + 1 BY <1>9
  <2> QED BY <1>11, <1>12, <2>1, <2>2
<1> HIDE DEF s, t
<1>n. PICK new : new = [j \in 1..(N + 1) |-> IF j <= i THEN pos[j] ELSE t] OBVIOUS
<1>14. /\ new \in [1..(N + 1) -> Nat] /\ new[1] = 0 /\ new[N + 1] = t
       /\ \A j \in 1..i : new[j] = pos[j]
       /\ \A j \in (i + 1)..(N + 1) : new[j] = t
  <2>1. \A j \in 1..(N + 1) : pos[j] \in Nat BY <1>11
  <2>2. new \in [1..(N + 1) -> Nat] BY <1>10, <1>n, <2>1
  <2>3. 1 \in 1..(N + 1) /\ 1 <= i /\ N + 1 \in 1..(N + 1) /\ ~(N + 1 <= i) BY <1>9
  <2>4. new[1] = 0 /\ new[N + 1] = t BY <1>11, <1>n, <2>3
  <2>5. \A j \in 1..i : new[j] = pos[j] BY <1>9, <1>n
  <2>6. \A j \in (i + 1)..(N + 1) : new[j] = t BY <1>9, <1>n
  <2> QED BY <2>2, <2>4, <2>5, <2>6
<1>15. ASSUME NEW a \in 1..(N + 1), NEW b \in 1..(N + 1), a <= b
       PROVE  new[a] <= new[b]
  <2>1. CASE b <= i
    <3>1. a \in 1..i /\ b \in 1..i BY <1>9, <1>15, <2>1
    <3> QED BY <1>11, <1>14, <1>15, <3>1
  <2>2. CASE a > i
    <3>1. a \in (i + 1)..(N + 1) /\ b \in (i + 1)..(N + 1) BY <1>9, <1>15, <2>2
    <3> QED BY <1>10, <1>14, <3>1
  <2>3. CASE a <= i /\ b > i
    <3>1. a \in 1..i /\ b \in (i + 1)..(N + 1) /\ i \in 1..(N + 1) BY <1>9, <2>3
    <3>2. new[a] = pos[a] /\ new[b] = t BY <1>14, <3>1
    <3>3. pos[a] <= pos[i] BY <1>11, <2>3, <3>1
    <3>4. pos[a] \in Nat BY <1>11
    <3> QED BY <1>10, <1>13, <3>2, <3>3, <3>4
  <2>4. i \in Int BY <1>9
  <2> QED BY <1>9, <2>1, <2>2, <2>3, <2>4
<1>16. ASSUME NEW a \in 1..(N + 1), NEW b \in 1..(N + 1), a <= b,
              \A k \in a..(b - 1) : Order[k] \notin DOMAIN meant'
       PROVE  new[a] = new[b]
  <2>0. \A k \in a..(b - 1) : Order[k] \notin DOMAIN meant BY <1>7, <1>16
  <2>1. CASE b <= i
    <3>1. a \in 1..i /\ b \in 1..i BY <1>9, <1>16, <2>1
    <3>2. pos[a] = pos[b] BY <1>12, <1>16, <2>0
    <3> QED BY <1>14, <3>1, <3>2
  <2>2. CASE a > i
    <3>1. a \in (i + 1)..(N + 1) /\ b \in (i + 1)..(N + 1) BY <1>9, <1>16, <2>2
    <3> QED BY <1>14, <3>1
  <2>3. CASE a <= i /\ b > i
    <3>1. i \in a..(b - 1) BY <1>9, <2>3
    <3> QED BY <1>2, <1>7, <1>16, <3>1
  <2>4. i \in Int BY <1>9
  <2> QED BY <1>9, <2>1, <2>2, <2>3, <2>4
<1>17. ASSUME NEW j \in 1..N, Order[j] \in DOMAIN meant'
       PROVE  \E x \in Put(Order[j]) : /\ meant'[Order[j]] = Payload(x)
                                       /\ HeldAt(rec'.at, new[j], new[j + 1], x)
  <2>1. CASE j = i
    <3>1. new[j] = s /\ new[j + 1] = t
      <4>1. j \in 1..i /\ j + 1 \in (i + 1)..(N + 1) BY <1>9, <2>1
      <4> QED BY <1>13, <1>14, <2>1, <4>1
    <3> QED BY <1>2, <1>4, <1>7, <2>1, <3>1 DEF s, t
  <2>2. CASE j # i
    <3>1. Order[j] # f BY <1>2, <1>9, <2>2
    <3>2. Order[j] \in DOMAIN meant BY <1>7, <1>17, <3>1
    <3>3. ~(j > i) BY <1>8, <3>2
    <3>4. j \in 1..i /\ j + 1 \in 1..i BY <1>9, <2>2, <3>3
    <3>5. PICK x \in Put(Order[j]) : /\ meant[Order[j]] = Payload(x)
                                     /\ HeldAt(rec.at, pos[j], pos[j + 1], x)
      BY <1>1, <3>2 DEF Shape
    <3>6. HeldAt(rec'.at, pos[j], pos[j + 1], x) BY <1>4, <3>5, HeldStays
    <3> QED BY <1>7, <1>14, <3>2, <3>4, <3>5, <3>6
  <2> QED BY <2>1, <2>2
<1>18. ASSUME kind = "sample", NEW j \in 1..(N + 1) PROVE new[j] % 8 = 0
  <2>1. \A k \in 1..(N + 1) : pos[k] % 8 = 0 BY <1>1, <1>18 DEF Shape
  <2>2. CASE j <= i
    <3>1. j \in 1..i BY <1>9, <2>2
    <3> QED BY <1>14, <2>1, <3>1
  <2>3. CASE ~(j <= i)
    <3>1. j \in (i + 1)..(N + 1) BY <1>9, <2>3
    <3>2. s % 8 = 0
      <4>1. N + 1 \in 1..(N + 1) BY <1>9
      <4> QED BY <1>11, <2>1, <4>1
    <3>3. t % 8 = 0
      <4>1. PICK n \in Nat : Sized(atoms, 8 * n) BY <1>18
      <4>2. t = s + 8 * n BY <1>4, <4>1 DEF Sized, s, t
      <4> QED BY <1>10, <3>2, <4>2
    <3> QED BY <1>14, <3>1, <3>3
  <2> QED BY <2>2, <2>3
<1>19. Shape(new)'
  <2>1. t = rec.size' BY DEF t
  <2> QED BY <1>5, <1>14, <1>15, <1>16, <1>17, <1>18, <2>1 DEF Shape
<1>20. Cursor(new)'
  <2> SUFFICES ASSUME NEW j \in 1..N, Foremost(j, AllParts \ DOMAIN got) PROVE ptr = new[j]
    BY <1>3, <1>5 DEF Cursor, Foremost
  <2>1. \A k \in 1..(j - 1) : Order[k] \notin DOMAIN meant'
    <3>1. \A k \in 1..(j - 1) : Order[k] \notin AllParts BY <1>0 DEF Foremost
    <3>2. DOMAIN meant' \subseteq AllParts BY <1>7, <1>8 DEF Prefix
    <3> QED BY <3>1, <3>2
  <2>2. 1 \in 1..(N + 1) /\ j \in 1..(N + 1) /\ 1 <= j BY <1>9
  <2>3. new[1] = new[j] BY <1>16, <2>1, <2>2
  <2> QED BY <1>0, <1>14, <2>3
<1>21. Prefix(DOMAIN meant)' /\ Prefix(DOMAIN got)'
  BY <1>0, <1>3, <1>5, <1>7, <1>8 DEF Prefix
<1>22. ~(kind' = "sample" /\ DOMAIN meant' = flags' /\ DOMAIN got' = flags')
  BY <1>0, <1>3, <1>7
<1>23. reach' <= rec'.size BY <1>0, <1>3, <1>10 DEF t
<1> QED BY <1>0, <1>3, <1>4, <1>5, <1>19, <1>20, <1>21, <1>22, <1>23 DEF ParserInv

\* No other part is left.
Final(f) == \A g \in AllParts \ DOMAIN got : g = f

\* What is taken is what was written, up to q.
Exact(f, q, atoms, vals, to, end) ==
  /\ vals = Payload(atoms) /\ end \in Nat /\ end <= q
  /\ kind = "sample" => end = q
  /\ to = q \/ Final(f)

\* The part f is next, and was written at the cursor.
Next(f) ==
  /\ DOMAIN meant = AllParts /\ AllParts \ DOMAIN got # {}
  /\ f = First(Order, AllParts \ DOMAIN got)

Found(q, atoms) ==
  /\ HeldAt(rec.at, ptr, q, atoms) /\ ptr \in Nat /\ q \in Nat
  /\ kind = "sample" => ptr % 8 = 0

\* The parser takes the next part, of which it knows that it is where the cursor is.
LEMMA TakeKeeps ==
  ASSUME ParserInv, NEW f, NEW vals, NEW to, NEW end, Take(f, vals, to, end), Next(f),
         \A q, atoms : atoms \in Put(f) /\ Found(q, atoms) => Exact(f, q, atoms, vals, to, end)
  PROVE  ParserInv'
<1>a. /\ DOMAIN meant = AllParts /\ AllParts \ DOMAIN got # {}
      /\ f = First(Order, AllParts \ DOMAIN got)
  BY DEF Next
<1>0. /\ ConfigOK /\ BytesOK(rec) /\ Prefix(DOMAIN meant) /\ Prefix(DOMAIN got)
      /\ \A g \in DOMAIN got : got[g] = meant[g]
  BY DEF ParserInv
<1>1. PICK pos : Shape(pos) /\ Cursor(pos) BY DEF ParserInv
<1>2. PICK i \in 1..N : Foremost(i, AllParts \ DOMAIN got) /\ f = Order[i]
  BY <1>0, <1>a, FirstIs
<1>3. /\ got' = With(got, f, vals) /\ ptr' = to /\ reach' = end
      /\ UNCHANGED config /\ rec' = rec /\ meant' = meant
  BY DEF Take
<1>4. /\ Order' = Order /\ N' = N /\ AllParts' = AllParts /\ ConfigOK'
      /\ \A g : Put(g)' = Put(g)
      /\ kind' = kind /\ flags' = flags
  BY <1>0, <1>3, SameConfig DEF config
<1>5. f \notin DOMAIN got /\ f \in AllParts /\ f \in DOMAIN meant BY <1>2, <1>a DEF Foremost
<1>6. /\ DOMAIN got' = DOMAIN got \cup {f}
      /\ got'[f] = vals
      /\ \A g \in DOMAIN got : got'[g] = got[g]
  BY <1>3, <1>5 DEF With
<1>7. /\ Prefix(DOMAIN got \cup {f})
      /\ \A j \in 1..N : j > i => Order[j] \notin DOMAIN got \cup {f}
  BY <1>0, <1>2, PrefixAdds
<1>8. N \in Nat /\ N > 0 /\ \A a, b \in 1..N : Order[a] = Order[b] => a = b
  BY <1>0, OrderFacts
<1>9. /\ pos \in [1..(N + 1) -> Nat] /\ pos[N + 1] = rec.size
      /\ \A a, b \in 1..(N + 1) : a <= b => pos[a] <= pos[b]
      /\ \A a, b \in 1..(N + 1) :
           a <= b /\ (\A k \in a..(b - 1) : Order[k] \notin DOMAIN meant) => pos[a] = pos[b]
  BY <1>1 DEF Shape
<1>10. ptr = pos[i] BY <1>1, <1>2 DEF Cursor
<1> DEFINE q == pos[i + 1]
<1>11. i \in 1..(N + 1) /\ i + 1 \in 1..(N + 1) /\ q \in Nat /\ ptr \in Nat BY <1>8, <1>9, <1>10
<1>12. PICK atoms \in Put(f) : meant[f] = Payload(atoms) /\ HeldAt(rec.at, ptr, q, atoms)
  BY <1>1, <1>2, <1>5, <1>10 DEF Shape
<1>13. kind = "sample" => ptr % 8 = 0 BY <1>1, <1>10, <1>11 DEF Shape
<1>14. /\ vals = meant[f] /\ end \in Nat /\ end <= q
       /\ kind = "sample" => end = q
       /\ to = q \/ Final(f)
  <2> HIDE DEF q
  <2>1. Found(q, atoms) BY <1>11, <1>12, <1>13 DEF Found
  <2> QED BY <1>12, <2>1 DEF Exact
<1>15. end <= rec.size
  <2>1. N + 1 \in 1..(N + 1) /\ i + 1 <= N + 1 BY <1>8
  <2>2. q <= rec.size BY <1>9, <1>11, <2>1
  <2>3. rec.size \in Nat BY <1>0 DEF BytesOK
  <2> HIDE DEF q
  <2> QED BY <1>11, <1>14, <2>2, <2>3
<1>16. \A g \in DOMAIN got' : got'[g] = meant'[g] BY <1>0, <1>3, <1>6, <1>14
\* What comes after the i-th part and before the next one takes no place.
<1>17. ASSUME NEW j \in (i + 1)..(N + 1),
              \A k \in (i + 1)..(j - 1) : Order[k] \notin AllParts \ (DOMAIN got \cup {f})
       PROVE  pos[i + 1] = pos[j]
  <2>1. ASSUME NEW k \in (i + 1)..(j - 1) PROVE Order[k] \notin DOMAIN meant
    <3>1. k \in 1..N /\ k > i BY <1>8
    <3>2. Order[k] \notin DOMAIN got \cup {f} BY <1>7, <3>1
    <3> QED BY <1>17, <1>a, <3>2
  <2>2. j \in 1..(N + 1) /\ i + 1 <= j BY <1>8
  <2> QED BY <1>9, <1>11, <2>1, <2>2
<1>18. Shape(pos)' BY <1>1, <1>3, <1>4 DEF Shape
<1>19. Cursor(pos)'
  <2> SUFFICES ASSUME NEW j \in 1..N, Foremost(j, AllParts \ DOMAIN got') PROVE to = pos[j]
    BY <1>3, <1>4 DEF Cursor, Foremost
  <2>1. Order[j] \in AllParts \ DOMAIN got /\ Order[j] # f BY <1>6 DEF Foremost
  <2>2. ~Final(f) BY <2>1 DEF Final
  <2>3. ~(j < i)
    <3> SUFFICES ASSUME j < i PROVE FALSE OBVIOUS
    <3>1. j \in 1..(i - 1) BY <1>8
    <3> QED BY <1>2, <2>1, <3>1 DEF Foremost
  <2>4. j \in (i + 1)..(N + 1) BY <1>2, <1>8, <2>1, <2>3
  <2>5. \A k \in (i + 1)..(j - 1) : Order[k] \notin AllParts \ (DOMAIN got \cup {f})
    <3>1. \A k \in (i + 1)..(j - 1) : k \in 1..(j - 1) BY <1>8
    <3> QED BY <1>6, <3>1 DEF Foremost
  <2>6. pos[i + 1] = pos[j] BY <1>17, <2>4, <2>5
  <2> QED BY <1>14, <2>2, <2>6
<1>20. kind' = "sample" /\ DOMAIN meant' = flags' /\ DOMAIN got' = flags' => reach' = rec'.size
  <2> SUFFICES ASSUME kind = "sample", DOMAIN got' = flags PROVE end = rec.size
    BY <1>3, <1>4
  <2>1. AllParts = flags BY DEF AllParts
  <2>2. N + 1 \in (i + 1)..(N + 1) BY <1>8
  <2>3. pos[i + 1] = pos[N + 1] BY <1>6, <1>17, <2>1, <2>2
  <2> QED BY <1>9, <1>14, <2>3
<1>21. Prefix(DOMAIN meant)' /\ Prefix(DOMAIN got)'
  BY <1>0, <1>3, <1>4, <1>6, <1>7 DEF Prefix
<1>22. BytesOK(rec)' /\ (reach <= rec.size)' BY <1>0, <1>3, <1>15 DEF BytesOK
<1>23. DOMAIN got' # {} /\ DOMAIN meant' = AllParts' BY <1>3, <1>4, <1>6, <1>a
<1> QED BY <1>4, <1>16, <1>18, <1>19, <1>20, <1>21, <1>22, <1>23 DEF ParserInv

-----------------------------------------------------------------------------
(* Reading single atoms and arrays.                                         *)

LEMMA GetIs ==
  ASSUME NEW p, NEW a, p \in DOMAIN rec.at, rec.at[p] = a
  PROVE  Get(p, a.w) = a.val
BY DEF Get

\* An atom before others.
LEMMA HeldFirst ==
  ASSUME NEW cells, NEW p, NEW q, NEW a, a.w \in Nat, a.w > 0, NEW t, IsAtoms(t),
         HeldAt(cells, p, q, <<a>> \o t)
  PROVE  p \in Nat /\ p \in DOMAIN cells /\ cells[p] = a /\ HeldAt(cells, p + a.w, q, t)
<1>1. IsAtoms(<<a>>) BY OneAtom
<1>2. PICK r \in Nat : HeldAt(cells, p, r, <<a>>) /\ HeldAt(cells, r, q, t) BY <1>1, HeldCat
<1> QED BY <1>2, HeldOne

LEMMA HeldTwo ==
  ASSUME NEW cells, NEW p, NEW q, NEW a, NEW b, HeldAt(cells, p, q, <<a, b>>)
  PROVE  /\ p \in Nat /\ p \in DOMAIN cells /\ cells[p] = a
         /\ p + a.w \in DOMAIN cells /\ cells[p + a.w] = b /\ q = p + a.w + b.w
BY DEF HeldAt, Offsets

LEMMA HeldThree ==
  ASSUME NEW cells, NEW p, NEW q, NEW a, NEW b, NEW c, HeldAt(cells, p, q, <<a, b, c>>)
  PROVE  /\ p \in Nat /\ p \in DOMAIN cells /\ cells[p] = a
         /\ p + a.w \in DOMAIN cells /\ cells[p + a.w] = b
         /\ p + a.w + b.w \in DOMAIN cells /\ cells[p + a.w + b.w] = c /\ q = p + a.w + b.w + c.w
BY DEF HeldAt, Offsets

Loud(of) == of \notin {"nr", "pad"}

\* Values of one width.
Array(s, w) == IsAtoms(s) /\ Wide(s, w) /\ \A i \in 1..Len(s) : ~Silent(s[i])

\* An array in a record: what is read of it is what its reader is to be told.
LEMMA ArrayRead ==
  ASSUME NEW p, NEW q, NEW s, HeldAt(rec.at, p, q, s), NEW w \in Nat, Array(s, w)
  PROVE  /\ p \in Nat /\ q = p + w * Len(s)
         /\ Payload(s) = GetAll(p, w, Len(s))
         /\ \A i \in 1..Len(s) : Get(p + w * (i - 1), w) = s[i].val
<1>a. /\ IsAtoms(s) /\ Wide(s, w)
      /\ \A i \in 1..Len(s) : ~Silent(s[i])
  BY DEF Array
<1>1. /\ p \in Nat /\ q = p + w * Len(s)
      /\ \A i \in 1..Len(s) : p + w * (i - 1) \in DOMAIN rec.at /\ rec.at[p + w * (i - 1)] = s[i]
  BY <1>a, HeldArray
<1>2. \A i \in 1..Len(s) : Get(p + w * (i - 1), w) = s[i].val BY <1>a, <1>1 DEF Get, Wide
<1>3. Payload(s) = [i \in 1..Len(s) |-> s[i].val] BY <1>a, PayloadAll
<1>4. Payload(s) = GetAll(p, w, Len(s)) BY <1>2, <1>3 DEF GetAll
<1> QED BY <1>1, <1>2, <1>4

LEMMA WordsAre ==
  ASSUME NEW of, NEW n \in Nat
  PROVE  /\ IsAtoms(Words(of, n)) /\ Len(Words(of, n)) = n
         /\ \A i \in 1..n : Words(of, n)[i] = Atom(8, of, i)
<1> DEFINE s == Words(of, n)
<1>1. s = [i \in 1..n |-> Atom(8, of, i)] BY DEF Words
<1> HIDE DEF s
<1>2. DOMAIN s = 1..n /\ Len(s) = n /\ \A i \in 1..n : s[i] = Atom(8, of, i) BY <1>1
<1>3. s = [i \in 1..n |-> s[i]] BY <1>1
<1>4. IsAtoms(s) BY <1>2, <1>3 DEF IsAtoms, Atom
<1> QED BY <1>2, <1>4 DEF s

LEMMA WordsRead ==
  ASSUME NEW of, Loud(of), NEW n \in Nat, NEW p, NEW q, HeldAt(rec.at, p, q, Words(of, n))
  PROVE  p \in Nat /\ q = p + 8 * n /\ Payload(Words(of, n)) = GetAll(p, 8, n)
<1> DEFINE s == Words(of, n)
<1>1. IsAtoms(s) /\ Len(s) = n /\ \A i \in 1..n : s[i] = Atom(8, of, i) BY WordsAre
<1>2. Array(s, 8) BY <1>1 DEF Atom, Val, Silent, Loud, Array, Wide
<1>3. HeldAt(rec.at, p, q, s) OBVIOUS
<1> HIDE DEF s
<1>4. p \in Nat /\ q = p + 8 * Len(s) /\ Payload(s) = GetAll(p, 8, Len(s))
  BY <1>2, <1>3, ArrayRead
<1> QED BY <1>1, <1>4 DEF s

LEMMA BlobAre ==
  ASSUME NEW of, NEW n \in Nat
  PROVE  IsAtoms(Blob(of, n))
<1>1. CASE n = 0 BY <1>1, NoAtoms DEF Blob
<1>2. CASE n > 0
  <2>1. Atom(n, of, n).w = n BY DEF Atom
  <2>2. IsAtoms(<<Atom(n, of, n)>>) BY <1>2, <2>1, OneAtom
  <2> QED BY <1>2, <2>2 DEF Blob
<1> QED BY <1>1, <1>2

LEMMA BlobRead ==
  ASSUME NEW of, Loud(of), NEW n \in Nat, NEW p, NEW q, HeldAt(rec.at, p, q, Blob(of, n))
  PROVE  p \in Nat /\ q = p + n /\ Payload(Blob(of, n)) = GetBytes(p, n)
<1>1. CASE n = 0
  <2>1. Blob(of, n) = <<>> BY <1>1 DEF Blob
  <2>2. p = q /\ p \in Nat BY <2>1, HeldNone
  <2> QED BY <1>1, <2>1, <2>2, PayloadNone DEF GetBytes
<1>2. CASE n > 0
  <2> DEFINE a == Atom(n, of, n)
  <2>1. Blob(of, n) = <<a>> BY <1>2 DEF Blob
  <2>2. a.w = n /\ ~Silent(a) BY DEF Atom, Val, Silent, Loud
  <2> HIDE DEF a
  <2>3. p \in Nat /\ q = p + n /\ p \in DOMAIN rec.at /\ rec.at[p] = a BY <2>1, <2>2, HeldOne
  <2>4. Get(p, n) = a.val BY <2>2, <2>3, GetIs
  <2>5. Payload(<<a>>) = <<a.val>> BY <2>2, PayloadOne
  <2> QED BY <1>2, <2>1, <2>3, <2>4, <2>5 DEF GetBytes
<1> QED BY <1>1, <1>2

LEMMA WordRead ==
  ASSUME NEW f, Loud(f), NEW q, HeldAt(rec.at, ptr, q, <<Word(f)>>)
  PROVE  ptr \in Nat /\ q = ptr + 8 /\ Payload(<<Word(f)>>) = <<Get(ptr, 8)>>
<1> DEFINE a == Word(f)
<1>1. a.w = 8 /\ ~Silent(a) BY DEF Word, Atom, Val, Silent, Loud
<1> HIDE DEF a
<1>2. HeldAt(rec.at, ptr, q, <<a>>) BY DEF a
<1>3. ptr \in Nat /\ q = ptr + 8 /\ ptr \in DOMAIN rec.at /\ rec.at[ptr] = a BY <1>1, <1>2, HeldOne
<1>4. Get(ptr, 8) = a.val BY <1>1, <1>3, GetIs
<1>5. Payload(<<a>>) = <<a.val>> BY <1>1, PayloadOne
<1> QED BY <1>3, <1>4, <1>5 DEF a

\* A count, then as much as it counts.
LEMMA CountRead ==
  ASSUME NEW w \in Nat, w > 0, NEW n, NEW t, IsAtoms(t), NEW p, NEW q,
         HeldAt(rec.at, p, q, <<Atom(w, "nr", n)>> \o t)
  PROVE  /\ p \in Nat /\ Get(p, w).n = n /\ HeldAt(rec.at, p + w, q, t)
         /\ Payload(<<Atom(w, "nr", n)>> \o t) = Payload(t)
<1> DEFINE a == Atom(w, "nr", n)
<1>1. a.w = w /\ Silent(a) /\ a.val.n = n BY DEF Atom, Val, Silent
<1> HIDE DEF a
<1>2. HeldAt(rec.at, p, q, <<a>> \o t) BY DEF a
<1>3. p \in Nat /\ p \in DOMAIN rec.at /\ rec.at[p] = a /\ HeldAt(rec.at, p + w, q, t)
  BY <1>1, <1>2, HeldFirst
<1>4. Get(p, w) = a.val BY <1>1, <1>3, GetIs
<1>5. Payload(<<a>> \o t) = Payload(t) BY <1>1, PayloadAfter
<1> QED BY <1>1, <1>3, <1>4, <1>5 DEF a

\* No more than a count, which is 0.
LEMMA ZeroRead ==
  ASSUME NEW q, HeldAt(rec.at, ptr, q, <<Nr(0)>>)
  PROVE  ptr \in Nat /\ q = ptr + 8 /\ Len64 = 0 /\ Payload(<<Nr(0)>>) = <<>>
<1> DEFINE a == Nr(0)
<1>1. a.w = 8 /\ Silent(a) /\ a.val.n = 0 BY DEF Nr, Atom, Val, Silent
<1> HIDE DEF a
<1>2. HeldAt(rec.at, ptr, q, <<a>>) BY DEF a
<1>3. ptr \in Nat /\ q = ptr + 8 /\ ptr \in DOMAIN rec.at /\ rec.at[ptr] = a BY <1>1, <1>2, HeldOne
<1>4. Get(ptr, 8) = a.val BY <1>1, <1>3, GetIs
<1>5. Payload(<<a>>) = <<>> BY <1>1, PayloadOne
<1> QED BY <1>1, <1>3, <1>4, <1>5 DEF a, Len64
-----------------------------------------------------------------------------
(* The words of a read.                                                     *)

Bit(f) == St!One(f, format)

LEMMA Bits == \A f : Bit(f) \in {0, 1}
BY DEF Bit, St!One

LEMMA CatNat ==
  ASSUME NEW s \in Seq(Nat), NEW t \in Seq(Nat)
  PROVE  s \o t \in Seq(Nat) /\ Len(s \o t) = Len(s) + Len(t)
BY ConcatProperties

LEMMA CatHead ==
  ASSUME NEW v \in Nat, NEW t \in Seq(Nat)
  PROVE  (<<v>> \o t)[1] = v
<1>1. <<v>> \in Seq(Nat) /\ Len(<<v>>) = 1 /\ <<v>>[1] = v OBVIOUS
<1> QED BY <1>1, ConcatProperties

IsEvent(e) == /\ e.id \in Nat /\ e.count \in Nat /\ e.lost \in Nat
              /\ e.enabled \in Nat /\ e.running \in Nat

LEMMA OptNat ==
  ASSUME NEW f, NEW v \in Nat
  PROVE  St!Opt(f, format, v) \in Seq(Nat) /\ Len(St!Opt(f, format, v)) = Bit(f)
BY DEF St!Opt, Bit, St!One

LEMMA TimesAre ==
  ASSUME NEW e, IsEvent(e)
  PROVE  /\ St!Times(e, format) \in Seq(Nat)
         /\ Len(St!Times(e, format)) = Bit("enabled") + Bit("running")
<1> DEFINE t == St!Opt("enabled", format, e.enabled) u == St!Opt("running", format, e.running)
<1>1. /\ t \in Seq(Nat) /\ Len(t) = Bit("enabled")
      /\ u \in Seq(Nat) /\ Len(u) = Bit("running")
  BY OptNat DEF IsEvent
<1>2. St!Times(e, format) = t \o u BY DEF St!Times
<1> HIDE DEF t, u
<1> QED BY <1>1, <1>2, CatNat

LEMMA EntryIs ==
  ASSUME NEW e, IsEvent(e)
  PROVE  /\ St!Entry(e, format) \in Seq(Nat)
         /\ Len(St!Entry(e, format)) = 1 + Bit("id") + Bit("lost")
<1> DEFINE c == <<e.count>> i == St!Opt("id", format, e.id) l == St!Opt("lost", format, e.lost)
<1>1. /\ c \in Seq(Nat) /\ Len(c) = 1
      /\ i \in Seq(Nat) /\ Len(i) = Bit("id")
      /\ l \in Seq(Nat) /\ Len(l) = Bit("lost")
  BY OptNat DEF IsEvent
<1>2. St!Entry(e, format) = (c \o i) \o l BY DEF St!Entry
<1> HIDE DEF c, i, l
<1>b. Bit("id") \in {0, 1} /\ Bit("lost") \in {0, 1} BY Bits
<1>3. c \o i \in Seq(Nat) /\ Len(c \o i) = 1 + Bit("id") BY <1>1, CatNat
<1>4. (c \o i) \o l \in Seq(Nat) /\ Len((c \o i) \o l) = 1 + Bit("id") + Bit("lost")
  BY <1>1, <1>3, <1>b, CatNat
<1> QED BY <1>2, <1>4

LEMMA FlatTwo ==
  ASSUME NEW a, NEW b
  PROVE  St!FlattenSeq(<<a, b>>) = a \o b
<1> DEFINE s == <<a, b>>
           R(f) == f = [i \in 1..2 |-> IF i = 1 THEN s[i] ELSE f[i - 1] \o s[i]]
           g == [i \in 1..2 |-> IF i = 1 THEN a ELSE a \o b]
           h == CHOOSE f : R(f)
<1>1. R(g)
  <2>1. g[1] = a /\ s[1] = a /\ s[2] = b OBVIOUS
  <2>2. \A i \in 1..2 : (IF i = 1 THEN a ELSE a \o b) = IF i = 1 THEN s[i] ELSE g[i - 1] \o s[i]
    <3>1. \A i \in 1..2 : i # 1 => i = 2 /\ i - 1 = 1 OBVIOUS
    <3> HIDE DEF g
    <3> QED BY <2>1, <3>1
  <2> QED BY <2>2
<1>2. R(h)
  <2> HIDE DEF R
  <2> QED BY <1>1
<1>3. Len(s) = 2 OBVIOUS
<1>4. St!FlattenSeq(s) = h[2] BY <1>3 DEF St!FlattenSeq
<1>5. s[1] = a /\ s[2] = b OBVIOUS
<1> HIDE DEF h, s
<1>6. h = [i \in 1..2 |-> IF i = 1 THEN s[i] ELSE h[i - 1] \o s[i]] BY <1>2
<1>7. 1 \in 1..2 /\ 2 \in 1..2 /\ 2 - 1 = 1 /\ 2 # 1 OBVIOUS
<1>8. h[1] = a /\ h[2] = h[1] \o b
  <2> HIDE DEF R
  <2>1. h[1] = s[1] BY <1>6, <1>7
  <2>2. h[2] = h[2 - 1] \o s[2] BY <1>6, <1>7
  <2> QED BY <1>5, <1>7, <2>1, <2>2
<1> QED BY <1>4, <1>8 DEF s

\* How many there are, and that the parser, which counts them by the first, agrees.
LEMMA GroupWords ==
  ASSUME NEW g, NEW d, NEW e, g = <<d, e>>, IsEvent(d), IsEvent(e)
  PROVE  LET w == St!KernelWords(g, format)
         IN  /\ w \in Seq(Nat) /\ Len(w) <= 20 /\ Len(w) > 0
             /\ \A buf : buf[1] = w[1] => St!WordsParsed(buf, format) = Len(w)
<1> DEFINE w == St!KernelWords(g, format)
           t == St!Times(d, format) x == St!Entry(d, format) y == St!Entry(e, format)
           k == 1 + Bit("id") + Bit("lost") m == Bit("enabled") + Bit("running")
<1>1. /\ t \in Seq(Nat) /\ Len(t) = m
      /\ x \in Seq(Nat) /\ Len(x) = k /\ y \in Seq(Nat) /\ Len(y) = k
  BY TimesAre, EntryIs
<1>2. /\ Bit("id") \in {0, 1} /\ Bit("lost") \in {0, 1}
      /\ Bit("enabled") \in {0, 1} /\ Bit("running") \in {0, 1}
  BY Bits
<1>3. CASE "group" \in format
  <2>1. St!FlattenSeq([j \in DOMAIN g |-> St!Entry(g[j], format)]) = x \o y
    <3>1. [j \in DOMAIN g |-> St!Entry(g[j], format)] = <<x, y>>
      <4>1. DOMAIN g = 1..2 /\ g[1] = d /\ g[2] = e OBVIOUS
      <4>2. [j \in 1..2 |-> St!Entry(g[j], format)] = <<St!Entry(g[1], format), St!Entry(g[2], format)>>
        OBVIOUS
      <4> QED BY <4>1, <4>2
    <3> QED BY <3>1, FlatTwo
  <2>2. Len(g) = 2 /\ g[1] = d OBVIOUS
  <2>a. w = (<<Len(g)>> \o St!Times(g[1], format))
              \o St!FlattenSeq([j \in DOMAIN g |-> St!Entry(g[j], format)])
    BY <1>3 DEF St!KernelWords
  <2>3. w = (<<2>> \o t) \o (x \o y)
    <3> HIDE DEF w, x, y
    <3> QED BY <2>1, <2>2, <2>a
  <2> HIDE DEF w, t, x, y
  <2>4. x \o y \in Seq(Nat) /\ Len(x \o y) = k + k BY <1>1, CatNat
  <2>5. <<2>> \in Seq(Nat) /\ Len(<<2>>) = 1 OBVIOUS
  <2>6. <<2>> \o t \in Seq(Nat) /\ Len(<<2>> \o t) = 1 + m BY <1>1, <2>5, CatNat
  <2>7. w \in Seq(Nat) /\ Len(w) = 1 + m + (k + k) BY <2>3, <2>4, <2>6, CatNat
  <2>8. w[1] = 2
    <3>1. (<<2>> \o t)[1] = 2 BY <1>1, CatHead
    <3>2. w[1] = (<<2>> \o t)[1] BY <1>2, <2>3, <2>4, <2>6, ConcatProperties
    <3> QED BY <3>1, <3>2
  <2>9. ASSUME NEW buf, buf[1] = 2 PROVE St!WordsParsed(buf, format) = Len(w)
    <3>1. St!WordsParsed(buf, format) = St!EntryAt(3, format) - 1 BY <1>3, <2>9 DEF St!WordsParsed
    <3>2. St!EntryAt(3, format) = 2 + Bit("enabled") + Bit("running") + 2 * k
      BY <1>2 DEF St!EntryAt, Bit
    <3> QED BY <1>2, <2>7, <3>1, <3>2
  <2>10. Len(w) <= 20 /\ Len(w) > 0 BY <1>2, <2>7
  <2> HIDE DEF k, m
  <2> QED BY <2>7, <2>8, <2>9, <2>10 DEF w
<1>4. CASE "group" \notin format
  <2> DEFINE i == St!Opt("id", format, d.id) l == St!Opt("lost", format, d.lost)
  <2>1. i \in Seq(Nat) /\ Len(i) = Bit("id") /\ l \in Seq(Nat) /\ Len(l) = Bit("lost")
    BY OptNat DEF IsEvent
  <2>2. g[1] = d /\ d.count \in Nat BY DEF IsEvent
  <2>3. w = ((<<d.count>> \o t) \o i) \o l BY <1>4, <2>2 DEF St!KernelWords
  <2>4. <<d.count>> \in Seq(Nat) /\ Len(<<d.count>>) = 1 BY <2>2
  <2> HIDE DEF w, t, i, l
  <2>5. <<d.count>> \o t \in Seq(Nat) /\ Len(<<d.count>> \o t) = 1 + m BY <1>1, <2>4, CatNat
  <2>6. (<<d.count>> \o t) \o i \in Seq(Nat) /\ Len((<<d.count>> \o t) \o i) = 1 + m + Bit("id")
    BY <2>1, <2>5, CatNat
  <2>7. w \in Seq(Nat) /\ Len(w) = 1 + m + Bit("id") + Bit("lost") BY <2>1, <2>3, <2>6, CatNat
  <2>8. \A buf : St!WordsParsed(buf, format) = Len(w)
    BY <1>2, <1>4, <2>7 DEF St!WordsParsed, Bit
  <2> QED BY <1>2, <2>7, <2>8 DEF w
<1> QED BY <1>3, <1>4 DEF w

\* The same of one event.
LEMMA AloneWords ==
  ASSUME NEW d, IsEvent(d), "group" \notin format
  PROVE  LET w == St!KernelWords(<<d>>, format)
         IN  /\ w \in Seq(Nat) /\ Len(w) <= 9 /\ Len(w) > 0
             /\ \A buf : St!WordsParsed(buf, format) = Len(w)
<1> DEFINE w == St!KernelWords(<<d>>, format) t == St!Times(d, format)
           m == Bit("enabled") + Bit("running")
           i == St!Opt("id", format, d.id) l == St!Opt("lost", format, d.lost)
<1>1. /\ t \in Seq(Nat) /\ Len(t) = m
      /\ i \in Seq(Nat) /\ Len(i) = Bit("id") /\ l \in Seq(Nat) /\ Len(l) = Bit("lost")
  BY TimesAre, OptNat DEF IsEvent
<1>2. /\ Bit("id") \in {0, 1} /\ Bit("lost") \in {0, 1}
      /\ Bit("enabled") \in {0, 1} /\ Bit("running") \in {0, 1}
  BY Bits
<1>3. <<d>>[1] = d /\ d.count \in Nat BY DEF IsEvent
<1>4. w = ((<<d.count>> \o t) \o i) \o l BY <1>3 DEF St!KernelWords
<1>5. <<d.count>> \in Seq(Nat) /\ Len(<<d.count>>) = 1 BY <1>3
<1> HIDE DEF w, t, i, l
<1>6. <<d.count>> \o t \in Seq(Nat) /\ Len(<<d.count>> \o t) = 1 + m BY <1>1, <1>5, CatNat
<1>7. (<<d.count>> \o t) \o i \in Seq(Nat) /\ Len((<<d.count>> \o t) \o i) = 1 + m + Bit("id")
  BY <1>1, <1>6, CatNat
<1>8. w \in Seq(Nat) /\ Len(w) = 1 + m + Bit("id") + Bit("lost") BY <1>1, <1>4, <1>7, CatNat
<1>9. \A buf : St!WordsParsed(buf, format) = Len(w) BY <1>2, <1>8 DEF St!WordsParsed, Bit
<1> QED BY <1>2, <1>8, <1>9 DEF w

LEMMA StatAtomsAre ==
  ASSUME NEW g, NEW w, w = St!KernelWords(g, format), w \in Seq(Nat)
  PROVE  /\ IsAtoms(StatAtoms(g)) /\ Len(StatAtoms(g)) = Len(w)
         /\ \A i \in 1..Len(w) : StatAtoms(g)[i] = Atom(8, "stat", w[i])
<1> DEFINE s == StatAtoms(g) n == Len(w)
<1>1. n \in Nat /\ DOMAIN w = 1..n BY LenProperties
<1>2. s = [i \in 1..n |-> Atom(8, "stat", w[i])] BY <1>1 DEF StatAtoms
<1> HIDE DEF s, n
<1>3. DOMAIN s = 1..n /\ Len(s) = n /\ \A i \in 1..n : s[i] = Atom(8, "stat", w[i]) BY <1>1, <1>2
<1>4. s = [i \in 1..n |-> s[i]] BY <1>2
<1>5. IsAtoms(s) BY <1>1, <1>3, <1>4 DEF IsAtoms, Atom
<1> QED BY <1>3, <1>5 DEF s, n

\* What Stat::from_ptr_offset takes.
StatWord(max) == [i \in 1..max |-> Get(ptr + 8 * (i - 1), 8)]

StatCount(max) == St!WordsParsed([i \in 1..max |-> StatWord(max)[i].n], format)

StatVals(max) == [i \in 1..StatCount(max) |-> StatWord(max)[i]]

StatEnd(max) == ptr + 8 * StatCount(max)

LEMMA TakeStatIs ==
  ASSUME NEW f, NEW max, TakeStat(f, max)
  PROVE  Take(f, StatVals(max), StatEnd(max), StatEnd(max))
BY DEF TakeStat, StatVals, StatEnd, StatCount, StatWord

\* That is the words of a read, all of them and no other.
LEMMA StatRead ==
  ASSUME NEW g, NEW w, w = St!KernelWords(g, format), w \in Seq(Nat), NEW max \in Nat, Len(w) <= max,
         Len(w) > 0, \A buf : buf[1] = w[1] => St!WordsParsed(buf, format) = Len(w),
         NEW q, HeldAt(rec.at, ptr, q, StatAtoms(g))
  PROVE  ptr \in Nat /\ q = StatEnd(max) /\ Payload(StatAtoms(g)) = StatVals(max)
<1> DEFINE s == StatAtoms(g) n == Len(w) word == StatWord(max) c == StatCount(max)
<1>1. n \in Nat /\ n > 0 /\ n <= max BY LenProperties
<1>2. IsAtoms(s) /\ Len(s) = n /\ \A i \in 1..n : s[i] = Atom(8, "stat", w[i])
  BY StatAtomsAre
<1>3. HeldAt(rec.at, ptr, q, s) OBVIOUS
<1> HIDE DEF s, n
<1>4. Array(s, 8) BY <1>2 DEF Atom, Val, Silent, Array, Wide
<1>5. /\ ptr \in Nat /\ q = ptr + 8 * Len(s) /\ Payload(s) = GetAll(ptr, 8, Len(s))
      /\ \A i \in 1..Len(s) : Get(ptr + 8 * (i - 1), 8) = s[i].val
  <2>1. 8 \in Nat OBVIOUS
  <2>2. ptr \in Nat /\ q = ptr + 8 * Len(s) /\ Payload(s) = GetAll(ptr, 8, Len(s))
    BY <1>3, <1>4, <2>1, ArrayRead
  <2>3. \A i \in 1..Len(s) : Get(ptr + 8 * (i - 1), 8) = s[i].val
    BY <1>3, <1>4, <2>1, ArrayRead
  <2> QED BY <2>2, <2>3
<1>6. /\ q = ptr + 8 * n /\ Payload(s) = GetAll(ptr, 8, n)
      /\ \A i \in 1..n : Get(ptr + 8 * (i - 1), 8) = s[i].val
  BY <1>2, <1>5
<1>7. \A i \in 1..max : word[i] = Get(ptr + 8 * (i - 1), 8) BY DEF StatWord
<1>8. c = n
  <2> DEFINE buf == [i \in 1..max |-> word[i].n]
  <2>1. 1 \in 1..max /\ 1 \in 1..n BY <1>1
  <2>2. word[1] = s[1].val BY <1>6, <1>7, <2>1
  <2>3. s[1].val.n = w[1] BY <1>2, <2>1 DEF Atom, Val
  <2>4. buf[1] = w[1] BY <2>1, <2>2, <2>3
  <2>5. c = St!WordsParsed(buf, format) BY DEF StatCount
  <2> HIDE DEF buf, c
  <2> QED BY <2>4, <2>5 DEF n
<1>9. q = StatEnd(max) BY <1>6, <1>8 DEF StatEnd
<1>10. StatVals(max) = [i \in 1..c |-> word[i]] BY DEF StatVals
<1> HIDE DEF word, c
<1>11. StatVals(max) = GetAll(ptr, 8, n)
  <2>1. \A i \in 1..n : word[i] = Get(ptr + 8 * (i - 1), 8) BY <1>1, <1>7
  <2> QED BY <1>8, <1>10, <2>1 DEF GetAll
<1> QED BY <1>5, <1>6, <1>9, <1>11 DEF s
-----------------------------------------------------------------------------
(* What the kernel writes for the fields of a sample.                       *)

LEMMA SizedWords ==
  ASSUME NEW of, NEW n \in Nat
  PROVE  Sized(Words(of, n), 8 * n)
<1> DEFINE s == Words(of, n)
<1>1. IsAtoms(s) /\ Len(s) = n /\ \A i \in 1..n : s[i] = Atom(8, of, i) BY WordsAre
<1> HIDE DEF s
<1>2. Wide(s, 8) BY <1>1 DEF Atom, Wide
<1>3. 8 \in Nat OBVIOUS
<1>4. Sized(s, 8 * Len(s)) BY <1>1, <1>2, <1>3, SizedArray
<1> QED BY <1>1, <1>4 DEF s

LEMMA SizedBlob ==
  ASSUME NEW of, NEW n \in Nat
  PROVE  Sized(Blob(of, n), n)
<1>1. CASE n = 0 BY <1>1, SizedNone DEF Blob
<1>2. CASE n > 0
  <2>1. Atom(n, of, n).w = n BY DEF Atom
  <2>2. Sized(<<Atom(n, of, n)>>, n) BY <1>2, <2>1, SizedOne
  <2> QED BY <1>2, <2>2 DEF Blob
<1> QED BY <1>1, <1>2

LEMMA SizedAtom ==
  ASSUME NEW w \in Nat, w > 0, NEW of, NEW n
  PROVE  Sized(<<Atom(w, of, n)>>, w)
<1>1. Atom(w, of, n).w = w BY DEF Atom
<1> QED BY <1>1, SizedOne

LEMMA SizedWord == \A of : Sized(<<Word(of)>>, 8)
<1>1. 8 \in Nat /\ 8 > 0 OBVIOUS
<1> QED BY <1>1, SizedAtom DEF Word

LEMMA SizedNr == \A n : Sized(<<Nr(n)>>, 8)
<1>1. 8 \in Nat /\ 8 > 0 OBVIOUS
<1> QED BY <1>1, SizedAtom DEF Nr

\* The branches.
LbrAtoms(nr) == [i \in 1..nr |-> Atom(24, "lbr", i)]

LEMMA LbrAre ==
  ASSUME NEW nr \in Nat
  PROVE  /\ IsAtoms(LbrAtoms(nr)) /\ Len(LbrAtoms(nr)) = nr
         /\ \A i \in 1..nr : LbrAtoms(nr)[i] = Atom(24, "lbr", i)
<1> DEFINE s == LbrAtoms(nr)
<1>1. s = [i \in 1..nr |-> Atom(24, "lbr", i)] BY DEF LbrAtoms
<1> HIDE DEF s
<1>2. DOMAIN s = 1..nr /\ Len(s) = nr /\ \A i \in 1..nr : s[i] = Atom(24, "lbr", i) BY <1>1
<1>3. s = [i \in 1..nr |-> s[i]] BY <1>1
<1>4. IsAtoms(s) BY <1>2, <1>3 DEF IsAtoms, Atom
<1> QED BY <1>2, <1>4 DEF s

IdxAtoms == IF "hw_index" \in branch THEN <<Word("hw_idx")>> ELSE <<>>

CntrAtoms(nr) == IF "counters" \in branch THEN Words("cntr", nr) ELSE <<>>

LEMMA BranchIs ==
  ASSUME NEW nr \in Nat
  PROVE  BranchAtoms(nr) = ((<<Nr(nr)>> \o IdxAtoms) \o LbrAtoms(nr)) \o CntrAtoms(nr)
BY DEF BranchAtoms, IdxAtoms, LbrAtoms, CntrAtoms

Idx == IF "hw_index" \in branch THEN 1 ELSE 0

Cntr(nr) == IF "counters" \in branch THEN nr ELSE 0

LEMMA SizedBranch ==
  ASSUME NEW nr \in Nat
  PROVE  /\ Sized(IdxAtoms, 8 * Idx) /\ Sized(LbrAtoms(nr), 24 * nr)
         /\ Sized(CntrAtoms(nr), 8 * Cntr(nr))
         /\ Sized(BranchAtoms(nr), 8 * (1 + Idx + 3 * nr + Cntr(nr)))
<1>1. Sized(IdxAtoms, 8 * Idx) BY SizedWord, SizedNone DEF IdxAtoms, Idx
<1>2. Sized(LbrAtoms(nr), 24 * nr)
  <2> DEFINE s == LbrAtoms(nr)
  <2>1. IsAtoms(s) /\ Len(s) = nr /\ \A i \in 1..nr : s[i] = Atom(24, "lbr", i) BY LbrAre
  <2> HIDE DEF s
  <2>2. Wide(s, 24) BY <2>1 DEF Atom, Wide
  <2>3. 24 \in Nat OBVIOUS
  <2>4. Sized(s, 24 * Len(s)) BY <2>1, <2>2, <2>3, SizedArray
  <2> QED BY <2>1, <2>4 DEF s
<1>3. Sized(CntrAtoms(nr), 8 * Cntr(nr)) BY SizedWords, SizedNone DEF CntrAtoms, Cntr
<1>4. Sized(BranchAtoms(nr), ((8 + 8 * Idx) + 24 * nr) + 8 * Cntr(nr))
  <2>1. Sized(<<Nr(nr)>> \o IdxAtoms, 8 + 8 * Idx) BY <1>1, SizedNr, SizedCat
  <2>2. Sized((<<Nr(nr)>> \o IdxAtoms) \o LbrAtoms(nr), (8 + 8 * Idx) + 24 * nr)
    BY <1>2, <2>1, SizedCat
  <2> QED BY <1>3, <2>2, BranchIs, SizedCat
<1>5. ((8 + 8 * Idx) + 24 * nr) + 8 * Cntr(nr) = 8 * (1 + Idx + 3 * nr + Cntr(nr))
  BY DEF Idx, Cntr
<1> QED BY <1>1, <1>2, <1>3, <1>4, <1>5

LEMMA SizedRegs ==
  ASSUME NEW of, NEW n \in Nat, NEW atoms \in RegsAtoms(of, n)
  PROVE  Sized(atoms, 8) \/ Sized(atoms, 8 * (1 + n))
<1>0. 8 \in Nat /\ 8 > 0 OBVIOUS
<1>1. CASE atoms = <<Atom(8, "nr", 0)>> BY <1>0, <1>1, SizedAtom
<1>2. CASE \E abi \in {1, 2} : atoms = <<Atom(8, "abi", abi)>> \o Words(of, n)
  <2>1. PICK abi \in {1, 2} : atoms = <<Atom(8, "abi", abi)>> \o Words(of, n) BY <1>2
  <2>2. Sized(<<Atom(8, "abi", abi)>>, 8) BY <1>0, SizedAtom
  <2>3. Sized(atoms, 8 + 8 * n) BY <2>1, <2>2, SizedWords, SizedCat
  <2>4. 8 + 8 * n = 8 * (1 + n) OBVIOUS
  <2> QED BY <2>3, <2>4
<1> QED BY <1>1, <1>2 DEF RegsAtoms

LEMMA GroupIs ==
  LET w == St!KernelWords(Group, format)
  IN  /\ w \in Seq(Nat) /\ Len(w) <= 20 /\ Len(w) > 0
      /\ \A buf : buf[1] = w[1] => St!WordsParsed(buf, format) = Len(w)
<1> DEFINE d == [id |-> 1, count |-> 2, lost |-> 3, enabled |-> 4, running |-> 5]
           e == [id |-> 6, count |-> 7, lost |-> 8, enabled |-> 9, running |-> 10]
<1>1. Group = <<d, e>> BY DEF Group
<1>2. IsEvent(d) /\ IsEvent(e) BY DEF IsEvent
<1> HIDE DEF d, e
<1> QED BY <1>1, <1>2, GroupWords

LEMMA SizedStat ==
  ASSUME NEW g, NEW w, w = St!KernelWords(g, format), w \in Seq(Nat)
  PROVE  Sized(StatAtoms(g), 8 * Len(w))
<1> DEFINE s == StatAtoms(g) n == Len(w)
<1>1. IsAtoms(s) /\ Len(s) = n /\ \A i \in 1..n : s[i] = Atom(8, "stat", w[i])
  BY StatAtomsAre
<1> HIDE DEF s, n
<1>2. Wide(s, 8) BY <1>1 DEF Atom, Wide
<1>3. 8 \in Nat OBVIOUS
<1>4. Sized(s, 8 * Len(s)) BY <1>1, <1>2, <1>3, SizedArray
<1> QED BY <1>1, <1>4 DEF s, n

LEMMA FieldNames ==
  \A f \in Fields : \/ f \in WordFields
                    \/ f \in {"tid", "cpu", "read", "callchain", "raw", "branch_stack", "regs_user",
                              "regs_intr", "stack_user", "weight_struct", "aux"}
<1>1. \A i \in 1..24 : \/ KernelOrder[i] \in WordFields
                       \/ KernelOrder[i] \in {"tid", "cpu", "read", "callchain", "raw",
                                              "branch_stack", "regs_user", "regs_intr",
                                              "stack_user", "weight_struct", "aux"}
  BY DEF KernelOrder, WordFields
<1>2. \A f \in Fields : \E i \in 1..24 : KernelOrder[i] = f BY Orders DEF Fields, Range
<1> QED BY <1>1, <1>2

\* Each field is written in whole words.
LEMMA FieldSized ==
  ASSUME NEW f \in Fields, NEW atoms \in KernelAtoms(f), EmptyStacks = FALSE
  PROVE  \E n \in Nat : Sized(atoms, 8 * n)
<1> DEFINE Whole(s) == \E n \in Nat : Sized(s, 8 * n)
<1>0. ASSUME NEW s, NEW n \in Nat, Sized(s, 8 * n) PROVE Whole(s) BY <1>0
<1> SUFFICES Whole(atoms) OBVIOUS
<1> HIDE DEF Whole
<1>8. ASSUME NEW s, Sized(s, 8) PROVE Whole(s)
  <2>1. 1 \in Nat /\ 8 * 1 = 8 OBVIOUS
  <2> QED BY <1>0, <1>8, <2>1
<1>1. CASE f \in WordFields
  <2>1. atoms = <<Word(f)>> BY <1>1 DEF WordFields, KernelAtoms
  <2> QED BY <1>8, <2>1, SizedWord
<1>2. CASE f = "tid"
  <2> DEFINE a == Atom(4, "pid", 0) b == Atom(4, "tid", 0)
  <2>1. atoms = <<a, b>> BY <1>2 DEF KernelAtoms
  <2>2. a.w = 4 /\ b.w = 4 BY DEF Atom
  <2> HIDE DEF a, b
  <2>3. Sized(atoms, 8) BY <2>1, <2>2, SizedTwo
  <2> QED BY <1>8, <2>3
<1>3. CASE f = "cpu"
  <2> DEFINE a == Atom(4, "cpu", 0) b == Atom(4, "pad", 0)
  <2>1. atoms = <<a, b>> BY <1>3 DEF KernelAtoms
  <2>2. a.w = 4 /\ b.w = 4 BY DEF Atom
  <2> HIDE DEF a, b
  <2>3. Sized(atoms, 8) BY <2>1, <2>2, SizedTwo
  <2> QED BY <1>8, <2>3
<1>4. CASE f = "read"
  <2>1. atoms = StatAtoms(Group) BY <1>4 DEF KernelAtoms
  <2> DEFINE w == St!KernelWords(Group, format)
  <2>2. w \in Seq(Nat) BY GroupIs
  <2>3. Sized(atoms, 8 * Len(w)) BY <2>1, <2>2, SizedStat
  <2>4. Len(w) \in Nat BY <2>2, LenProperties
  <2> HIDE DEF w
  <2> QED BY <1>0, <2>3, <2>4
<1>5. CASE f = "callchain"
  <2>1. PICK n \in {0, 1, 3} : atoms = <<Nr(n)>> \o Words("ip", n) BY <1>5 DEF KernelAtoms
  <2>2. Sized(atoms, 8 + 8 * n) BY <2>1, SizedNr, SizedWords, SizedCat
  <2>3. 8 + 8 * n = 8 * (1 + n) /\ 1 + n \in Nat OBVIOUS
  <2> QED BY <1>0, <2>2, <2>3
<1>6. CASE f = "raw"
  <2>1. PICK n \in {4, 12} : atoms = <<Atom(4, "nr", n)>> \o Blob("raw", n) BY <1>6 DEF KernelAtoms
  <2>2. Sized(<<Atom(4, "nr", n)>>, 4) /\ Sized(Blob("raw", n), n)
    <3>1. 4 \in Nat /\ 4 > 0 /\ n \in Nat OBVIOUS
    <3> QED BY <3>1, SizedAtom, SizedBlob
  <2>3. Sized(atoms, 4 + n) BY <2>1, <2>2, SizedCat
  <2>4. CASE n = 4
    <3>1. 4 + n = 8 * 1 /\ 1 \in Nat BY <2>4
    <3> QED BY <1>0, <2>3, <3>1
  <2>5. CASE n = 12
    <3>1. 4 + n = 8 * 2 /\ 2 \in Nat BY <2>5
    <3> QED BY <1>0, <2>3, <3>1
  <2> QED BY <2>4, <2>5
<1>7. CASE f = "branch_stack"
  <2>1. atoms = <<Nr(0)>> \/ \E n \in {1, 2} : atoms = BranchAtoms(n)
    BY <1>7 DEF KernelAtoms
  <2>2. ASSUME NEW n \in {1, 2}, atoms = BranchAtoms(n) PROVE Whole(atoms)
    <3>1. Sized(atoms, 8 * (1 + Idx + 3 * n + Cntr(n))) BY <2>2, SizedBranch
    <3>2. 1 + Idx + 3 * n + Cntr(n) \in Nat BY DEF Idx, Cntr
    <3> QED BY <1>0, <3>1, <3>2
  <2>3. CASE atoms = <<Nr(0)>> BY <1>8, <2>3, SizedNr
  <2> QED BY <2>1, <2>2, <2>3
<1>9. CASE f \in {"regs_user", "regs_intr"}
  <2>1. \E of, n : n \in Nat /\ atoms \in RegsAtoms(of, n)
    BY <1>9, SampleAssumption DEF KernelAtoms
  <2>2. PICK of, n : n \in Nat /\ atoms \in RegsAtoms(of, n) BY <2>1
  <2>3. Sized(atoms, 8) \/ Sized(atoms, 8 * (1 + n)) BY <2>2, SizedRegs
  <2>4. 1 + n \in Nat BY <2>2
  <2> QED BY <1>0, <1>8, <2>3, <2>4
<1>10. CASE f = "stack_user"
  <2>1. atoms = <<Nr(0)>>
        \/ \E dyn \in {0, 16} : atoms = <<Nr(16), Atom(16, "stack", dyn), Atom(8, "nr", dyn)>>
    BY <1>10 DEF KernelAtoms
  <2>2. ASSUME NEW dyn, atoms = <<Nr(16), Atom(16, "stack", dyn), Atom(8, "nr", dyn)>>
        PROVE Whole(atoms)
    <3> DEFINE a == Nr(16) b == Atom(16, "stack", dyn) c == Atom(8, "nr", dyn)
    <3>1. a.w = 8 /\ b.w = 16 /\ c.w = 8 BY DEF Nr, Atom
    <3>2. atoms = <<a, b, c>> BY <2>2
    <3> HIDE DEF a, b, c
    <3>3. Sized(atoms, 8 * 4) BY <3>1, <3>2, SizedThree
    <3> QED BY <1>0, <3>3
  <2>3. CASE atoms = <<Nr(0)>> BY <1>8, <2>3, SizedNr
  <2> QED BY <2>1, <2>2, <2>3
<1>11. CASE f = "weight_struct"
  <2> DEFINE a == Atom(4, "var1", 0) b == Atom(2, "var2", 0) c == Atom(2, "var3", 0)
  <2>1. atoms = <<a, b, c>> BY <1>11 DEF KernelAtoms
  <2>2. a.w = 4 /\ b.w = 2 /\ c.w = 2 BY DEF Atom
  <2> HIDE DEF a, b, c
  <2>3. Sized(atoms, 8) BY <2>1, <2>2, SizedThree
  <2> QED BY <1>8, <2>3
<1>12. CASE f = "aux"
  <2>1. PICK n \in {0, 8} : atoms = <<Nr(n)>> \o Blob("aux", n) BY <1>12 DEF KernelAtoms
  <2>2. Sized(Blob("aux", n), n) BY SizedBlob
  <2>3. Sized(atoms, 8 + n) BY <2>1, <2>2, SizedNr, SizedCat
  <2>4. CASE n = 0
    <3>1. 8 + n = 8 BY <2>4
    <3> QED BY <1>8, <2>3, <3>1
  <2>5. CASE n = 8
    <3>1. 8 + n = 8 * 2 /\ 2 \in Nat BY <2>5
    <3> QED BY <1>0, <2>3, <3>1
  <2> QED BY <2>4, <2>5
<1> QED BY <1>1, <1>2, <1>3, <1>4, <1>5, <1>6, <1>7, <1>9, <1>10, <1>11, <1>12, FieldNames
-----------------------------------------------------------------------------
(* Sample::from_ptr takes what was written.                                 *)

LEMMA LastIs ==
  ASSUME ConfigOK, Next(Order[N])
  PROVE  Final(Order[N])
<1>1. PICK i \in 1..N : Foremost(i, AllParts \ DOMAIN got) /\ Order[N] = Order[i]
  BY FirstIs DEF Next
<1>2. /\ N \in Nat /\ N > 0 /\ \A a, b \in 1..N : Order[a] = Order[b] => a = b
      /\ \A f \in AllParts : \E a \in 1..N : Order[a] = f
  BY OrderFacts
<1>3. i = N BY <1>1, <1>2
<1>4. ASSUME NEW g \in AllParts \ DOMAIN got PROVE g = Order[N]
  <2>1. PICK a \in 1..N : Order[a] = g BY <1>2
  <2>2. a \notin 1..(i - 1) BY <1>1, <2>1 DEF Foremost
  <2> QED BY <1>2, <1>3, <2>1, <2>2
<1> QED BY <1>4 DEF Final

\* All that was written is taken.
Took(f, q, atoms, vals, to, end) == vals = Payload(atoms) /\ end = q /\ (to = q \/ Final(f))

LEMMA WhenIs ==
  ASSUME NEW f, When(f)
  PROVE  kind = "sample" /\ Next(f) /\ Put(f) = KernelAtoms(f)
<1>1. kind = "sample" BY DEF When
<1>2. Order = KernelOrder /\ AllParts = flags BY <1>1 DEF Order, AllParts
<1>3. ParseOrder = KernelOrder BY DEF ParseOrder, KernelOrder
<1>4. Put(f) = KernelAtoms(f) BY <1>1 DEF Put
<1>5. Next(f) BY <1>2, <1>3 DEF When, Next
<1> QED BY <1>1, <1>4, <1>5

LEMMA SampleStep ==
  ASSUME ParserInv, NEW f, NEW vals, NEW to, NEW end, When(f), Take(f, vals, to, end),
         \A q, atoms : /\ atoms \in KernelAtoms(f) /\ HeldAt(rec.at, ptr, q, atoms)
                       /\ q \in Nat /\ ptr \in Nat /\ ptr % 8 = 0
                       => Took(f, q, atoms, vals, to, end)
  PROVE  ParserInv'
<1>1. kind = "sample" /\ Next(f) /\ Put(f) = KernelAtoms(f) BY WhenIs
<1>2. ASSUME NEW q, NEW atoms, atoms \in Put(f), Found(q, atoms)
      PROVE  Exact(f, q, atoms, vals, to, end)
  <2>1. HeldAt(rec.at, ptr, q, atoms) /\ q \in Nat /\ ptr \in Nat /\ ptr % 8 = 0
    BY <1>1, <1>2 DEF Found
  <2>2. Took(f, q, atoms, vals, to, end) BY <1>1, <1>2, <2>1
  <2>3. q <= q BY <2>1
  <2> QED BY <2>1, <2>2, <2>3 DEF Took, Exact
<1> QED BY <1>1, <1>2, TakeKeeps

LEMMA WordKeeps ==
  ASSUME ParserInv, ParseWord
  PROVE  ParserInv'
<1>1. PICK f \in WordFields : When(f) /\ Take(f, <<Get(ptr, 8)>>, ptr + 8, ptr + 8) BY DEF ParseWord
<1>2. ASSUME NEW q, NEW atoms, atoms \in KernelAtoms(f), HeldAt(rec.at, ptr, q, atoms)
      PROVE  Took(f, q, atoms, <<Get(ptr, 8)>>, ptr + 8, ptr + 8)
  <2>1. atoms = <<Word(f)>> BY <1>2 DEF WordFields, KernelAtoms
  <2>2. Loud(f) BY DEF WordFields, Loud
  <2>3. q = ptr + 8 /\ Payload(<<Word(f)>>) = <<Get(ptr, 8)>> BY <1>2, <2>1, <2>2, WordRead
  <2> QED BY <2>1, <2>3 DEF Took
<1> QED BY <1>1, <1>2, SampleStep

\* Two values of one width.
LEMMA PairRead ==
  ASSUME NEW a, NEW b, NEW w \in Nat, w > 0, a.w = w, b.w = w, ~Silent(a), ~Silent(b),
         NEW p, NEW q, HeldAt(rec.at, p, q, <<a, b>>)
  PROVE  p \in Nat /\ q = p + w + w /\ Payload(<<a, b>>) = GetAll(p, w, 2)
<1> DEFINE s == <<a, b>>
<1>1. Len(s) = 2 /\ s[1] = a /\ s[2] = b OBVIOUS
<1>2. IsAtoms(s) BY TwoAtoms
<1> HIDE DEF s
<1>3. Array(s, w) BY <1>1, <1>2 DEF Array, Wide
<1>4. HeldAt(rec.at, p, q, s) BY DEF s
<1>5. p \in Nat /\ q = p + w * Len(s) /\ Payload(s) = GetAll(p, w, Len(s)) BY <1>3, <1>4, ArrayRead
<1>6. w * 2 = w + w OBVIOUS
<1> QED BY <1>1, <1>5, <1>6 DEF s

LEMMA TwoIs ==
  ASSUME NEW a, NEW b
  PROVE  <<a, b>> = <<a>> \o <<b>>
<1> DEFINE u == <<a>> \o <<b>>
<1>1. <<a>> \in Seq({a, b}) /\ Len(<<a>>) = 1 /\ <<a>>[1] = a
      /\ <<b>> \in Seq({a, b}) /\ Len(<<b>>) = 1 /\ <<b>>[1] = b
  OBVIOUS
<1>2. u \in Seq({a, b}) /\ Len(u) = 2 /\ u[1] = a /\ u[2] = b BY <1>1, ConcatProperties
<1> HIDE DEF u
<1>3. u = [i \in 1..2 |-> u[i]] BY <1>2, LenProperties
<1>4. [i \in 1..2 |-> u[i]] = <<u[1], u[2]>> OBVIOUS
<1>5. u = <<a, b>> BY <1>2, <1>3, <1>4
<1> QED BY <1>5 DEF u

LEMMA ThreeIs ==
  ASSUME NEW a, NEW b, NEW c
  PROVE  <<a, b, c>> = <<a>> \o <<b, c>>
<1> DEFINE u == <<a>> \o <<b, c>>
<1>1. <<a>> \in Seq({a, b, c}) /\ Len(<<a>>) = 1 /\ <<a>>[1] = a
      /\ <<b, c>> \in Seq({a, b, c}) /\ Len(<<b, c>>) = 2 /\ <<b, c>>[1] = b /\ <<b, c>>[2] = c
  OBVIOUS
<1>2. u \in Seq({a, b, c}) /\ Len(u) = 3 /\ u[1] = a /\ u[2] = b /\ u[3] = c
  BY <1>1, ConcatProperties
<1> HIDE DEF u
<1>3. u = [i \in 1..3 |-> u[i]] BY <1>2, LenProperties
<1>4. [i \in 1..3 |-> u[i]] = <<u[1], u[2], u[3]>> OBVIOUS
<1>5. u = <<a, b, c>> BY <1>2, <1>3, <1>4
<1> QED BY <1>5 DEF u

\* A value, then filling.
LEMMA PaddedRead ==
  ASSUME NEW a, NEW b, a.w \in Nat, a.w > 0, b.w \in Nat, b.w > 0, ~Silent(a), Silent(b)
  PROVE  Payload(<<a, b>>) = <<a.val>>
<1>1. <<a, b>> = <<a>> \o <<b>> BY TwoIs
<1>2. IsAtoms(<<a>>) /\ IsAtoms(<<b>>) BY OneAtom
<1>3. Payload(<<a, b>>) = Payload(<<a>>) \o Payload(<<b>>) BY <1>1, <1>2, PayloadCat
<1>4. Payload(<<a>>) = <<a.val>> /\ Payload(<<b>>) = <<>> BY PayloadOne
<1>5. <<a.val>> \o <<>> = <<a.val>> OBVIOUS
<1> QED BY <1>3, <1>4, <1>5

LEMMA TaskKeeps ==
  ASSUME ParserInv, ParseTask
  PROVE  ParserInv'
<1> DEFINE vals == GetAll(ptr, 4, 2)
<1>1. When("tid") /\ Take("tid", vals, ptr + 8, ptr + 8) BY DEF ParseTask
<1>2. ASSUME NEW q, NEW atoms, atoms \in KernelAtoms("tid"), HeldAt(rec.at, ptr, q, atoms)
      PROVE  Took("tid", q, atoms, vals, ptr + 8, ptr + 8)
  <2> DEFINE a == Atom(4, "pid", 0) b == Atom(4, "tid", 0)
  <2>1. atoms = <<a, b>> BY <1>2 DEF KernelAtoms
  <2>2. a.w = 4 /\ b.w = 4 /\ ~Silent(a) /\ ~Silent(b) BY DEF Atom, Val, Silent
  <2> HIDE DEF a, b
  <2>3. 4 \in Nat /\ 4 > 0 OBVIOUS
  <2>4. ptr \in Nat /\ q = ptr + 4 + 4 /\ Payload(<<a, b>>) = GetAll(ptr, 4, 2)
    BY <1>2, <2>1, <2>2, <2>3, PairRead
  <2>5. ptr + 4 + 4 = ptr + 8 BY <2>4
  <2> QED BY <2>1, <2>4, <2>5 DEF Took
<1> HIDE DEF vals
<1> QED BY <1>1, <1>2, SampleStep

LEMMA CpuKeeps ==
  ASSUME ParserInv, ParseCpu
  PROVE  ParserInv'
<1> DEFINE vals == <<Get(ptr, 4)>>
<1>1. When("cpu") /\ Take("cpu", vals, ptr + 8, ptr + 8) BY DEF ParseCpu
<1>2. ASSUME NEW q, NEW atoms, atoms \in KernelAtoms("cpu"), HeldAt(rec.at, ptr, q, atoms)
      PROVE  Took("cpu", q, atoms, vals, ptr + 8, ptr + 8)
  <2> DEFINE a == Atom(4, "cpu", 0) b == Atom(4, "pad", 0)
  <2>1. atoms = <<a, b>> BY <1>2 DEF KernelAtoms
  <2>2. a.w = 4 /\ b.w = 4 /\ ~Silent(a) /\ Silent(b) BY DEF Atom, Val, Silent
  <2> HIDE DEF a, b
  <2>3. ptr \in Nat /\ ptr \in DOMAIN rec.at /\ rec.at[ptr] = a /\ q = ptr + a.w + b.w
    BY <1>2, <2>1, HeldTwo
  <2>4. Get(ptr, 4) = a.val BY <2>2, <2>3, GetIs
  <2>5. Payload(<<a, b>>) = <<a.val>> BY <2>2, PaddedRead
  <2>6. q = ptr + 8 BY <2>2, <2>3
  <2> QED BY <2>1, <2>4, <2>5, <2>6 DEF Took
<1> HIDE DEF vals
<1> QED BY <1>1, <1>2, SampleStep

LEMMA ReadKeeps ==
  ASSUME ParserInv, ParseRead
  PROVE  ParserInv'
<1> DEFINE w == St!KernelWords(Group, format)
<1>1. When("read") /\ TakeStat("read", 20) BY DEF ParseRead
<1>2. /\ w \in Seq(Nat) /\ Len(w) <= 20 /\ Len(w) > 0
      /\ \A buf : buf[1] = w[1] => St!WordsParsed(buf, format) = Len(w)
  BY GroupIs
<1>4. KernelAtoms("read") = {StatAtoms(Group)} BY DEF KernelAtoms
<1>5. Take("read", StatVals(20), StatEnd(20), StatEnd(20)) BY <1>1, TakeStatIs
<1>6. ASSUME NEW q, NEW atoms, atoms \in KernelAtoms("read"), HeldAt(rec.at, ptr, q, atoms)
      PROVE  Took("read", q, atoms, StatVals(20), StatEnd(20), StatEnd(20))
  <2>1. atoms = StatAtoms(Group) BY <1>4, <1>6
  <2>2. 20 \in Nat OBVIOUS
  <2>3. q = StatEnd(20) /\ Payload(StatAtoms(Group)) = StatVals(20)
    <3>1. w = St!KernelWords(Group, format) OBVIOUS
    <3> HIDE DEF w
    <3> QED BY <1>2, <1>6, <2>1, <2>2, <3>1, StatRead
  <2> QED BY <2>1, <2>3 DEF Took
<1> QED BY <1>1, <1>5, <1>6, SampleStep

LEMMA CallChainKeeps ==
  ASSUME ParserInv, ParseCallChain
  PROVE  ParserInv'
<1> DEFINE vals == GetAll(ptr + 8, 8, Len64)
           end == ptr + 8 + 8 * Len64
<1>1. When("callchain") /\ Take("callchain", vals, end, end) BY DEF ParseCallChain
<1>2. ASSUME NEW q, NEW atoms, atoms \in KernelAtoms("callchain"), HeldAt(rec.at, ptr, q, atoms)
      PROVE  Took("callchain", q, atoms, vals, end, end)
  <2>1. PICK n \in {0, 1, 3} : atoms = <<Nr(n)>> \o Words("ip", n) BY <1>2 DEF KernelAtoms
  <2> DEFINE t == Words("ip", n)
  <2>2. n \in Nat /\ 8 \in Nat /\ 8 > 0 /\ Loud("ip") BY DEF Loud
  <2>3. IsAtoms(t) BY <2>2, WordsAre
  <2>4. HeldAt(rec.at, ptr, q, <<Atom(8, "nr", n)>> \o t) BY <1>2, <2>1 DEF Nr
  <2>5. /\ ptr \in Nat /\ Get(ptr, 8).n = n /\ HeldAt(rec.at, ptr + 8, q, t)
        /\ Payload(<<Atom(8, "nr", n)>> \o t) = Payload(t)
    <3> HIDE DEF t
    <3> QED BY <2>2, <2>3, <2>4, CountRead
  <2>6. q = ptr + 8 + 8 * n /\ Payload(t) = GetAll(ptr + 8, 8, n) BY <2>2, <2>5, WordsRead
  <2>7. Len64 = n BY <2>5 DEF Len64
  <2> QED BY <2>1, <2>5, <2>6, <2>7 DEF Took, Nr
<1> HIDE DEF vals, end
<1> QED BY <1>1, <1>2, SampleStep

\* Nothing is moved that is a multiple of 8 already.
LEMMA AlignedStays ==
  ASSUME base = 0, NEW p \in Nat, p % 8 = 0
  PROVE  AlignOffset(p) = p
BY DEF AlignOffset

LEMMA RawKeeps ==
  ASSUME ParserInv, ParseRaw
  PROVE  ParserInv'
<1> DEFINE n == Get(ptr, 4).n
           vals == GetBytes(ptr + 4, n)
           end == ptr + 4 + n
<1>1. When("raw") /\ Take("raw", vals, AlignOffset(end), end) BY DEF ParseRaw
<1>2. ASSUME NEW q, NEW atoms, atoms \in KernelAtoms("raw"), HeldAt(rec.at, ptr, q, atoms),
             q \in Nat, ptr \in Nat, ptr % 8 = 0
      PROVE  Took("raw", q, atoms, vals, AlignOffset(end), end)
  <2>1. PICK m \in {4, 12} : atoms = <<Atom(4, "nr", m)>> \o Blob("raw", m) BY <1>2 DEF KernelAtoms
  <2> DEFINE t == Blob("raw", m)
  <2>2. m \in Nat /\ 4 \in Nat /\ 4 > 0 /\ Loud("raw") BY DEF Loud
  <2>3. IsAtoms(t) BY <2>2, BlobAre
  <2>4. HeldAt(rec.at, ptr, q, <<Atom(4, "nr", m)>> \o t) BY <1>2, <2>1
  <2>5. /\ n = m /\ HeldAt(rec.at, ptr + 4, q, t)
        /\ Payload(<<Atom(4, "nr", m)>> \o t) = Payload(t)
    <3> HIDE DEF t
    <3> QED BY <2>2, <2>3, <2>4, CountRead
  <2>6. q = ptr + 4 + m /\ Payload(t) = GetBytes(ptr + 4, m) BY <2>2, <2>5, BlobRead
  <2>7. end = q /\ q % 8 = 0 BY <1>2, <2>5, <2>6
  <2>8. AlignOffset(q) = q BY <1>2, <2>7, AlignedStays DEF ParserInv, ConfigOK
  <2> QED BY <2>1, <2>5, <2>6, <2>7, <2>8 DEF Took
<1> HIDE DEF vals, end
<1> QED BY <1>1, <1>2, SampleStep

\* The three arrays of branches.
LEMMA BranchArrays ==
  ASSUME NEW nr \in Nat
  PROVE  /\ Array(IdxAtoms, 8) /\ Len(IdxAtoms) = Idx
         /\ Array(LbrAtoms(nr), 24) /\ Len(LbrAtoms(nr)) = nr
         /\ Array(CntrAtoms(nr), 8) /\ Len(CntrAtoms(nr)) = Cntr(nr)
<1>0. Array(<<>>, 8) /\ Len(<<>>) = 0 BY NoAtoms DEF Array, Wide
<1>1. Array(IdxAtoms, 8) /\ Len(IdxAtoms) = Idx
  <2> DEFINE a == Word("hw_idx")
  <2>1. a.w = 8 /\ ~Silent(a) BY DEF Word, Atom, Val, Silent
  <2>2. IdxAtoms = IF "hw_index" \in branch THEN <<a>> ELSE <<>> BY DEF IdxAtoms
  <2> HIDE DEF a
  <2>3. IsAtoms(<<a>>) /\ Len(<<a>>) = 1 BY <2>1, OneAtom
  <2>4. <<a>>[1] = a OBVIOUS
  <2>5. Array(<<a>>, 8) BY <2>1, <2>3, <2>4 DEF Array, Wide
  <2> QED BY <1>0, <2>2, <2>3, <2>5 DEF Idx
<1>2. Array(LbrAtoms(nr), 24) /\ Len(LbrAtoms(nr)) = nr
  <2> DEFINE s == LbrAtoms(nr)
  <2>1. IsAtoms(s) /\ Len(s) = nr /\ \A i \in 1..nr : s[i] = Atom(24, "lbr", i) BY LbrAre
  <2> HIDE DEF s
  <2>2. Array(s, 24) BY <2>1 DEF Array, Wide, Atom, Val, Silent
  <2> QED BY <2>1, <2>2 DEF s
<1>3. Array(CntrAtoms(nr), 8) /\ Len(CntrAtoms(nr)) = Cntr(nr)
  <2> DEFINE s == Words("cntr", nr)
  <2>1. IsAtoms(s) /\ Len(s) = nr /\ \A i \in 1..nr : s[i] = Atom(8, "cntr", i) BY WordsAre
  <2>2. CntrAtoms(nr) = IF "counters" \in branch THEN s ELSE <<>> BY DEF CntrAtoms
  <2> HIDE DEF s
  <2>3. Array(s, 8) BY <2>1 DEF Array, Wide, Atom, Val, Silent
  <2> QED BY <1>0, <2>1, <2>2, <2>3 DEF Cntr
<1> QED BY <1>1, <1>2, <1>3

LEMMA LbrKeeps ==
  ASSUME ParserInv, EmptyStacks = FALSE, ParseLbr
  PROVE  ParserInv'
<1> DEFINE nr == Len64
           lbr == ptr + 8 + 8 * Idx
           some == lbr + 24 * nr + 8 * Cntr(nr)
           vals == IF nr = 0 THEN <<>>
                   ELSE GetAll(ptr + 8, 8, Idx) \o GetAll(lbr, 24, nr)
                          \o GetAll(lbr + 24 * nr, 8, Cntr(nr))
           end == IF nr = 0 THEN ptr + 8 ELSE some
<1>1. When("branch_stack") /\ Take("branch_stack", vals, end, end) BY DEF ParseLbr, Idx, Cntr
<1>2. ASSUME NEW q, NEW atoms, atoms \in KernelAtoms("branch_stack"), HeldAt(rec.at, ptr, q, atoms),
             ptr \in Nat
      PROVE  Took("branch_stack", q, atoms, vals, end, end)
  <2>1. atoms = <<Nr(0)>> \/ \E m \in {1, 2} : atoms = BranchAtoms(m)
    BY <1>2 DEF KernelAtoms
  <2>2. CASE atoms = <<Nr(0)>>
    <3>1. q = ptr + 8 /\ nr = 0 /\ Payload(<<Nr(0)>>) = <<>> BY <1>2, <2>2, ZeroRead
    <3> QED BY <2>2, <3>1 DEF Took
  <2>3. ASSUME NEW m \in {1, 2}, atoms = BranchAtoms(m)
        PROVE  Took("branch_stack", q, atoms, vals, end, end)
    <3> DEFINE x == IdxAtoms y == LbrAtoms(m) z == CntrAtoms(m) c == Nr(m)
    <3>1. /\ Array(x, 8) /\ Len(x) = Idx /\ Array(y, 24) /\ Len(y) = m
          /\ Array(z, 8) /\ Len(z) = Cntr(m)
      BY BranchArrays
    <3>2. atoms = ((<<c>> \o x) \o y) \o z BY <2>3, BranchIs
    <3>3. c = Atom(8, "nr", m) /\ c.w = 8 BY DEF Nr, Atom
    <3> HIDE DEF x, y, z, c
    <3>4. IsAtoms(x) /\ IsAtoms(y) /\ IsAtoms(z) /\ IsAtoms(<<c>>)
      <4>1. IsAtoms(<<c>>) BY <3>3, OneAtom
      <4> QED BY <3>1, <4>1 DEF Array
    <3>5. IsAtoms(<<c>> \o x) /\ IsAtoms((<<c>> \o x) \o y) BY <3>4, AtomsCat
    <3>6. PICK r \in Nat : HeldAt(rec.at, ptr, r, (<<c>> \o x) \o y) /\ HeldAt(rec.at, r, q, z)
      BY <1>2, <3>2, <3>4, <3>5, HeldCat
    <3>7. PICK o \in Nat : HeldAt(rec.at, ptr, o, <<c>> \o x) /\ HeldAt(rec.at, o, r, y)
      BY <3>4, <3>5, <3>6, HeldCat
    <3>8. nr = m /\ HeldAt(rec.at, ptr + 8, o, x) /\ Payload(<<c>> \o x) = Payload(x)
      <4>1. 8 \in Nat /\ 8 > 0 OBVIOUS
      <4> QED BY <3>3, <3>4, <3>7, <4>1, CountRead DEF Len64
    <3>9. o = ptr + 8 + 8 * Idx /\ Payload(x) = GetAll(ptr + 8, 8, Idx)
      <4>1. 8 \in Nat OBVIOUS
      <4> QED BY <3>1, <3>8, <4>1, ArrayRead
    <3>10. r = o + 24 * m /\ Payload(y) = GetAll(o, 24, m)
      <4>1. 24 \in Nat OBVIOUS
      <4> QED BY <3>1, <3>7, <4>1, ArrayRead
    <3>11. q = r + 8 * Cntr(m) /\ Payload(z) = GetAll(r, 8, Cntr(m))
      <4>1. 8 \in Nat OBVIOUS
      <4> QED BY <3>1, <3>6, <4>1, ArrayRead
    <3>12. Payload(atoms) = (Payload(x) \o Payload(y)) \o Payload(z)
      <4>1. Payload(atoms) = Payload((<<c>> \o x) \o y) \o Payload(z)
        BY <3>2, <3>4, <3>5, PayloadCat
      <4>2. Payload((<<c>> \o x) \o y) = Payload(<<c>> \o x) \o Payload(y)
        BY <3>4, <3>5, PayloadCat
      <4> QED BY <3>8, <4>1, <4>2
    <3>13. m # 0 OBVIOUS
    <3> HIDE DEF nr
    <3>14. vals = Payload(atoms) BY <3>8, <3>9, <3>10, <3>11, <3>12, <3>13
    <3>15. end = q BY <3>8, <3>9, <3>10, <3>11, <3>13
    <3> HIDE DEF vals, end
    <3> QED BY <3>14, <3>15 DEF Took
  <2> HIDE DEF vals, end
  <2> QED BY <2>1, <2>2, <2>3
<1> HIDE DEF vals, end
<1> QED BY <1>1, <1>2, SampleStep

LEMMA RegsKeeps ==
  ASSUME ParserInv, ParseRegs
  PROVE  ParserInv'
<1>1. PICK f \in {"regs_user", "regs_intr"} :
        /\ When(f)
        /\ LET n == IF f = "regs_user" THEN UserRegs ELSE IntrRegs
               end == ptr + 8 + 8 * n
           IN  IF Len64 = 0 THEN Take(f, <<>>, ptr + 8, ptr + 8)
               ELSE Take(f, GetAll(ptr, 8, 1 + n), end, end)
  BY DEF ParseRegs
<1> DEFINE n == IF f = "regs_user" THEN UserRegs ELSE IntrRegs
           of == IF f = "regs_user" THEN "user" ELSE "intr"
           vals == IF Len64 = 0 THEN <<>> ELSE GetAll(ptr, 8, 1 + n)
           end == IF Len64 = 0 THEN ptr + 8 ELSE ptr + 8 + 8 * n
<1>2. Take(f, vals, end, end) BY <1>1
<1>3. n \in Nat BY SampleAssumption
<1>4. KernelAtoms(f) = RegsAtoms(of, n) /\ Loud(of) BY DEF KernelAtoms, Loud
<1> HIDE DEF n, of
<1>5. ASSUME NEW q, NEW atoms, atoms \in KernelAtoms(f), HeldAt(rec.at, ptr, q, atoms), ptr \in Nat
      PROVE  Took(f, q, atoms, vals, end, end)
  <2>1. CASE atoms = <<Atom(8, "nr", 0)>>
    <3>1. atoms = <<Nr(0)>> BY <2>1 DEF Nr
    <3>2. q = ptr + 8 /\ Len64 = 0 /\ Payload(<<Nr(0)>>) = <<>> BY <1>5, <3>1, ZeroRead
    <3> QED BY <3>1, <3>2 DEF Took
  <2>2. ASSUME NEW abi \in {1, 2}, atoms = <<Atom(8, "abi", abi)>> \o Words(of, n)
        PROVE  Took(f, q, atoms, vals, end, end)
    <3> DEFINE a == Atom(8, "abi", abi) s == <<a>> t == Words(of, n)
    <3>1. a.w = 8 /\ ~Silent(a) /\ a.val.n = abi BY DEF Atom, Val, Silent
    <3>2. IsAtoms(t) /\ Len(t) = n /\ \A i \in 1..n : t[i] = Atom(8, of, i) BY <1>3, WordsAre
    <3> HIDE DEF t, a
    <3>3. \A i \in 1..n : t[i].w = 8 /\ ~Silent(t[i]) BY <1>4, <3>2 DEF Atom, Val, Silent, Loud
    <3>4. IsAtoms(s) /\ Len(s) = 1 /\ s[1] = a BY <3>1, OneAtom
    <3> DEFINE u == s \o t
    <3>5. atoms = u BY <2>2 DEF a, t
    <3> HIDE DEF s
    <3>6. /\ IsAtoms(u) /\ Len(u) = 1 + n /\ u[1] = s[1]
          /\ \A i \in 1..n : u[1 + i] = t[i]
      <4>1. /\ IsAtoms(u) /\ Len(u) = Len(s) + Len(t)
            /\ \A i \in 1..Len(s) : u[i] = s[i]
            /\ \A i \in 1..Len(t) : u[Len(s) + i] = t[i]
        <5>1. IsAtoms(s) /\ IsAtoms(t) BY <3>2, <3>4
        <5> QED BY <5>1, AtomsCat
      <4> HIDE DEF u
      <4>2. 1 \in 1..Len(s) BY <3>4
      <4> QED BY <3>2, <3>4, <4>1, <4>2
    <3> HIDE DEF u
    <3>7. ASSUME NEW i \in 1..(1 + n) PROVE u[i].w = 8 /\ ~Silent(u[i])
      <4>1. CASE i = 1 BY <3>1, <3>4, <3>6, <4>1
      <4>2. CASE i # 1
        <5>1. i - 1 \in 1..n /\ 1 + (i - 1) = i BY <1>3, <4>2
        <5>2. u[i] = t[i - 1] BY <3>6, <5>1
        <5> QED BY <3>3, <5>1, <5>2
      <4> QED BY <4>1, <4>2
    <3>8. Array(u, 8) BY <3>6, <3>7 DEF Array, Wide
    <3>9. /\ q = ptr + 8 * Len(u) /\ Payload(u) = GetAll(ptr, 8, Len(u))
      <4>1. 8 \in Nat OBVIOUS
      <4> QED BY <1>5, <3>5, <3>8, <4>1, ArrayRead
    <3>10. Len64 = abi
      <4>1. HeldAt(rec.at, ptr, q, <<a>> \o t) BY <1>5, <3>5 DEF u, s
      <4>2. ptr \in DOMAIN rec.at /\ rec.at[ptr] = a BY <3>1, <3>2, <4>1, HeldFirst
      <4> QED BY <3>1, <4>2, GetIs DEF Len64
    <3>11. end = ptr + 8 + 8 * n /\ vals = GetAll(ptr, 8, 1 + n) BY <3>10
    <3>12. q = end BY <1>3, <1>5, <3>6, <3>9, <3>11
    <3> HIDE DEF vals, end
    <3> QED BY <3>5, <3>6, <3>9, <3>11, <3>12 DEF Took
  <2> HIDE DEF vals, end
  <2> QED BY <1>4, <1>5, <2>1, <2>2 DEF RegsAtoms
<1> HIDE DEF vals, end
<1> QED BY <1>1, <1>2, <1>5, SampleStep

LEMMA StackKeeps ==
  ASSUME ParserInv, ParseStack
  PROVE  ParserInv'
<1> DEFINE n == Len64
           dyn == Get(ptr + 8 + n, 8).n
           end == ptr + 8 + n + (IF n > 0 THEN 8 ELSE 0)
           vals == IF n = 0 THEN <<>> ELSE <<Val(Get(ptr + 8, n).of, dyn)>>
<1>1. When("stack_user") /\ Take("stack_user", vals, end, end) BY DEF ParseStack
<1>2. ASSUME NEW q, NEW atoms, atoms \in KernelAtoms("stack_user"), HeldAt(rec.at, ptr, q, atoms),
             ptr \in Nat
      PROVE  Took("stack_user", q, atoms, vals, end, end)
  <2>1. atoms = <<Nr(0)>>
        \/ \E d \in {0, 16} : atoms = <<Nr(16), Atom(16, "stack", d), Atom(8, "nr", d)>>
    BY <1>2 DEF KernelAtoms
  <2>2. CASE atoms = <<Nr(0)>>
    <3>1. q = ptr + 8 /\ n = 0 /\ Payload(<<Nr(0)>>) = <<>> BY <1>2, <2>2, ZeroRead
    <3>2. end = q BY <1>2, <3>1
    <3> QED BY <2>2, <3>1, <3>2 DEF Took
  <2>3. ASSUME NEW d \in {0, 16}, atoms = <<Nr(16), Atom(16, "stack", d), Atom(8, "nr", d)>>
        PROVE  Took("stack_user", q, atoms, vals, end, end)
    <3> DEFINE a == Nr(16) b == Atom(16, "stack", d) c == Atom(8, "nr", d)
    <3>1. /\ a.w = 8 /\ a.val.n = 16 /\ Silent(a)
          /\ b.w = 16 /\ b.val.of = "stack" /\ ~Silent(b) /\ b.val = Val("stack", d)
          /\ c.w = 8 /\ c.val.n = d /\ Silent(c)
      BY DEF Nr, Atom, Val, Silent
    <3>2. atoms = <<a, b, c>> BY <2>3
    <3> HIDE DEF a, b, c
    <3>3. /\ ptr \in DOMAIN rec.at /\ rec.at[ptr] = a
          /\ ptr + a.w \in DOMAIN rec.at /\ rec.at[ptr + a.w] = b
          /\ ptr + a.w + b.w \in DOMAIN rec.at /\ rec.at[ptr + a.w + b.w] = c
          /\ q = ptr + a.w + b.w + c.w
      BY <1>2, <3>2, HeldThree
    <3>4. Get(ptr, 8) = a.val /\ Get(ptr + 8, 16) = b.val /\ Get(ptr + 8 + 16, 8) = c.val
      BY <3>1, <3>3, GetIs
    <3>5. n = 16 BY <3>1, <3>4 DEF Len64
    <3> HIDE DEF n
    <3>6. dyn = d BY <3>1, <3>4, <3>5
    <3>7. vals = <<b.val>> BY <3>1, <3>4, <3>5, <3>6
    <3>8. end = q BY <1>2, <3>1, <3>3, <3>5
    <3>9. Payload(<<a, b, c>>) = <<b.val>>
      <4> DEFINE t == <<b, c>>
      <4>1. <<a, b, c>> = <<a>> \o t BY ThreeIs
      <4>2. IsAtoms(t) BY <3>1, TwoAtoms
      <4>4. Payload(t) = <<b.val>> BY <3>1, PaddedRead
      <4> HIDE DEF t
      <4>3. Payload(<<a, b, c>>) = Payload(t)
        <5>1. a.w \in Nat /\ a.w > 0 /\ Silent(a) BY <3>1
        <5>2. Payload(<<a>> \o t) = Payload(t) BY <4>2, <5>1, PayloadAfter
        <5> QED BY <4>1, <5>2
      <4> QED BY <4>3, <4>4
    <3> HIDE DEF vals, end
    <3> QED BY <3>2, <3>7, <3>8, <3>9 DEF Took
  <2> HIDE DEF vals, end
  <2> QED BY <2>1, <2>2, <2>3
<1> HIDE DEF vals, end
<1> QED BY <1>1, <1>2, SampleStep

LEMMA WeightVarsKeeps ==
  ASSUME ParserInv, ParseWeightVars
  PROVE  ParserInv'
<1> DEFINE vals == <<Get(ptr, 4), Get(ptr + 4, 2), Get(ptr + 6, 2)>>
<1>1. When("weight_struct") /\ Take("weight_struct", vals, ptr + 8, ptr + 8) BY DEF ParseWeightVars
<1>2. ASSUME NEW q, NEW atoms, atoms \in KernelAtoms("weight_struct"), HeldAt(rec.at, ptr, q, atoms),
             ptr \in Nat
      PROVE  Took("weight_struct", q, atoms, vals, ptr + 8, ptr + 8)
  <2> DEFINE a == Atom(4, "var1", 0) b == Atom(2, "var2", 0) c == Atom(2, "var3", 0)
             s == <<a, b, c>>
  <2>1. atoms = s BY <1>2 DEF KernelAtoms
  <2>2. a.w = 4 /\ b.w = 2 /\ c.w = 2 /\ ~Silent(a) /\ ~Silent(b) /\ ~Silent(c)
    BY DEF Atom, Val, Silent
  <2> HIDE DEF a, b, c
  <2>3. /\ ptr \in DOMAIN rec.at /\ rec.at[ptr] = a
        /\ ptr + a.w \in DOMAIN rec.at /\ rec.at[ptr + a.w] = b
        /\ ptr + a.w + b.w \in DOMAIN rec.at /\ rec.at[ptr + a.w + b.w] = c
        /\ q = ptr + a.w + b.w + c.w
    BY <1>2, <2>1, HeldThree
  <2>4. ptr + 4 + 2 = ptr + 6 /\ q = ptr + 8 BY <1>2, <2>2, <2>3
  <2>5. vals = <<a.val, b.val, c.val>> BY <2>2, <2>3, <2>4, GetIs
  <2>6. Len(s) = 3 /\ s[1] = a /\ s[2] = b /\ s[3] = c OBVIOUS
  <2>7. IsAtoms(s) BY <2>2, ThreeAtoms
  <2> HIDE DEF s, vals
  <2>8. Payload(s) = [i \in 1..Len(s) |-> s[i].val]
    <3>1. \A i \in 1..Len(s) : ~Silent(s[i]) BY <2>2, <2>6
    <3> QED BY <2>7, <3>1, PayloadAll
  <2>9. Payload(s) = <<a.val, b.val, c.val>> BY <2>6, <2>8
  <2> QED BY <2>1, <2>4, <2>5, <2>9 DEF Took
<1> HIDE DEF vals
<1> QED BY <1>1, <1>2, SampleStep

LEMMA AuxKeeps ==
  ASSUME ParserInv, ParseAux
  PROVE  ParserInv'
<1> DEFINE vals == GetBytes(ptr + 8, Len64)
           end == ptr + 8 + Len64
<1>1. When("aux") /\ Take("aux", vals, ptr + 8, end) BY DEF ParseAux
<1>2. Final("aux")
  <2>1. kind = "sample" /\ Next("aux") BY <1>1, WhenIs
  <2>2. Order[N] = "aux" BY <2>1 DEF Order, N, KernelOrder
  <2> QED BY <2>1, <2>2, LastIs DEF ParserInv
<1>3. ASSUME NEW q, NEW atoms, atoms \in KernelAtoms("aux"), HeldAt(rec.at, ptr, q, atoms)
      PROVE  Took("aux", q, atoms, vals, ptr + 8, end)
  <2>1. PICK m \in {0, 8} : atoms = <<Nr(m)>> \o Blob("aux", m) BY <1>3 DEF KernelAtoms
  <2> DEFINE t == Blob("aux", m)
  <2>2. m \in Nat /\ 8 \in Nat /\ 8 > 0 /\ Loud("aux") BY DEF Loud
  <2>3. IsAtoms(t) BY <2>2, BlobAre
  <2>4. HeldAt(rec.at, ptr, q, <<Atom(8, "nr", m)>> \o t) BY <1>3, <2>1 DEF Nr
  <2>5. /\ Len64 = m /\ HeldAt(rec.at, ptr + 8, q, t)
        /\ Payload(<<Atom(8, "nr", m)>> \o t) = Payload(t)
    <3> HIDE DEF t
    <3> QED BY <2>2, <2>3, <2>4, CountRead DEF Len64
  <2>6. q = ptr + 8 + m /\ Payload(t) = GetBytes(ptr + 8, m) BY <2>2, <2>5, BlobRead
  <2> QED BY <1>2, <2>1, <2>5, <2>6 DEF Took, Nr
<1> HIDE DEF vals, end
<1> QED BY <1>1, <1>3, SampleStep

\* Sample::from_ptr and what it walks over.
LEMMA SampleKeeps ==
  ASSUME ParserInv, EmptyStacks = FALSE, WriteSample \/ ParseSample
  PROVE  ParserInv'
<1>1. CASE WriteSample
  <2> DEFINE f == First(KernelOrder, flags \ DOMAIN meant)
  <2>1. kind = "sample" /\ flags \ DOMAIN meant # {} BY <1>1 DEF WriteSample
  <2>2. PICK atoms \in KernelAtoms(f) : Write(f, atoms) BY <1>1 DEF WriteSample
  <2>3. Order = KernelOrder /\ AllParts = flags /\ Put(f) = KernelAtoms(f)
    BY <2>1 DEF Order, AllParts, Put
  <2>4. f = First(Order, AllParts \ DOMAIN meant) BY <2>3
  <2>5. f \in Fields
    <3>1. PICK i \in 1..N : Foremost(i, AllParts \ DOMAIN meant) /\ f = Order[i]
      BY <2>1, <2>3, <2>4, FirstIs DEF ParserInv
    <3>2. f \in flags BY <2>3, <3>1 DEF Foremost
    <3> QED BY <2>1, <3>2 DEF ParserInv, ConfigOK
  <2> HIDE DEF f
  <2>6. PICK n \in Nat : Sized(atoms, 8 * n) BY <2>2, <2>5, FieldSized
  <2>7. IsAtoms(atoms) BY <2>6 DEF Sized
  <2> QED BY <2>1, <2>2, <2>3, <2>4, <2>6, <2>7, PartKeeps
<1>2. CASE ParseSample
  BY <1>2, WordKeeps, TaskKeeps, CpuKeeps, ReadKeeps, CallChainKeeps, RawKeeps, LbrKeeps,
     RegsKeeps, StackKeeps, WeightVarsKeeps, AuxKeeps
     DEF ParseSample
<1> QED BY <1>1, <1>2
-----------------------------------------------------------------------------
(* The other records.                                                       *)

LEMMA AtIs ==
  ASSUME NEW f, At(f)
  PROVE  kind # "sample" /\ Next(f) /\ Put(f) = KernelPart(f)
<1>1. kind # "sample" BY DEF At
<1>2. Order = KernelSideOrder /\ AllParts = Parts BY <1>1 DEF Order, AllParts
<1>3. SideOrder = KernelSideOrder BY DEF SideOrder, KernelSideOrder
<1>4. Put(f) = KernelPart(f) BY <1>1 DEF Put
<1>5. Next(f) BY <1>2, <1>3 DEF At, Next
<1> QED BY <1>1, <1>4, <1>5

LEMMA SideStep ==
  ASSUME ParserInv, NEW f, NEW vals, NEW to, NEW end, At(f), Take(f, vals, to, end),
         \A q, atoms : /\ atoms \in KernelPart(f) /\ HeldAt(rec.at, ptr, q, atoms)
                       /\ q \in Nat /\ ptr \in Nat
                       => /\ vals = Payload(atoms) /\ end \in Nat /\ end <= q
                          /\ to = q \/ Final(f)
  PROVE  ParserInv'
<1>1. kind # "sample" /\ Next(f) /\ Put(f) = KernelPart(f) BY AtIs
<1>2. ASSUME NEW q, NEW atoms, atoms \in Put(f), Found(q, atoms)
      PROVE  Exact(f, q, atoms, vals, to, end)
  <2>1. HeldAt(rec.at, ptr, q, atoms) /\ q \in Nat /\ ptr \in Nat
    BY <1>1, <1>2 DEF Found
  <2> QED BY <1>1, <1>2, <2>1 DEF Exact
<1> QED BY <1>1, <1>2, TakeKeeps

\* What a head is, and how much.
HeadSize ==
  [mmap |-> 32, mmap2 |-> 64, mmap2_build_id |-> 64, read |-> 8, comm |-> 8, itrace_start |-> 8,
   switch_cpu_wide |-> 8, switch |-> 0, namespaces |-> 8, exit |-> 24, fork |-> 24,
   throttle |-> 24, unthrottle |-> 24, lost |-> 16, lost_samples |-> 8, cgroup |-> 8,
   ksymbol |-> 16, text_poke |-> 8, bpf_event |-> 16, aux |-> 24, aux_output_hw_id |-> 8,
   callchain_deferred |-> 8]

IsHead(s, n) == Sized(s, n) /\ \A i \in 1..Len(s) : s[i].val.of # "nr"

LEMMA HeadOne ==
  ASSUME NEW a, a.w \in Nat, a.w > 0, a.val.of # "nr"
  PROVE  IsHead(<<a>>, a.w)
<1>1. Sized(<<a>>, a.w) BY SizedOne
<1>2. Len(<<a>>) = 1 /\ <<a>>[1] = a OBVIOUS
<1> QED BY <1>1, <1>2 DEF IsHead

LEMMA HeadCat ==
  ASSUME NEW s, NEW t, NEW m, NEW n, IsHead(s, m), IsHead(t, n)
  PROVE  IsHead(s \o t, m + n)
<1> DEFINE u == s \o t
<1>1. Sized(u, m + n) BY SizedCat DEF IsHead
<1>2. IsAtoms(s) /\ IsAtoms(t) BY DEF IsHead, Sized
<1>3. /\ Len(u) = Len(s) + Len(t)
      /\ \A i \in 1..Len(s) : u[i] = s[i]
      /\ \A i \in 1..Len(t) : u[Len(s) + i] = t[i]
  BY <1>2, AtomsCat
<1>4. Len(s) \in Nat /\ Len(t) \in Nat BY <1>2 DEF IsAtoms
<1> HIDE DEF u
<1>5. ASSUME NEW i \in 1..Len(u) PROVE u[i].val.of # "nr"
  <2>1. CASE i <= Len(s)
    <3>1. i \in 1..Len(s) BY <1>3, <1>4, <2>1
    <3> QED BY <1>3, <3>1 DEF IsHead
  <2>2. CASE ~(i <= Len(s))
    <3>1. i - Len(s) \in 1..Len(t) /\ Len(s) + (i - Len(s)) = i BY <1>3, <1>4, <2>2
    <3>2. u[i] = t[i - Len(s)] BY <1>3, <3>1
    <3> QED BY <3>1, <3>2 DEF IsHead
  <2> QED BY <2>1, <2>2
<1>6. IsHead(u, m + n) BY <1>1, <1>5 DEF IsHead
<1> QED BY <1>6 DEF u

LEMMA HeadTwo ==
  ASSUME NEW a, NEW b, a.w \in Nat, a.w > 0, a.val.of # "nr", b.w \in Nat, b.w > 0, b.val.of # "nr"
  PROVE  IsHead(<<a, b>>, a.w + b.w)
<1>1. IsHead(<<a>> \o <<b>>, a.w + b.w) BY HeadOne, HeadCat
<1> QED BY <1>1, TwoIs

LEMMA HeadThree ==
  ASSUME NEW a, NEW b, NEW c, a.w \in Nat, a.w > 0, a.val.of # "nr",
         b.w \in Nat, b.w > 0, b.val.of # "nr", c.w \in Nat, c.w > 0, c.val.of # "nr"
  PROVE  IsHead(<<a, b, c>>, a.w + (b.w + c.w))
<1>1. IsHead(<<b, c>>, b.w + c.w) BY HeadTwo
<1>2. IsHead(<<a>>, a.w) BY HeadOne
<1> DEFINE t == <<b, c>> n == b.w + c.w
<1>3. IsHead(t, n) BY <1>1
<1>4. <<a, b, c>> = <<a>> \o t BY ThreeIs
<1> HIDE DEF t, n
<1>5. IsHead(<<a>> \o t, a.w + n) BY <1>2, <1>3, HeadCat
<1> QED BY <1>4, <1>5 DEF n

LEMMA HeadFour ==
  ASSUME NEW a, NEW b, NEW c, NEW d, a.w \in Nat, a.w > 0, a.val.of # "nr",
         b.w \in Nat, b.w > 0, b.val.of # "nr", c.w \in Nat, c.w > 0, c.val.of # "nr",
         d.w \in Nat, d.w > 0, d.val.of # "nr"
  PROVE  IsHead(<<a, b, c, d>>, a.w + b.w + c.w + d.w)
<1> DEFINE s == <<a, b, c, d>>
<1>1. ASSUME NEW cells, NEW p, NEW q, HeldAt(cells, p, q, s)
      PROVE p \in Nat /\ q = p + (a.w + b.w + c.w + d.w)
  <2>1. p \in Nat /\ q = (((p + a.w) + b.w) + c.w) + d.w BY <1>1 DEF HeldAt, Offsets
  <2> QED BY <2>1
<1>2. IsAtoms(s) BY FourAtoms
<1>3. Len(s) = 4 /\ s[1] = a /\ s[2] = b /\ s[3] = c /\ s[4] = d OBVIOUS
<1> HIDE DEF s
<1>4. Sized(s, a.w + b.w + c.w + d.w) BY <1>1, <1>2 DEF Sized
<1>5. IsHead(s, a.w + b.w + c.w + d.w) BY <1>3, <1>4 DEF IsHead
<1> QED BY <1>5 DEF s

LEMMA HeadFive ==
  ASSUME NEW a, NEW b, NEW c, NEW d, NEW e, a.w \in Nat, a.w > 0, a.val.of # "nr",
         b.w \in Nat, b.w > 0, b.val.of # "nr", c.w \in Nat, c.w > 0, c.val.of # "nr",
         d.w \in Nat, d.w > 0, d.val.of # "nr", e.w \in Nat, e.w > 0, e.val.of # "nr"
  PROVE  IsHead(<<a, b, c, d, e>>, a.w + b.w + c.w + d.w + e.w)
<1> DEFINE s == <<a, b, c, d, e>>
<1>1. ASSUME NEW cells, NEW p, NEW q, HeldAt(cells, p, q, s)
      PROVE p \in Nat /\ q = p + (a.w + b.w + c.w + d.w + e.w)
  <2>1. p \in Nat /\ q = ((((p + a.w) + b.w) + c.w) + d.w) + e.w BY <1>1 DEF HeldAt, Offsets
  <2> QED BY <2>1
<1>2. IsAtoms(s) BY FiveAtoms
<1>3. Len(s) = 5 /\ s[1] = a /\ s[2] = b /\ s[3] = c /\ s[4] = d /\ s[5] = e OBVIOUS
<1> HIDE DEF s
<1>4. Sized(s, a.w + b.w + c.w + d.w + e.w) BY <1>1, <1>2 DEF Sized
<1>5. IsHead(s, a.w + b.w + c.w + d.w + e.w) BY <1>3, <1>4 DEF IsHead
<1> QED BY <1>5 DEF s

\* The atoms of heads.
LEMMA Widths ==
  /\ \A of : Word(of).w = 8 /\ Word(of).val.of = of
  /\ \A of : U32(of).w = 4 /\ U32(of).val.of = of
  /\ \A of : U16(of).w = 2 /\ U16(of).val.of = of
BY DEF Word, U32, U16, Atom, Val

LEMMA HeadWords ==
  /\ \A x : x # "nr" => IsHead(<<Word(x)>>, 8)
  /\ \A x, y : x # "nr" /\ y # "nr" => IsHead(<<Word(x), Word(y)>>, 16) /\ IsHead(<<U32(x), U32(y)>>, 8)
  /\ \A x, y, z : x # "nr" /\ y # "nr" /\ z # "nr" => IsHead(<<Word(x), Word(y), Word(z)>>, 24)
<1>1. ASSUME NEW x, x # "nr" PROVE IsHead(<<Word(x)>>, 8)
  <2> DEFINE a == Word(x)
  <2>1. a.w = 8 /\ a.val.of # "nr" BY <1>1, Widths
  <2> HIDE DEF a
  <2>2. IsHead(<<a>>, a.w) BY <2>1, HeadOne
  <2> QED BY <2>1, <2>2 DEF a
<1>2. ASSUME NEW x, NEW y, x # "nr", y # "nr" PROVE IsHead(<<Word(x), Word(y)>>, 16)
  <2> DEFINE a == Word(x) b == Word(y)
  <2>1. a.w = 8 /\ a.val.of # "nr" /\ b.w = 8 /\ b.val.of # "nr" BY <1>2, Widths
  <2> HIDE DEF a, b
  <2>2. IsHead(<<a, b>>, a.w + b.w) BY <2>1, HeadTwo
  <2>3. a.w + b.w = 16 BY <2>1
  <2> QED BY <2>2, <2>3 DEF a, b
<1>3. ASSUME NEW x, NEW y, x # "nr", y # "nr" PROVE IsHead(<<U32(x), U32(y)>>, 8)
  <2> DEFINE a == U32(x) b == U32(y)
  <2>1. a.w = 4 /\ a.val.of # "nr" /\ b.w = 4 /\ b.val.of # "nr" BY <1>3, Widths
  <2> HIDE DEF a, b
  <2>2. IsHead(<<a, b>>, a.w + b.w) BY <2>1, HeadTwo
  <2>3. a.w + b.w = 8 BY <2>1
  <2> QED BY <2>2, <2>3 DEF a, b
<1>4. ASSUME NEW x, NEW y, NEW z, x # "nr", y # "nr", z # "nr"
      PROVE  IsHead(<<Word(x), Word(y), Word(z)>>, 24)
  <2> DEFINE a == Word(x) b == Word(y) c == Word(z)
  <2>1. /\ a.w = 8 /\ a.val.of # "nr" /\ b.w = 8 /\ b.val.of # "nr"
        /\ c.w = 8 /\ c.val.of # "nr"
    BY <1>4, Widths
  <2> HIDE DEF a, b, c
  <2>2. IsHead(<<a, b, c>>, a.w + (b.w + c.w)) BY <2>1, HeadThree
  <2>3. a.w + (b.w + c.w) = 24 BY <2>1
  <2> QED BY <2>2, <2>3 DEF a, b, c
<1> QED BY <1>1, <1>2, <1>3, <1>4

LEMMA HeadKinds ==
  \A k \in DOMAIN KernelHead :
    k \in {"mmap", "mmap2", "mmap2_build_id", "read", "comm", "itrace_start", "switch_cpu_wide",
          "switch", "namespaces", "exit", "fork", "throttle", "unthrottle", "lost", "lost_samples",
          "cgroup", "ksymbol", "text_poke", "bpf_event", "aux", "aux_output_hw_id",
          "callchain_deferred"}
BY DEF KernelHead

LEMMA LongHeads ==
  /\ IsHead(Ids, 8) /\ IsHead(Protection, 8)
  /\ IsHead(Mapped, 32)
  /\ IsHead(Mapped \o <<U32("major"), U32("minor"), Word("inode"), Word("inode_gen")>> \o Protection, 64)
  /\ IsHead(Mapped \o <<Atom(1, "build_id_size", 20), Atom(3, "pad", 0), Atom(20, "build_id", 20)>>
              \o Protection, 64)
  /\ IsHead(Forked, 24)
  /\ IsHead(<<Word("addr"), U32("len"), U16("type"), U16("flags")>>, 16)
  /\ IsHead(<<U16("type"), U16("flags"), U32("id"), Word("tag")>>, 16)
<1>1. IsHead(Ids, 8) BY HeadWords DEF Ids
<1>2. IsHead(Protection, 8) BY HeadWords DEF Protection
<1>3. IsHead(Mapped, 32)
  <2>1. IsHead(<<Word("addr"), Word("len"), Word("pgoff")>>, 24) BY HeadWords
  <2>2. IsHead(Mapped, 8 + 24) BY <1>1, <2>1, HeadCat DEF Mapped
  <2> QED BY <2>2
<1>4. IsHead(Mapped \o <<U32("major"), U32("minor"), Word("inode"), Word("inode_gen")>> \o Protection, 64)
  <2> DEFINE a == U32("major") b == U32("minor") c == Word("inode") d == Word("inode_gen")
             m == Mapped \o <<a, b, c, d>>
  <2>1. /\ a.w = 4 /\ a.val.of # "nr" /\ b.w = 4 /\ b.val.of # "nr"
        /\ c.w = 8 /\ c.val.of # "nr" /\ d.w = 8 /\ d.val.of # "nr"
    BY Widths
  <2>a. m = Mapped \o <<a, b, c, d>> OBVIOUS
  <2>b. m \o Protection = Mapped \o <<U32("major"), U32("minor"), Word("inode"), Word("inode_gen")>> \o Protection
    OBVIOUS
  <2> HIDE DEF a, b, c, d
  <2>2. IsHead(<<a, b, c, d>>, a.w + b.w + c.w + d.w) BY <2>1, HeadFour
  <2>3. IsHead(m, 32 + (a.w + b.w + c.w + d.w)) BY <1>3, <2>2, HeadCat
  <2>4. 32 + (a.w + b.w + c.w + d.w) = 56 BY <2>1
  <2> HIDE DEF m
  <2>5. IsHead(m \o Protection, 56 + 8) BY <1>2, <2>3, <2>4, HeadCat
  <2> QED BY <2>5, <2>b
<1>5. IsHead(Mapped \o <<Atom(1, "build_id_size", 20), Atom(3, "pad", 0), Atom(20, "build_id", 20)>>
               \o Protection, 64)
  <2> DEFINE a == Atom(1, "build_id_size", 20) b == Atom(3, "pad", 0) c == Atom(20, "build_id", 20)
             m == Mapped \o <<a, b, c>>
  <2>1. /\ a.w = 1 /\ a.val.of # "nr" /\ b.w = 3 /\ b.val.of # "nr"
        /\ c.w = 20 /\ c.val.of # "nr"
    BY DEF Atom, Val
  <2>b. m \o Protection = Mapped \o <<Atom(1, "build_id_size", 20), Atom(3, "pad", 0),
                                     Atom(20, "build_id", 20)>> \o Protection
    OBVIOUS
  <2> HIDE DEF a, b, c
  <2>2. IsHead(<<a, b, c>>, a.w + (b.w + c.w)) BY <2>1, HeadThree
  <2>3. IsHead(m, 32 + (a.w + (b.w + c.w))) BY <1>3, <2>2, HeadCat
  <2>4. 32 + (a.w + (b.w + c.w)) = 56 BY <2>1
  <2> HIDE DEF m
  <2>5. IsHead(m \o Protection, 56 + 8) BY <1>2, <2>3, <2>4, HeadCat
  <2> QED BY <2>5, <2>b
<1>6. IsHead(Forked, 24)
  <2> DEFINE a == U32("pid") b == U32("ppid") c == U32("tid") d == U32("ptid") e == Word("time")
  <2>1. /\ a.w = 4 /\ a.val.of # "nr" /\ b.w = 4 /\ b.val.of # "nr"
        /\ c.w = 4 /\ c.val.of # "nr" /\ d.w = 4 /\ d.val.of # "nr" /\ e.w = 8 /\ e.val.of # "nr"
    BY Widths
  <2>2. Forked = <<a, b, c, d, e>> BY DEF Forked
  <2> HIDE DEF a, b, c, d, e
  <2>3. IsHead(<<a, b, c, d, e>>, a.w + b.w + c.w + d.w + e.w) BY <2>1, HeadFive
  <2>4. a.w + b.w + c.w + d.w + e.w = 24 BY <2>1
  <2> QED BY <2>2, <2>3, <2>4
<1>7. IsHead(<<Word("addr"), U32("len"), U16("type"), U16("flags")>>, 16)
  <2> DEFINE a == Word("addr") b == U32("len") c == U16("type") d == U16("flags")
  <2>1. /\ a.w = 8 /\ a.val.of # "nr" /\ b.w = 4 /\ b.val.of # "nr"
        /\ c.w = 2 /\ c.val.of # "nr" /\ d.w = 2 /\ d.val.of # "nr"
    BY Widths
  <2> HIDE DEF a, b, c, d
  <2>3. IsHead(<<a, b, c, d>>, a.w + b.w + c.w + d.w) BY <2>1, HeadFour
  <2>4. a.w + b.w + c.w + d.w = 16 BY <2>1
  <2> QED BY <2>3, <2>4 DEF a, b, c, d
<1>8. IsHead(<<U16("type"), U16("flags"), U32("id"), Word("tag")>>, 16)
  <2> DEFINE a == U16("type") b == U16("flags") c == U32("id") d == Word("tag")
  <2>1. /\ a.w = 2 /\ a.val.of # "nr" /\ b.w = 2 /\ b.val.of # "nr"
        /\ c.w = 4 /\ c.val.of # "nr" /\ d.w = 8 /\ d.val.of # "nr"
    BY Widths
  <2> HIDE DEF a, b, c, d
  <2>3. IsHead(<<a, b, c, d>>, a.w + b.w + c.w + d.w) BY <2>1, HeadFour
  <2>4. a.w + b.w + c.w + d.w = 16 BY <2>1
  <2> QED BY <2>3, <2>4 DEF a, b, c, d
<1> QED BY <1>1, <1>2, <1>3, <1>4, <1>5, <1>6, <1>7, <1>8

LEMMA HeadsAre ==
  ASSUME NEW k \in DOMAIN KernelHead
  PROVE  IsHead(KernelHead[k], HeadSize[k])
<1>1. CASE k = "mmap" BY <1>1, LongHeads DEF KernelHead, HeadSize
<1>2. CASE k = "mmap2" BY <1>2, LongHeads DEF KernelHead, HeadSize
<1>3. CASE k = "mmap2_build_id" BY <1>3, LongHeads DEF KernelHead, HeadSize
<1>4. CASE k \in {"read", "comm", "itrace_start", "switch_cpu_wide", "namespaces"}
  BY <1>4, LongHeads DEF KernelHead, HeadSize
<1>5. CASE k = "switch"
  <2>1. IsHead(<<>>, 0) BY SizedNone DEF IsHead
  <2> QED BY <1>5, <2>1 DEF KernelHead, HeadSize
<1>6. CASE k \in {"exit", "fork"} BY <1>6, LongHeads DEF KernelHead, HeadSize
<1>7. CASE k \in {"throttle", "unthrottle"}
  <2>1. IsHead(Throttled, 24) BY HeadWords DEF Throttled
  <2> QED BY <1>7, <2>1 DEF KernelHead, HeadSize
<1>8. CASE k \in {"lost_samples", "cgroup", "text_poke", "aux_output_hw_id", "callchain_deferred"}
  <2>1. PICK x \in {"lost", "id", "addr", "hw_id", "cookie"} : KernelHead[k] = <<Word(x)>>
    BY <1>8 DEF KernelHead
  <2>2. HeadSize[k] = 8 BY <1>8 DEF HeadSize
  <2>3. IsHead(<<Word(x)>>, 8) BY HeadWords
  <2> QED BY <2>1, <2>2, <2>3
<1>9. CASE k = "lost"
  <2>1. IsHead(<<Word("id"), Word("lost")>>, 16) BY HeadWords
  <2>2. KernelHead[k] = <<Word("id"), Word("lost")>> /\ HeadSize[k] = 16 BY <1>9 DEF KernelHead, HeadSize
  <2> QED BY <2>1, <2>2
<1>10. CASE k = "aux"
  <2>1. IsHead(<<Word("offset"), Word("size"), Word("flags")>>, 24) BY HeadWords
  <2>2. KernelHead[k] = <<Word("offset"), Word("size"), Word("flags")>> /\ HeadSize[k] = 24
    BY <1>10 DEF KernelHead, HeadSize
  <2> QED BY <2>1, <2>2
<1>11. CASE k = "ksymbol"
  <2>1. KernelHead[k] = <<Word("addr"), U32("len"), U16("type"), U16("flags")>> /\ HeadSize[k] = 16
    BY <1>11 DEF KernelHead, HeadSize
  <2> QED BY <2>1, LongHeads
<1>12. CASE k = "bpf_event"
  <2>1. KernelHead[k] = <<U16("type"), U16("flags"), U32("id"), Word("tag")>> /\ HeadSize[k] = 16
    BY <1>12 DEF KernelHead, HeadSize
  <2> QED BY <2>1, LongHeads
<1> QED BY <1>1, <1>2, <1>3, <1>4, <1>5, <1>6, <1>7, <1>8, <1>9, <1>10, <1>11, <1>12, HeadKinds

\* UnsafeParser::parse picks the reads that fit the record.
LEMMA ReadsFit ==
  ASSUME NEW k \in DOMAIN KernelHead
  PROVE  Reads[k] = KernelHead[k]
<1>1. Task = Ids BY DEF Task, Ids
<1>2. CASE k \in {"mmap", "mmap2", "mmap2_build_id"}
  <2> DEFINE area == <<Word("addr"), Word("len"), Word("pgoff")>>
             device == <<U32("major"), U32("minor"), Word("inode"), Word("inode_gen")>>
             build == <<Atom(1, "build_id_size", 20), Atom(3, "pad", 0), Atom(20, "build_id", 20)>>
             ext == <<U32("prot"), U32("flags")>>
  <2>1. /\ MmapReads.mmap = Task \o area
        /\ MmapReads.mmap2 = (Task \o area) \o device \o ext
        /\ MmapReads.mmap2_build_id = (Task \o area) \o build \o ext
    BY DEF MmapReads
  <2>2. Mapped = Ids \o area /\ Protection = ext BY DEF Mapped, Protection
  <2>3. /\ KernelHead.mmap = Mapped
        /\ KernelHead.mmap2 = Mapped \o device \o Protection
        /\ KernelHead.mmap2_build_id = Mapped \o build \o Protection
    BY DEF KernelHead
  <2>4. /\ Reads.mmap = MmapReads.mmap /\ Reads.mmap2 = MmapReads.mmap2
        /\ Reads.mmap2_build_id = MmapReads.mmap2_build_id
    BY DEF Reads
  <2> HIDE DEF area, device, build, ext
  <2> QED BY <1>1, <1>2, <2>1, <2>2, <2>3, <2>4
<1>3. CASE k \in {"read", "comm", "itrace_start", "switch_cpu_wide", "namespaces", "switch"}
  BY <1>1, <1>3 DEF Reads, KernelHead, CommReads, ItraceStartReads, CtxSwitchReads
<1>4. CASE k \in {"exit", "fork", "throttle", "unthrottle"}
  <2>1. ExitReads = Forked /\ ThrottleReads = Throttled
    BY DEF ExitReads, Forked, ThrottleReads, Throttled
  <2> QED BY <1>4, <2>1 DEF Reads, KernelHead
<1>5. CASE k = "lost" BY <1>5 DEF Reads, KernelHead, LostRecordsReads
<1>6. CASE k = "lost_samples" BY <1>6 DEF Reads, KernelHead, LostSamplesReads
<1>7. CASE k = "cgroup" BY <1>7 DEF Reads, KernelHead, CgroupReads
<1>8. CASE k = "text_poke" BY <1>8 DEF Reads, KernelHead, TextPokeReads
<1>9. CASE k = "aux" BY <1>9 DEF Reads, KernelHead, AuxReads
<1>10. CASE k = "aux_output_hw_id" BY <1>10 DEF Reads, KernelHead, AuxOutputHwIdReads
<1>11. CASE k = "callchain_deferred" BY <1>11 DEF Reads, KernelHead, CallChainDeferredReads
<1>12. CASE k = "ksymbol" BY <1>12 DEF Reads, KernelHead, KsymbolReads
<1>13. CASE k = "bpf_event" BY <1>13 DEF Reads, KernelHead, BpfEventReads
<1> QED BY <1>2, <1>3, <1>4, <1>5, <1>6, <1>7, <1>8, <1>9, <1>10, <1>11, <1>12, <1>13, HeadKinds

\* The tail begins where the head ends, and is the last part if there is no record id.
LEMMA TailIs ==
  ASSUME ParserInv, At("tail")
  PROVE  ptr = HeadSize[kind] /\ (~id_all => Final("tail"))
<1>1. kind # "sample" /\ Next("tail") BY AtIs
<1>2. /\ ConfigOK /\ kind \in DOMAIN KernelHead /\ DOMAIN meant = AllParts
      /\ AllParts \ DOMAIN got # {} /\ "tail" = First(Order, AllParts \ DOMAIN got)
  BY <1>1 DEF ParserInv, ConfigOK, Next
<1>3. PICK pos : Shape(pos) /\ Cursor(pos) BY DEF ParserInv
<1>4. PICK i \in 1..N : Foremost(i, AllParts \ DOMAIN got) /\ "tail" = Order[i]
  BY <1>2, FirstIs
<1>5. N = 7 /\ Order[1] = "head" /\ Order[2] = "tail" /\ AllParts = Parts
  BY <1>1 DEF N, Order, KernelSideOrder, AllParts
<1>6. i = 2
  <2>1. i \in 1..N /\ 2 \in 1..N /\ Order[i] = Order[2] BY <1>4, <1>5
  <2> QED BY <1>2, <2>1, OrderFacts
<1>7. Put("head") = {KernelHead[kind]} BY <1>1 DEF Put, KernelPart
<1>8. HeldAt(rec.at, pos[1], pos[2], KernelHead[kind]) /\ pos[1] = 0
  <2>1. "head" \in DOMAIN meant BY <1>2, <1>5 DEF Parts
  <2>2. 1 \in 1..N /\ 1 + 1 = 2 BY <1>5
  <2>3. \E atoms \in Put("head") : HeldAt(rec.at, pos[1], pos[1 + 1], atoms)
    BY <1>3, <1>5, <2>1, <2>2 DEF Shape
  <2> QED BY <1>3, <1>7, <2>2, <2>3 DEF Shape
<1>9. Sized(KernelHead[kind], HeadSize[kind]) BY <1>2, HeadsAre DEF IsHead
<1>10. pos[2] = HeadSize[kind] BY <1>8, <1>9 DEF Sized
<1>11. ptr = pos[2] BY <1>3, <1>4, <1>6 DEF Cursor
<1>12. ASSUME ~id_all PROVE Final("tail")
  <2>1. AllParts = {"head", "tail"} BY <1>5, <1>12 DEF Parts
  <2>2. Order[1] \notin AllParts \ DOMAIN got
    <3>1. 1 \in 1..(i - 1) BY <1>6
    <3> QED BY <1>4, <3>1 DEF Foremost
  <2> QED BY <1>5, <2>1, <2>2 DEF Final
<1> QED BY <1>10, <1>11, <1>12

\* The tails, by the kind of record.
LEMMA TailKinds ==
  ASSUME NEW n
  PROVE  /\ kind \in WithString => KernelTail(n) = <<Atom(n, "str", n)>> \o Pad(n)
         /\ kind = "text_poke" =>
              KernelTail(n) = <<Atom(2, "nr", n), Atom(2, "nr", 1)>> \o Blob("code", n + 1)
                                \o Pad(12 + n + 1)
         /\ kind = "read" => KernelTail(n) = StatAtoms(Alone)
         /\ kind = "namespaces" => KernelTail(n) = <<Nr(7)>> \o Words("dev_inode", 14)
         /\ kind = "callchain_deferred" => KernelTail(n) = <<Nr(n)>> \o Words("ip", n)
         /\ kind \notin WithString \cup {"text_poke", "read", "namespaces", "callchain_deferred"}
              => KernelTail(n) = <<>>
BY DEF KernelTail, WithString

LEMMA TailPart == KernelPart("tail") = {KernelTail(n) : n \in Lengths}
BY DEF KernelPart

Filling(n) == (8 - (n % 8)) % 8

LEMMA PadIs ==
  ASSUME NEW n \in Nat
  PROVE  /\ Filling(n) \in Nat /\ Sized(Pad(n), Filling(n)) /\ Payload(Pad(n)) = <<>>
         /\ (n + Filling(n)) % 8 = 0
<1>1. Filling(n) \in Nat /\ (n + Filling(n)) % 8 = 0 BY DEF Filling
<1>2. Pad(n) = Blob("pad", Filling(n)) BY DEF Pad, Filling
<1>3. Sized(Pad(n), Filling(n)) BY <1>1, <1>2, SizedBlob
<1>4. Payload(Pad(n)) = <<>>
  <2> DEFINE m == Filling(n) a == Atom(m, "pad", m)
  <2>1. Silent(a) BY DEF Atom, Val, Silent
  <2>2. Pad(n) = IF m = 0 THEN <<>> ELSE <<a>> BY <1>2 DEF Blob
  <2> HIDE DEF a, m
  <2> QED BY <2>1, <2>2, PayloadNone, PayloadOne
<1> QED BY <1>1, <1>3, <1>4

LEMMA HeadKeeps ==
  ASSUME ParserInv, ParseHead
  PROVE  ParserInv'
<1> DEFINE c == Walk(ptr, Reads[kind])
<1>1. At("head") /\ Take("head", c.vals, c.p, c.p) BY DEF ParseHead
<1>2. kind # "sample" BY <1>1, AtIs
<1>3. kind \in DOMAIN KernelHead BY <1>2 DEF ParserInv, ConfigOK
<1>4. Reads[kind] = KernelHead[kind] /\ IsHead(KernelHead[kind], HeadSize[kind])
  BY <1>3, ReadsFit, HeadsAre
<1>5. ASSUME NEW q, NEW atoms, atoms \in KernelPart("head"), HeldAt(rec.at, ptr, q, atoms), q \in Nat
      PROVE  c.vals = Payload(atoms) /\ c.p \in Nat /\ c.p <= q /\ c.p = q
  <2>1. atoms = KernelHead[kind] BY <1>5 DEF KernelPart
  <2>2. IsAtoms(atoms) /\ \A i \in 1..Len(atoms) : atoms[i].val.of # "nr"
    BY <1>4, <2>1 DEF IsHead, Sized
  <2>3. Walk(ptr, atoms) = [p |-> q, vals |-> Payload(atoms)] BY <1>5, <2>2, WalkReads
  <2>4. c = [p |-> q, vals |-> Payload(atoms)] BY <1>4, <2>1, <2>3
  <2> HIDE DEF c
  <2>5. q <= q BY <1>5
  <2> QED BY <1>5, <2>4, <2>5
<1> HIDE DEF c
<1> QED BY <1>1, <1>5, SideStep

LEMMA NoTailKeeps ==
  ASSUME ParserInv, NoTail
  PROVE  ParserInv'
<1>1. /\ At("tail") /\ Take("tail", <<>>, ptr, ptr)
      /\ kind \notin WithString \cup {"text_poke", "read", "namespaces", "callchain_deferred"}
  BY DEF NoTail
<1>2. ASSUME NEW q, NEW atoms, atoms \in KernelPart("tail"), HeldAt(rec.at, ptr, q, atoms)
      PROVE  <<>> = Payload(atoms) /\ ptr \in Nat /\ ptr <= q /\ ptr = q
  <2>1. atoms = <<>> BY <1>1, <1>2, TailPart, TailKinds
  <2>2. ptr = q /\ ptr \in Nat BY <1>2, <2>1, HeldNone
  <2>3. ptr <= ptr BY <2>2
  <2> QED BY <2>1, <2>2, <2>3, PayloadNone
<1> QED BY <1>1, <1>2, SideStep

\* The cursor before a tail that ends in filling.
LEMMA TailAligned ==
  ASSUME ParserInv, At("tail"), kind \in WithString \cup {"text_poke"}
  PROVE  /\ base = 0 /\ ptr \in Nat /\ ptr % 8 = 0
         /\ kind = "text_poke" => ptr = 8
<1>1. ptr = HeadSize[kind] BY TailIs
<1>2. kind \in {"mmap", "mmap2", "mmap2_build_id", "comm", "cgroup", "ksymbol", "text_poke"}
  BY DEF WithString
<1>3. HeadSize[kind] \in {8, 16, 32, 64} /\ (kind = "text_poke" => HeadSize[kind] = 8)
  BY <1>2 DEF HeadSize
<1>4. base = 0 BY DEF ParserInv, ConfigOK
<1> HIDE DEF WithString
<1>5. ptr \in Nat /\ ptr % 8 = 0 BY <1>1, <1>3
<1> QED BY <1>1, <1>3, <1>4, <1>5

LEMMA StrKeeps ==
  ASSUME ParserInv, ParseStr
  PROVE  ParserInv'
<1> DEFINE n == StrLen(ptr)
           to == IF id_all THEN AlignOffset(ptr + n) ELSE ptr + n
<1>1. At("tail") /\ kind \in WithString /\ Take("tail", GetBytes(ptr, n), to, ptr + n) BY DEF ParseStr
<1>2. base = 0 /\ ptr \in Nat /\ ptr % 8 = 0 BY <1>1, TailAligned
<1>3. ~id_all => Final("tail") BY <1>1, TailIs
<1>4. ASSUME NEW q, NEW atoms, atoms \in KernelPart("tail"), HeldAt(rec.at, ptr, q, atoms), q \in Nat
      PROVE  /\ GetBytes(ptr, n) = Payload(atoms) /\ ptr + n \in Nat /\ ptr + n <= q
             /\ to = q \/ Final("tail")
  <2>1. PICK m \in Lengths : atoms = <<Atom(m, "str", m)>> \o Pad(m) BY <1>1, <1>4, TailPart, TailKinds
  <2> DEFINE a == Atom(m, "str", m) t == Pad(m)
  <2>2. m \in Nat /\ m > 0 BY SideAssumption
  <2>3. a.w = m /\ ~Silent(a) /\ a.val = Val("str", m) /\ a.val.of = "str" BY DEF Atom, Val, Silent
  <2>4. /\ Filling(m) \in Nat /\ Sized(t, Filling(m)) /\ Payload(t) = <<>>
        /\ (m + Filling(m)) % 8 = 0
    BY <2>2, PadIs
  <2>5. atoms = <<a>> \o t BY <2>1
  <2> HIDE DEF a, t
  <2>6. IsAtoms(t) /\ IsAtoms(<<a>>) BY <2>2, <2>3, <2>4, OneAtom DEF Sized
  <2>7. ptr \in DOMAIN rec.at /\ rec.at[ptr] = a /\ HeldAt(rec.at, ptr + m, q, t)
    BY <1>4, <2>2, <2>3, <2>5, <2>6, HeldFirst
  <2>8. n = m BY <2>3, <2>7 DEF StrLen
  <2>9. q = ptr + m + Filling(m) BY <2>4, <2>7 DEF Sized
  <2>10. GetBytes(ptr, m) = <<a.val>>
    <3>1. Get(ptr, m) = a.val BY <2>3, <2>7, GetIs
    <3> QED BY <2>2, <3>1 DEF GetBytes
  <2>11. Payload(atoms) = <<a.val>>
    <3>1. Payload(atoms) = Payload(<<a>>) \o Payload(t) BY <2>5, <2>6, PayloadCat
    <3>2. Payload(<<a>>) = <<a.val>> BY <2>3, PayloadOne
    <3>3. <<a.val>> \o <<>> = <<a.val>> OBVIOUS
    <3> QED BY <2>4, <3>1, <3>2, <3>3
  <2>12. AlignOffset(ptr + m) = q
    <3>1. (ptr + m) % 8 = m % 8 BY <1>2, <2>2
    <3>2. base + (ptr + m) = ptr + m BY <1>2, <2>2
    <3>3. AlignOffset(ptr + m) = (ptr + m) + Filling(m) BY <3>1, <3>2 DEF AlignOffset, Filling
    <3> QED BY <2>9, <3>3
  <2>13. to = q \/ Final("tail") BY <1>3, <2>8, <2>12
  <2>14. ptr + m \in Nat /\ ptr + m <= q BY <1>2, <2>2, <2>4, <2>9
  <2> QED BY <2>8, <2>10, <2>11, <2>13, <2>14
<1> HIDE DEF n, to
<1> QED BY <1>1, <1>4, SideStep

LEMMA TextPokeKeeps ==
  ASSUME ParserInv, ParseTextPoke
  PROVE  ParserInv'
<1> DEFINE n == Get(ptr, 2).n + Get(ptr + 2, 2).n
           end == ptr + 4 + n
           to == IF id_all THEN AlignOffset(end) ELSE end
<1>1. At("tail") /\ kind = "text_poke" /\ Take("tail", GetBytes(ptr + 4, n), to, end)
  BY DEF ParseTextPoke
<1>2. base = 0 /\ ptr = 8 BY <1>1, TailAligned
<1>3. ~id_all => Final("tail") BY <1>1, TailIs
<1>4. ASSUME NEW q, NEW atoms, atoms \in KernelPart("tail"), HeldAt(rec.at, ptr, q, atoms), q \in Nat
      PROVE  /\ GetBytes(ptr + 4, n) = Payload(atoms) /\ end \in Nat /\ end <= q
             /\ to = q \/ Final("tail")
  <2>1. PICK m \in Lengths : atoms = <<Atom(2, "nr", m), Atom(2, "nr", 1)>> \o Blob("code", m + 1)
                                       \o Pad(12 + m + 1)
    BY <1>1, <1>4, TailPart, TailKinds
  <2> DEFINE a == Atom(2, "nr", m) b == Atom(2, "nr", 1) s == <<a, b>> t == Blob("code", m + 1)
             u == Pad(12 + m + 1) f == Filling(12 + m + 1)
  <2>2. m \in Nat /\ m > 0 /\ m + 1 \in Nat /\ 12 + m + 1 \in Nat /\ Loud("code")
    BY SideAssumption DEF Loud
  <2>3. a.w = 2 /\ a.val.n = m /\ Silent(a) /\ b.w = 2 /\ b.val.n = 1 /\ Silent(b)
    BY DEF Atom, Val, Silent
  <2>4. atoms = (s \o t) \o u BY <2>1
  <2>5. f \in Nat /\ Sized(u, f) /\ Payload(u) = <<>> BY <2>2, PadIs
  <2>6. IsAtoms(t) BY <2>2, BlobAre
  <2>7. IsAtoms(s) BY <2>3, TwoAtoms
  <2> HIDE DEF u, f, t
  <2>8. IsAtoms(u) BY <2>5 DEF Sized
  <2>a. IsAtoms(s \o t) BY <2>6, <2>7, AtomsCat
  <2>9. PICK r \in Nat : HeldAt(rec.at, ptr, r, s \o t) /\ HeldAt(rec.at, r, q, u)
    BY <1>4, <2>4, <2>8, <2>a, HeldCat
  <2>10. PICK o \in Nat : HeldAt(rec.at, ptr, o, s) /\ HeldAt(rec.at, o, r, t)
    BY <2>6, <2>7, <2>9, HeldCat
  <2> HIDE DEF a, b
  <2>11. /\ ptr \in DOMAIN rec.at /\ rec.at[ptr] = a
         /\ ptr + a.w \in DOMAIN rec.at /\ rec.at[ptr + a.w] = b /\ o = ptr + a.w + b.w
    BY <2>10, HeldTwo
  <2>12. Get(ptr, 2) = a.val /\ Get(ptr + 2, 2) = b.val BY <2>3, <2>11, GetIs
  <2>13. n = m + 1 BY <2>3, <2>12
  <2>14. o = ptr + 4 BY <1>2, <2>3, <2>11
  <2>15. r = o + (m + 1) /\ Payload(t) = GetBytes(o, m + 1) BY <2>2, <2>10, BlobRead DEF t
  <2>16. q = r + f BY <2>5, <2>9 DEF Sized
  <2>17. Payload(s) = <<>>
    <3>1. s = <<a>> \o <<b>> BY TwoIs
    <3>2. IsAtoms(<<b>>) BY <2>3, OneAtom
    <3>3. Payload(<<a>> \o <<b>>) = Payload(<<b>>)
      <4>1. a.w \in Nat /\ a.w > 0 BY <2>3
      <4> QED BY <2>3, <3>2, <4>1, PayloadAfter
    <3>4. Payload(<<b>>) = <<>> BY <2>3, PayloadOne
    <3> QED BY <3>1, <3>3, <3>4
  <2> HIDE DEF s
  <2>18. Payload(atoms) = GetBytes(ptr + 4, m + 1)
    <3>1. Payload(atoms) = (Payload(s) \o Payload(t)) \o Payload(u)
      <4>1. Payload(atoms) = Payload(s \o t) \o Payload(u) BY <2>4, <2>8, <2>a, PayloadCat
      <4>2. Payload(s \o t) = Payload(s) \o Payload(t) BY <2>6, <2>7, PayloadCat
      <4> QED BY <4>1, <4>2
    <3>2. PICK v : Payload(t) = <<v>> BY <2>2, <2>15 DEF GetBytes
    <3>3. (<<>> \o <<v>>) \o <<>> = <<v>> OBVIOUS
    <3>4. Payload(atoms) = Payload(t) BY <2>5, <2>17, <3>1, <3>2, <3>3
    <3> QED BY <2>14, <2>15, <3>4
  <2>19. end = r BY <1>2, <2>2, <2>13, <2>14, <2>15
  <2>20. r = 12 + m + 1 BY <1>2, <2>2, <2>14, <2>15
  <2>21. AlignOffset(r) = q BY <1>2, <2>2, <2>16, <2>20 DEF AlignOffset, Filling, f
  <2>22. r <= q BY <2>5, <2>16
  <2> HIDE DEF n, end
  <2>23. to = q \/ Final("tail") BY <1>3, <2>19, <2>21
  <2> QED BY <2>13, <2>18, <2>19, <2>22, <2>23
<1> HIDE DEF n, end, to
<1> QED BY <1>1, <1>4, SideStep

LEMMA StatKeeps ==
  ASSUME ParserInv, ParseStat
  PROVE  ParserInv'
<1> DEFINE d == [id |-> 1, count |-> 2, lost |-> 3, enabled |-> 4, running |-> 5]
           w == St!KernelWords(<<d>>, format)
<1>1. At("tail") /\ kind = "read" /\ TakeStat("tail", 9) BY DEF ParseStat
<1>2. Take("tail", StatVals(9), StatEnd(9), StatEnd(9)) BY <1>1, TakeStatIs
<1>3. "group" \notin format BY <1>1 DEF ParserInv, ConfigOK
<1>4. IsEvent(d) BY DEF IsEvent
<1>5. Alone = <<d>> BY DEF Alone
<1> HIDE DEF d
<1>6. w \in Seq(Nat) /\ Len(w) <= 9 /\ Len(w) > 0 /\ \A buf : St!WordsParsed(buf, format) = Len(w)
  BY <1>3, <1>4, AloneWords
<1>7. ASSUME NEW q, NEW atoms, atoms \in KernelPart("tail"), HeldAt(rec.at, ptr, q, atoms), q \in Nat
      PROVE  /\ StatVals(9) = Payload(atoms) /\ StatEnd(9) \in Nat /\ StatEnd(9) <= q
             /\ StatEnd(9) = q
  <2>1. atoms = StatAtoms(Alone) BY <1>1, <1>7, TailPart, TailKinds
  <2>2. w = St!KernelWords(Alone, format) BY <1>5
  <2>3. 9 \in Nat OBVIOUS
  <2> HIDE DEF w
  <2>4. q = StatEnd(9) /\ Payload(StatAtoms(Alone)) = StatVals(9)
    BY <1>6, <1>7, <2>1, <2>2, <2>3, StatRead
  <2>5. q <= q BY <1>7
  <2> QED BY <1>7, <2>1, <2>4, <2>5
<1> QED BY <1>1, <1>2, <1>7, SideStep

\* A count at the cursor, and so many words.
LEMMA ListRead ==
  ASSUME NEW n \in Nat, NEW of, Loud(of), NEW q, HeldAt(rec.at, ptr, q, <<Nr(n)>> \o Words(of, n))
  PROVE  /\ ptr \in Nat /\ Get(ptr, 8).n = n /\ q = ptr + 8 + 8 * n
         /\ Payload(<<Nr(n)>> \o Words(of, n)) = GetAll(ptr + 8, 8, n)
<1> DEFINE t == Words(of, n)
<1>1. IsAtoms(t) BY WordsAre
<1>2. 8 \in Nat /\ 8 > 0 OBVIOUS
<1>3. HeldAt(rec.at, ptr, q, <<Atom(8, "nr", n)>> \o t) BY DEF Nr
<1>4. /\ ptr \in Nat /\ Get(ptr, 8).n = n /\ HeldAt(rec.at, ptr + 8, q, t)
      /\ Payload(<<Atom(8, "nr", n)>> \o t) = Payload(t)
  <2> HIDE DEF t
  <2> QED BY <1>1, <1>2, <1>3, CountRead
<1>5. q = ptr + 8 + 8 * n /\ Payload(t) = GetAll(ptr + 8, 8, n) BY <1>4, WordsRead
<1> QED BY <1>4, <1>5 DEF Nr

LEMMA NamespacesKeeps ==
  ASSUME ParserInv, ParseNamespaces
  PROVE  ParserInv'
<1> DEFINE n == Get(ptr, 8).n
           vals == GetAll(ptr + 8, 8, 2 * n)
           end == ptr + 8 + 16 * n
<1>1. At("tail") /\ kind = "namespaces" /\ Take("tail", vals, ptr + 8, end) BY DEF ParseNamespaces
<1>2. Final("tail")
  <2>1. kind # "sample" /\ ~id_all BY <1>1 DEF ParserInv, ConfigOK
  <2> QED BY <1>1, <2>1, TailIs
<1>3. ASSUME NEW q, NEW atoms, atoms \in KernelPart("tail"), HeldAt(rec.at, ptr, q, atoms), q \in Nat
      PROVE  vals = Payload(atoms) /\ end \in Nat /\ end <= q
  <2> DEFINE t == Words("dev_inode", 14)
  <2>1. atoms = <<Nr(7)>> \o t BY <1>1, <1>3, TailPart, TailKinds
  <2>2. 14 \in Nat /\ 8 \in Nat /\ 8 > 0 /\ Loud("dev_inode") BY DEF Loud
  <2>3. IsAtoms(t) BY <2>2, WordsAre
  <2>4. HeldAt(rec.at, ptr, q, <<Atom(8, "nr", 7)>> \o t) BY <1>3, <2>1 DEF Nr
  <2>5. /\ ptr \in Nat /\ n = 7 /\ HeldAt(rec.at, ptr + 8, q, t)
        /\ Payload(<<Atom(8, "nr", 7)>> \o t) = Payload(t)
    <3> HIDE DEF t
    <3> QED BY <2>2, <2>3, <2>4, CountRead
  <2>6. q = ptr + 8 + 8 * 14 /\ Payload(t) = GetAll(ptr + 8, 8, 14) BY <2>2, <2>5, WordsRead
  <2>7. Payload(atoms) = Payload(t) BY <2>1, <2>5 DEF Nr
  <2> HIDE DEF t, n
  <2>8. end = q /\ vals = GetAll(ptr + 8, 8, 14) BY <2>5, <2>6
  <2>9. q <= q BY <1>3
  <2> HIDE DEF end, vals
  <2> QED BY <1>3, <2>6, <2>7, <2>8, <2>9
<1> HIDE DEF vals, end
<1> QED BY <1>1, <1>2, <1>3, SideStep

LEMMA CallChainDeferredKeeps ==
  ASSUME ParserInv, ParseCallChainDeferred
  PROVE  ParserInv'
<1> DEFINE n == Get(ptr, 8).n
           vals == GetAll(ptr + 8, 8, n)
           end == ptr + 8 + 8 * n
<1>1. At("tail") /\ kind = "callchain_deferred" /\ Take("tail", vals, end, end)
  BY DEF ParseCallChainDeferred
<1>2. ASSUME NEW q, NEW atoms, atoms \in KernelPart("tail"), HeldAt(rec.at, ptr, q, atoms), q \in Nat
      PROVE  vals = Payload(atoms) /\ end \in Nat /\ end <= q /\ end = q
  <2>1. PICK m \in Lengths : atoms = <<Nr(m)>> \o Words("ip", m) BY <1>1, <1>2, TailPart, TailKinds
  <2>2. m \in Nat /\ Loud("ip") BY SideAssumption DEF Loud
  <2>3. /\ ptr \in Nat /\ n = m /\ q = ptr + 8 + 8 * m
        /\ Payload(atoms) = GetAll(ptr + 8, 8, m)
    BY <1>2, <2>1, <2>2, ListRead
  <2> HIDE DEF n
  <2>4. end = q /\ vals = Payload(atoms) BY <2>3
  <2>5. q <= q BY <1>2
  <2> HIDE DEF end, vals
  <2> QED BY <1>2, <2>4, <2>5
<1> HIDE DEF vals, end
<1> QED BY <1>1, <1>2, SideStep

LEMMA IdTaskKeeps ==
  ASSUME ParserInv, ParseIdTask
  PROVE  ParserInv'
<1> DEFINE vals == GetAll(ptr, 4, 2)
<1>1. At("task") /\ Take("task", vals, ptr + 8, ptr + 8) BY DEF ParseIdTask
<1>2. ASSUME NEW q, NEW atoms, atoms \in KernelPart("task"), HeldAt(rec.at, ptr, q, atoms), q \in Nat
      PROVE  vals = Payload(atoms) /\ ptr + 8 \in Nat /\ ptr + 8 <= q /\ ptr + 8 = q
  <2> DEFINE a == U32("id_pid") b == U32("id_tid")
  <2>1. atoms = <<a, b>> BY <1>2 DEF KernelPart, KernelId
  <2>2. a.w = 4 /\ b.w = 4 /\ ~Silent(a) /\ ~Silent(b) BY DEF U32, Atom, Val, Silent
  <2> HIDE DEF a, b
  <2>3. 4 \in Nat /\ 4 > 0 OBVIOUS
  <2>4. ptr \in Nat /\ q = ptr + 4 + 4 /\ Payload(<<a, b>>) = GetAll(ptr, 4, 2)
    BY <1>2, <2>1, <2>2, <2>3, PairRead
  <2>5. ptr + 8 \in Nat /\ ptr + 8 <= q /\ ptr + 8 = q BY <2>4
  <2> QED BY <2>1, <2>4, <2>5
<1> HIDE DEF vals
<1> QED BY <1>1, <1>2, SideStep

LEMMA IdWordKeeps ==
  ASSUME ParserInv, ParseIdWord
  PROVE  ParserInv'
<1>1. PICK f \in {"time", "id", "stream_id"} : At(f) /\ Take(f, <<Get(ptr, 8)>>, ptr + 8, ptr + 8)
  BY DEF ParseIdWord
<1>2. ASSUME NEW q, NEW atoms, atoms \in KernelPart(f), HeldAt(rec.at, ptr, q, atoms), q \in Nat
      PROVE  <<Get(ptr, 8)>> = Payload(atoms) /\ ptr + 8 \in Nat /\ ptr + 8 <= q /\ ptr + 8 = q
  <2>1. PICK of \in {"id_time", "id_id", "id_stream_id"} : atoms = <<Word(of)>>
    BY <1>2 DEF KernelPart, KernelId
  <2>2. Loud(of) BY DEF Loud
  <2>3. ptr \in Nat /\ q = ptr + 8 /\ Payload(<<Word(of)>>) = <<Get(ptr, 8)>>
    BY <1>2, <2>1, <2>2, WordRead
  <2>4. ptr + 8 \in Nat /\ ptr + 8 <= q BY <2>3
  <2> QED BY <2>1, <2>3, <2>4
<1> QED BY <1>1, <1>2, SideStep

LEMMA IdCpuKeeps ==
  ASSUME ParserInv, ParseIdCpu
  PROVE  ParserInv'
<1> DEFINE vals == <<Get(ptr, 4)>>
<1>1. At("cpu") /\ Take("cpu", vals, ptr + 4, ptr + 4) BY DEF ParseIdCpu
<1>2. Final("cpu")
  <2>1. kind # "sample" /\ Next("cpu") BY <1>1, AtIs
  <2>2. Order[N] = "cpu" BY <2>1 DEF Order, N, KernelSideOrder
  <2> QED BY <2>1, <2>2, LastIs DEF ParserInv
<1>3. ASSUME NEW q, NEW atoms, atoms \in KernelPart("cpu"), HeldAt(rec.at, ptr, q, atoms), q \in Nat
      PROVE  vals = Payload(atoms) /\ ptr + 4 \in Nat /\ ptr + 4 <= q
  <2> DEFINE a == U32("id_cpu") b == Atom(4, "pad", 0)
  <2>1. atoms = <<a, b>> BY <1>3 DEF KernelPart, KernelId
  <2>2. a.w = 4 /\ b.w = 4 /\ ~Silent(a) /\ Silent(b) BY DEF U32, Atom, Val, Silent
  <2> HIDE DEF a, b
  <2>3. ptr \in Nat /\ ptr \in DOMAIN rec.at /\ rec.at[ptr] = a /\ q = ptr + a.w + b.w
    BY <1>3, <2>1, HeldTwo
  <2>4. Get(ptr, 4) = a.val BY <2>2, <2>3, GetIs
  <2>5. Payload(<<a, b>>) = <<a.val>> BY <2>2, PaddedRead
  <2>6. ptr + 4 \in Nat /\ ptr + 4 <= q BY <2>2, <2>3
  <2> QED BY <2>1, <2>4, <2>5, <2>6
<1> HIDE DEF vals
<1> QED BY <1>1, <1>2, <1>3, SideStep

\* What the kernel writes for a part of these records.
LEMMA PartAtoms ==
  ASSUME ConfigOK, kind # "sample", NEW f \in Parts, NEW atoms \in KernelPart(f)
  PROVE  IsAtoms(atoms)
<1>0. f \in {"head", "tail", "task", "time", "id", "stream_id", "cpu"}
  BY DEF Parts, ConfigOK, RecordIdFields
<1>1. CASE f = "head"
  <2>1. atoms = KernelHead[kind] BY <1>1 DEF KernelPart
  <2>2. IsHead(KernelHead[kind], HeadSize[kind]) BY HeadsAre DEF ConfigOK
  <2> QED BY <2>1, <2>2 DEF IsHead, Sized
<1>2. CASE f = "tail"
  <2>1. PICK m \in Lengths : atoms = KernelTail(m) BY <1>2, TailPart
  <2>2. m \in Nat /\ m > 0 BY SideAssumption
  <2>3. CASE kind \in WithString
    <3> DEFINE a == Atom(m, "str", m)
    <3>1. atoms = <<a>> \o Pad(m) BY <2>1, <2>3, TailKinds
    <3>2. a.w = m BY DEF Atom
    <3> HIDE DEF a
    <3>3. IsAtoms(<<a>>) /\ IsAtoms(Pad(m)) BY <2>2, <3>2, OneAtom, PadIs DEF Sized
    <3> QED BY <3>1, <3>3, AtomsCat
  <2>4. CASE kind = "text_poke"
    <3> DEFINE a == Atom(2, "nr", m) b == Atom(2, "nr", 1) s == <<a, b>> t == Blob("code", m + 1)
               u == Pad(12 + m + 1)
    <3>1. atoms = (s \o t) \o u BY <2>1, <2>4, TailKinds
    <3>2. a.w = 2 /\ b.w = 2 BY DEF Atom
    <3>3. IsAtoms(s)
      <4> HIDE DEF a, b
      <4> QED BY <3>2, TwoAtoms
    <3>4. m + 1 \in Nat /\ 12 + m + 1 \in Nat BY <2>2
    <3>5. IsAtoms(t) BY <3>4, BlobAre
    <3>6. IsAtoms(u) BY <3>4, PadIs DEF Sized
    <3> HIDE DEF s, t, u
    <3> QED BY <3>1, <3>3, <3>5, <3>6, AtomsCat
  <2>5. CASE kind = "read"
    <3> DEFINE d == [id |-> 1, count |-> 2, lost |-> 3, enabled |-> 4, running |-> 5]
               w == St!KernelWords(<<d>>, format)
    <3>1. atoms = StatAtoms(Alone) BY <2>1, <2>5, TailKinds
    <3>2. IsEvent(d) BY DEF IsEvent
    <3>3. Alone = <<d>> BY DEF Alone
    <3>4. "group" \notin format BY <2>5 DEF ConfigOK
    <3> HIDE DEF d
    <3>5. w \in Seq(Nat) BY <3>2, <3>4, AloneWords
    <3> QED BY <3>1, <3>3, <3>5, StatAtomsAre
  <2>6. CASE kind = "namespaces"
    <3> DEFINE a == Nr(7)
    <3>1. atoms = <<a>> \o Words("dev_inode", 14) BY <2>1, <2>6, TailKinds
    <3>2. IsAtoms(<<a>>) BY SizedNr DEF Sized
    <3>3. 14 \in Nat OBVIOUS
    <3>4. IsAtoms(Words("dev_inode", 14)) BY <3>3, WordsAre
    <3> HIDE DEF a
    <3> QED BY <3>1, <3>2, <3>4, AtomsCat
  <2>7. CASE kind = "callchain_deferred"
    <3> DEFINE a == Nr(m)
    <3>1. atoms = <<a>> \o Words("ip", m) BY <2>1, <2>7, TailKinds
    <3>2. IsAtoms(<<a>>) BY SizedNr DEF Sized
    <3>4. IsAtoms(Words("ip", m)) BY <2>2, WordsAre
    <3> HIDE DEF a
    <3> QED BY <3>1, <3>2, <3>4, AtomsCat
  <2>8. CASE kind \notin WithString \cup {"text_poke", "read", "namespaces", "callchain_deferred"}
    BY <2>1, <2>8, TailKinds, NoAtoms
  <2> QED BY <2>3, <2>4, <2>5, <2>6, <2>7, <2>8
<1>3. CASE f \in {"time", "id", "stream_id"}
  <2>1. \E of : atoms = <<Word(of)>> BY <1>3 DEF KernelPart, KernelId
  <2> QED BY <2>1, SizedWord DEF Sized
<1>4. CASE f \in {"task", "cpu"}
  <2>1. PICK x, y : atoms = <<Atom(4, x, 0), Atom(4, y, 0)>> BY <1>4 DEF KernelPart, KernelId, U32
  <2> DEFINE a == Atom(4, x, 0) b == Atom(4, y, 0)
  <2>2. a.w = 4 /\ b.w = 4 BY DEF Atom
  <2>3. atoms = <<a, b>> BY <2>1
  <2> HIDE DEF a, b
  <2> QED BY <2>2, <2>3, TwoAtoms
<1> QED BY <1>0, <1>1, <1>2, <1>3, <1>4

LEMMA SideKeeps ==
  ASSUME ParserInv, WriteSide \/ ParseSide
  PROVE  ParserInv'
<1>1. CASE WriteSide
  <2> DEFINE f == First(KernelSideOrder, Parts \ DOMAIN meant)
  <2>1. kind # "sample" /\ Parts \ DOMAIN meant # {} BY <1>1 DEF WriteSide
  <2>2. PICK atoms \in KernelPart(f) : Write(f, atoms) BY <1>1 DEF WriteSide
  <2>3. Order = KernelSideOrder /\ AllParts = Parts /\ Put(f) = KernelPart(f)
    BY <2>1 DEF Order, AllParts, Put
  <2>4. f = First(Order, AllParts \ DOMAIN meant) BY <2>3
  <2>5. f \in Parts
    <3>1. PICK i \in 1..N : Foremost(i, AllParts \ DOMAIN meant) /\ f = Order[i]
      BY <2>1, <2>3, <2>4, FirstIs DEF ParserInv
    <3> QED BY <2>3, <3>1 DEF Foremost
  <2> HIDE DEF f
  <2>6. IsAtoms(atoms) BY <2>1, <2>2, <2>5, PartAtoms DEF ParserInv
  <2> QED BY <2>1, <2>2, <2>3, <2>4, <2>6, PartKeeps
<1>2. CASE ParseSide
  BY <1>2, HeadKeeps, NoTailKeeps, StrKeeps, TextPokeKeeps, StatKeeps, NamespacesKeeps,
     CallChainDeferredKeeps, IdTaskKeeps, IdWordKeeps, IdCpuKeeps
     DEF ParseSide
<1> QED BY <1>1, <1>2

LEMMA RestKeeps ==
  ASSUME ParserInv, UNCHANGED parserVars
  PROVE  ParserInv'
<1>1. /\ UNCHANGED config /\ rec' = rec /\ meant' = meant /\ ptr' = ptr /\ got' = got
      /\ reach' = reach
  BY DEF parserVars, parsed
<1>2. /\ Order' = Order /\ N' = N /\ AllParts' = AllParts /\ ConfigOK' = ConfigOK
      /\ \A f : Put(f)' = Put(f)
      /\ kind' = kind /\ flags' = flags
  BY <1>1, SameConfig DEF config
<1>3. PICK pos : Shape(pos) /\ Cursor(pos) BY DEF ParserInv
<1>4. Shape(pos)' BY <1>1, <1>2, <1>3 DEF Shape
<1>5. Cursor(pos)' BY <1>1, <1>2, <1>3 DEF Cursor, Foremost
<1>6. ConfigOK' /\ BytesOK(rec)' BY <1>1, <1>2 DEF ParserInv, BytesOK
<1>7. Prefix(DOMAIN meant)' /\ Prefix(DOMAIN got)' BY <1>1, <1>2 DEF ParserInv, Prefix
<1>8. /\ (IF DOMAIN got = {} THEN ptr = 0 /\ reach = 0 ELSE DOMAIN meant = AllParts)'
      /\ (\A f \in DOMAIN got : got[f] = meant[f])'
      /\ (kind = "sample" /\ DOMAIN meant = flags /\ DOMAIN got = flags => reach = rec.size)'
      /\ (reach <= rec.size)'
  BY <1>1, <1>2 DEF ParserInv
<1> QED BY <1>4, <1>5, <1>6, <1>7, <1>8 DEF ParserInv

LEMMA InitIsInv ==
  ASSUME Bases = {0}, NamespacesWithId = FALSE, ParserInit
  PROVE  ParserInv
<1>1. /\ base = 0 /\ rec.size = 0 /\ DOMAIN rec.at = {} /\ DOMAIN meant = {} /\ DOMAIN got = {}
      /\ ptr = 0 /\ reach = 0
  <2>1. Blank BY DEF ParserInit, SampleInit, SideInit
  <2>2. base = 0 /\ rec = Empty /\ meant = Nothing /\ ptr = 0 /\ got = Nothing /\ reach = 0
    BY <2>1 DEF Blank
  <2>3. Empty.size = 0 /\ Empty.at = [p \in {} |-> Nr(0)] BY DEF Empty
  <2>4. DOMAIN [p \in {} |-> Nr(0)] = {} OBVIOUS
  <2>5. DOMAIN Nothing = {} BY DEF Nothing
  <2> QED BY <2>2, <2>3, <2>4, <2>5
<1>2. ConfigOK
  <2>1. CASE SampleInit
    <3>1. kind = "sample" /\ flags \subseteq Fields BY <2>1, SampleAssumption DEF SampleInit
    <3>2. format \subseteq St!Flags BY <2>1 DEF SampleInit
    <3> QED BY <1>1, <3>1, <3>2 DEF ConfigOK
  <2>2. CASE SideInit
    <3>1. kind \in DOMAIN KernelHead BY <2>2, SideAssumption DEF SideInit
    <3>2. kind # "sample" BY <3>1, HeadKinds
    <3>3. flags \subseteq RecordIdFields BY <2>2 DEF SideInit
    <3>4. format \subseteq St!Flags \ {"group"} BY <2>2 DEF SideInit
    <3>5. kind = "namespaces" => ~id_all BY <2>2 DEF SideInit
    <3> QED BY <1>1, <3>1, <3>2, <3>3, <3>4, <3>5 DEF ConfigOK
  <2> QED BY <2>1, <2>2 DEF ParserInit
<1>3. N \in Nat /\ N > 0 BY <1>2, OrderFacts
<1>4. Prefix(DOMAIN meant) /\ Prefix(DOMAIN got) BY <1>1 DEF Prefix
<1>5. BytesOK(rec) BY <1>1 DEF BytesOK
<1> DEFINE pos == [i \in 1..(N + 1) |-> 0]
<1>6. pos \in [1..(N + 1) -> Nat] /\ \A i \in 1..(N + 1) : pos[i] = 0 OBVIOUS
<1>7. 1 \in 1..(N + 1) /\ N + 1 \in 1..(N + 1) /\ N \in 1..N BY <1>3
<1> HIDE DEF pos
<1>8. Shape(pos)
  <2>1. pos[1] = 0 /\ pos[N + 1] = rec.size BY <1>1, <1>6, <1>7
  <2>2. \A i, j \in 1..(N + 1) : pos[i] <= pos[j] /\ pos[i] = pos[j] BY <1>6
  <2>3. \A i \in 1..(N + 1) : pos[i] % 8 = 0 BY <1>6
  <2> QED BY <1>1, <1>6, <2>1, <2>2, <2>3 DEF Shape
<1>9. Cursor(pos)
  <2>1. \A i \in 1..N : i \in 1..(N + 1) BY <1>3
  <2> QED BY <1>1, <1>6, <2>1 DEF Cursor
<1>10. (kind = "sample" /\ DOMAIN meant = flags /\ DOMAIN got = flags => reach = rec.size)
       /\ reach <= rec.size
  BY <1>1
<1> QED BY <1>1, <1>2, <1>4, <1>5, <1>8, <1>9, <1>10 DEF ParserInv

-----------------------------------------------------------------------------
\* The parser is always at the first byte of the next field it has to take, every part
\* of the record having been laid down, in the order of the kernel, between positions
\* that a whole reading would go through: for any sets of fields, numbers of registers and
\* lengths.  (The bytes are aligned; the kernel writes no branch stack with an index and
\* no entries, and no record id after the namespaces.)
THEOREM ParserInvAlways ==
  ASSUME Bases = {0}, EmptyStacks = FALSE, NamespacesWithId = FALSE
  PROVE  ParserSpec => []ParserInv
<1>1. ParserInit => ParserInv BY InitIsInv
<1>2. ParserInv /\ [ParserNext]_parserVars => ParserInv'
  BY SampleKeeps, SideKeeps, RestKeeps DEF ParserNext
<1> QED BY <1>1, <1>2, PTL DEF ParserSpec

\* Under the same conditions, every field parsed has the values that the kernel wrote
\* into it, be it a sample or any other record.
THEOREM FieldsComeBack ==
  ASSUME Bases = {0}, EmptyStacks = FALSE, NamespacesWithId = FALSE
  PROVE  ParserSpec => []FieldsAreExact
<1>1. ParserSpec => []ParserInv BY ParserInvAlways
<1>2. ParserInv => FieldsAreExact BY InvIsSafe
<1> QED BY <1>1, <1>2, PTL

\* Under the same conditions, no byte after the record is looked at, and a sample is
\* used up.
THEOREM ParserStaysIn ==
  ASSUME Bases = {0}, EmptyStacks = FALSE, NamespacesWithId = FALSE
  PROVE  ParserSpec => []StaysInRecord
<1>1. ParserSpec => []ParserInv BY ParserInvAlways
<1>2. ParserInv => StaysInRecord BY InvIsSafe
<1> QED BY <1>1, <1>2, PTL
=============================================================================
