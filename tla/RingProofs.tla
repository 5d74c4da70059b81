----------------------------- MODULE RingProofs -----------------------------
(* What is written to a ring goes there in accesses that fit (AccessesFit of RingBuffers), and is  *)
(* read from it again (BytesKeepPlace).                                                            *)
(*                                                                                                 *)
(* The word at the end of the ring is split, and the words behind it are put together anew.  To    *)
(* know that the last one of them ends where its command does, one has to know of each byte where  *)
(* it belongs, from the write that was accepted to the memory.  That is the inductive invariant,   *)
(* WriterInv: pkgBuffer holds the words of the package in work and of those that will follow it    *)
(* (Pending); wrData holds the words of the commands, but for the bytes of the last one that are   *)
(* missing as yet (Commanded); and for each state of the writer, where the bytes are that are      *)
(* missing: in pkgBuffer, or in the word that has been split.                                      *)
(*                                                                                                 *)
(* BytesKeepPlace goes on from there, as long as no access fails (BytesInv).  BytesWritten: the    *)
(* stream, from what is made known to what was accepted, is the accesses that are done and not yet *)
(* made known (Reported), those in work and the writes to do (InWork), one behind the other;       *)
(* doubleAccess says which of the notices wait for two reports (Counted); and the memory holds the *)
(* stream up to what it took last, its last lap for certain (InMemory), which is all that is not   *)
(* free as long as no FIN has come (Ordered).  BytesRead: likewise, from the answer to what is     *)
(* asked for, the words that arrived (Arrived), the commands (Asked) and the second access         *)
(* (LeftOver); and for each state of the reader, what the answer has and what waits in the held    *)
(* word (Answered).                                                                                *)
EXTENDS RingBuffers, TLAPS

(* Division with remainder. *)
LEMMA RemainderIs ==
  ASSUME NEW n \in Int, NEW w \in Nat \ {0}, NEW q \in Int, NEW r \in 0 .. w - 1, n = w * q + r
  PROVE  n % w = r
OBVIOUS

LEMMA RemainderRange ==
  ASSUME NEW n \in Int, NEW w \in Nat \ {0}
  PROVE  n % w \in 0 .. w - 1 /\ n % w \in Nat
OBVIOUS

LEMMA RemainderOf ==
  ASSUME NEW n \in Int, NEW w \in Nat \ {0}
  PROVE  \E q \in Int : n = w * q + (n % w)
<1> DEFINE q == n \div w
           r == n - w * q
<1>1. q \in Int OBVIOUS
<1>2. w * q <= n OBVIOUS
<1>3. n < w * q + w OBVIOUS
<1>4. w * q \in Int BY <1>1
<1>5. r \in 0 .. w - 1 BY <1>2, <1>3, <1>4
<1>6. n = w * q + r BY <1>4
<1> HIDE DEF r, q
<1>7. n % w = r BY <1>1, <1>5, <1>6, RemainderIs
<1>8. n = w * q + (n % w) BY <1>6, <1>7
<1> QED BY <1>1, <1>8

LEMMA RemainderMoves ==
  ASSUME NEW n \in Int, NEW w \in Nat \ {0}, NEW k \in Int, (n % w) + k \in 0 .. w - 1
  PROVE (n + k) % w = (n % w) + k
OBVIOUS

LEMMA RemainderWraps ==
  ASSUME NEW n \in Int, NEW w \in Nat \ {0}, NEW k \in Int, (n % w) + k \in w .. w + w - 1
  PROVE (n + k) % w = (n % w) + k - w
<1>1. PICK q \in Int : n = w * q + (n % w) BY RemainderOf
<1>2. n % w \in Int BY RemainderRange
<1>3. (n % w) + k - w \in 0 .. w - 1 BY <1>2
<1> DEFINE x == w * q
           y == w * (q + 1)
           r == n % w
<1>4. y = x + w /\ x \in Int /\ r \in Int /\ n = x + r BY <1>1, <1>2
<1> HIDE DEF x, y, r
<1>5. n + k = y + (r + k - w) BY <1>4
<1>6. n + k \in Int /\ q + 1 \in Int OBVIOUS
<1>7. n + k = w * (q + 1) + ((n % w) + k - w) BY <1>5 DEF y, r
<1> QED BY <1>3, <1>6, <1>7, RemainderIs

LEMMA RemainderDiffers ==
  ASSUME NEW n \in Int, NEW w \in Nat \ {0}, NEW k \in Int, k < w, 0 < k
  PROVE (n + k) % w # n % w
<1>1. n % w \in 0 .. w - 1 BY RemainderRange
<1>2. CASE (n % w) + k < w 
  <2>2. (n % w) + k \in 0 .. w - 1 BY <1>1, <1>2
  <2>3. (n + k) % w = (n % w) + k BY <2>2, RemainderMoves
  <2> QED BY <2>3, <1>1
<1>3. CASE (n % w) + k >= w 
  <2>2. (n % w) + k \in w .. w + w - 1 BY <1>1, <1>3
  <2>3. (n + k) % w = (n % w) + k - w BY <2>2, RemainderWraps
  <2> QED BY <2>3, <1>1
<1> QED BY <1>1, <1>2, <1>3

(* n bytes fill K words, and no fewer. *)
LEMMA WordCount ==
  ASSUME NEW n \in Nat \ {0}, NEW w \in Nat \ {0}
  PROVE  LET K == (n + w - 1) \div w IN K \in Nat /\ K >= 1 /\ K * w >= n /\ (K - 1) * w < n
OBVIOUS

LEMMA MultipleOf ==
  ASSUME NEW n \in Int, NEW w \in Nat \ {0}, n % w = 0
  PROVE  \E q \in Int : n = w * q
<1>1. PICK q \in Int : n = w * q + (n % w) BY RemainderOf
<1> QED BY <1>1

LEMMA AlignedRest ==
  ASSUME NEW w \in Nat \ {0}, NEW b \in Nat, b % w = 0, NEW a \in Nat, a % w = 0
  PROVE  (b - a) % w = 0
<1>1. PICK q \in Int : b = w * q BY MultipleOf
<1>2. \E p \in Int : a = w * p
  <2>1. a \in Int /\ a % w = 0 OBVIOUS
  <2> QED BY <2>1, MultipleOf, Zenon
<1>5. PICK p \in Int : a = w * p BY <1>2
<1>3. b - a = w * (q - p) + 0 BY <1>1, <1>5
<1>4. b - a \in Int /\ q - p \in Int /\ 0 \in 0 .. w - 1 OBVIOUS
<1> QED BY <1>3, <1>4, RemainderIs

LEMMA AlignedNext ==
  ASSUME NEW w \in Nat \ {0}, NEW a \in Nat, a % w = 0
  PROVE  (a - w) % w = 0
<1>1. PICK p \in Int : a = w * p BY MultipleOf
<1>2. a - w = w * (p - 1) + 0 BY <1>1
<1>3. a - w \in Int /\ p - 1 \in Int /\ 0 \in 0 .. w - 1 OBVIOUS
<1> QED BY <1>2, <1>3, RemainderIs

LEMMA AlignedLast ==
  ASSUME NEW w \in Nat \ {0}, NEW a \in 1 .. w, a % w = 0
  PROVE  a = w
OBVIOUS

----------------------------------------------------------------------------
(* Sequences.                                                              *)

LEMMA TailIs ==
  ASSUME NEW T, NEW q \in Seq(T), q # <<>>
  PROVE  /\ Head(q) \in T /\ Head(q) = q[1] /\ Tail(q) \in Seq(T)
         /\ Len(q) \in Nat /\ Len(q) > 0 /\ Len(Tail(q)) = Len(q) - 1
         /\ \A k \in 1 .. Len(q) - 1 : Tail(q)[k] = q[k + 1]
OBVIOUS

LEMMA ElementIs ==
  ASSUME NEW T, NEW q \in Seq(T), NEW k \in 1 .. Len(q)
  PROVE  q[k] \in T
OBVIOUS

LEMMA AppendIs ==
  ASSUME NEW T, NEW q \in Seq(T), NEW e \in T
  PROVE  /\ Append(q, e) \in Seq(T) /\ Append(q, e) # <<>>
         /\ Len(q) \in Nat /\ Len(Append(q, e)) = Len(q) + 1
         /\ Append(q, e)[Len(q) + 1] = e
         /\ \A k \in 1 .. Len(q) : Append(q, e)[k] = q[k]
OBVIOUS

LEMMA ConcatIs ==
  ASSUME NEW T, NEW q \in Seq(T), NEW u \in Seq(T)
  PROVE  /\ q \o u \in Seq(T)
         /\ Len(q) \in Nat /\ Len(u) \in Nat /\ Len(q \o u) = Len(q) + Len(u)
         /\ \A k \in 1 .. Len(q) : (q \o u)[k] = q[k]
         /\ \A k \in 1 .. Len(u) : (q \o u)[Len(q) + k] = u[k]
OBVIOUS

LEMMA EmptyIs ==
  ASSUME NEW T, NEW q \in Seq(T)
  PROVE  Len(q) \in Nat /\ (q = <<>> <=> Len(q) = 0)
OBVIOUS

----------------------------------------------------------------------------
(* Words and what they are words of.                                       *)

Word == [data : [Bytes -> Int], keep : Nat, last : BOOLEAN]
Part == [pos : Int, len : Nat \ {0}]        \* len bytes of the stream from pos on
End(part) == part.pos + part.len
Todo(parts, i) == IF i \in 1 .. Len(parts) THEN parts[i].len ELSE 0

(* A place <<i, left>> in parts: left bytes of part i are still to come. *)
Place(parts, e) ==
  /\ e \in Nat \X Nat /\ e[1] \in 1 .. Len(parts) + 1
  /\ e[2] = 0 <=> e[1] = Len(parts) + 1

(* The word w comes next at this place, and leads to the next one. *)
Comes(w, parts, e) ==
  /\ w.keep = Smaller(W, e[2])
  /\ w.last <=> w.keep = e[2]
  /\ \A b \in 0 .. w.keep - 1 : w.data[b] = End(parts[e[1]]) - e[2] + b
After(w, parts, e) == IF w.last THEN <<e[1] + 1, Todo(parts, e[1] + 1)>> ELSE <<e[1], e[2] - w.keep>>

(* The words are those of the parts, from the first on; f are the places in front of and behind them. *)
Run(words, parts, f) ==
  /\ f \in [1 .. Len(words) + 1 -> Nat \X Nat]
  /\ f[1] = <<1, Todo(parts, 1)>>
  /\ \A j \in 1 .. Len(words) + 1 : Place(parts, f[j])
  /\ \A j \in 1 .. Len(words) : Comes(words[j], parts, f[j]) /\ f[j + 1] = After(words[j], parts, f[j])
  /\ \A i, j \in 1 .. Len(words) + 1 : i < j => IF words[i].last THEN f[i][1] < f[j][1] ELSE f[i][1] <= f[j][1]
RunTo(words, parts, e) ==
  /\ words \in Seq(Word) /\ parts \in Seq(Part)
  /\ \E f : Run(words, parts, f) /\ f[Len(words) + 1] = e

LEMMA PartIs ==
  ASSUME NEW parts \in Seq(Part)
  PROVE  /\ Len(parts) \in Nat
         /\ \A i \in 1 .. Len(parts) : parts[i] \in Part /\ parts[i].pos \in Int /\ parts[i].len \in Nat /\ parts[i].len >= 1
                                       /\ End(parts[i]) \in Int
         /\ \A i : Todo(parts, i) \in Nat
         /\ \A i \in Int : Todo(parts, i) = 0 <=> i \notin 1 .. Len(parts)
<1>1. Len(parts) \in Nat /\ \A i \in 1 .. Len(parts) : parts[i] \in Part BY ElementIs, EmptyIs
<1>2. \A p \in Part : p.pos \in Int /\ p.len \in Nat /\ p.len >= 1 BY DEF Part
<1>3. \A i \in 1 .. Len(parts) : parts[i].pos \in Int /\ parts[i].len \in Nat /\ parts[i].len >= 1 BY <1>1, <1>2
<1> QED BY <1>1, <1>3 DEF End, Todo

LEMMA WordIs ==
  ASSUME NEW w \in Word
  PROVE  w.keep \in Nat /\ w.last \in BOOLEAN /\ w.data \in [Bytes -> Int]
BY DEF Word

LEMMA BytesAre == W \in Nat /\ W >= 1 /\ \A b \in Int : b \in Bytes <=> b >= 0 /\ b < W
<1>1. W \in Nat /\ W >= 1 BY RingAssumption
<1>2. ASSUME NEW b \in Int PROVE b \in 0 .. W - 1 <=> b >= 0 /\ b < W BY <1>1
<1>3. Bytes = 0 .. W - 1 BY DEF Bytes
<1> QED BY <1>1, <1>2, <1>3

LEMMA StartIs ==
  ASSUME NEW parts \in Seq(Part)
  PROVE  Place(parts, <<1, Todo(parts, 1)>>)
<1>1. Len(parts) \in Nat /\ Todo(parts, 1) \in Nat BY PartIs
<1>2. Todo(parts, 1) = 0 <=> 1 \notin 1 .. Len(parts) BY PartIs
<1>3. 1 \in 1 .. Len(parts) + 1 /\ (1 \notin 1 .. Len(parts) <=> 1 = Len(parts) + 1) BY <1>1
<1> QED BY <1>1, <1>2, <1>3 DEF Place

LEMMA RunStarts ==
  ASSUME NEW parts \in Seq(Part)
  PROVE  RunTo(<<>>, parts, <<1, Todo(parts, 1)>>)
<1> DEFINE e == <<1, Todo(parts, 1)>>
           f == [j \in 1 .. 1 |-> e]
<1>1. Place(parts, e) BY StartIs
<1>2. e \in Nat \X Nat BY <1>1 DEF Place
<1> HIDE DEF e
<1>3. <<>> \in Seq(Word) /\ Len(<<>>) = 0 OBVIOUS
<1>4. f \in [1 .. 0 + 1 -> Nat \X Nat] /\ f[1] = e BY <1>2
<1>5. \A j \in 1 .. 0 + 1 : j = 1 OBVIOUS
<1> HIDE DEF f
<1>6. Run(<<>>, parts, f) BY <1>1, <1>3, <1>4, <1>5 DEF Run, e
<1> QED BY <1>3, <1>4, <1>6 DEF RunTo, e

LEMMA RunPlace ==
  ASSUME NEW words, NEW parts, NEW e, RunTo(words, parts, e)
  PROVE  words \in Seq(Word) /\ parts \in Seq(Part) /\ Place(parts, e) /\ (words = <<>> => e = <<1, Todo(parts, 1)>>)
<1>1. words \in Seq(Word) /\ parts \in Seq(Part) BY DEF RunTo
<1>2. PICK f : Run(words, parts, f) /\ f[Len(words) + 1] = e BY DEF RunTo
<1>3. Len(words) \in Nat /\ (words = <<>> <=> Len(words) = 0) BY <1>1, EmptyIs
<1> QED BY <1>1, <1>2, <1>3 DEF Run

(* The place behind a word is a place. *)
LEMMA AfterIs ==
  ASSUME NEW w \in Word, NEW parts \in Seq(Part), NEW e, Place(parts, e), e[1] \in 1 .. Len(parts), Comes(w, parts, e)
  PROVE  /\ Place(parts, After(w, parts, e))
         /\ IF w.last THEN After(w, parts, e)[1] > e[1] ELSE After(w, parts, e)[1] = e[1]
<1>1. e \in Nat \X Nat /\ e[1] \in Nat /\ e[2] \in Nat BY DEF Place
<1>2. e[2] # 0 BY DEF Place
<1>3. w.keep \in Nat /\ w.last \in BOOLEAN BY WordIs
<1>4. W \in Nat /\ W >= 1 BY BytesAre
<1>5. w.keep = Smaller(W, e[2]) /\ (w.last <=> w.keep = e[2]) BY DEF Comes
<1>6. w.keep <= e[2] BY <1>1, <1>4, <1>5 DEF Smaller
<1>7. Len(parts) \in Nat /\ Todo(parts, e[1] + 1) \in Nat /\ (Todo(parts, e[1] + 1) = 0 <=> e[1] + 1 \notin 1 .. Len(parts))
  <2>1. e[1] + 1 \in Int BY <1>1
  <2>2. Len(parts) \in Nat /\ (\A i : Todo(parts, i) \in Nat) /\ \A i \in Int : Todo(parts, i) = 0 <=> i \notin 1 .. Len(parts) BY PartIs
  <2> QED BY <2>1, <2>2, Zenon
<1>8. CASE w.last
  <2>1. After(w, parts, e) = <<e[1] + 1, Todo(parts, e[1] + 1)>> BY <1>8 DEF After
  <2> HIDE DEF After
  <2> QED BY <2>1, <1>1, <1>7, <1>8 DEF Place
<1>9. CASE ~w.last
  <2>1. After(w, parts, e) = <<e[1], e[2] - w.keep>> BY <1>9 DEF After
  <2>2. e[2] - w.keep \in Nat /\ e[2] - w.keep # 0 BY <1>1, <1>3, <1>5, <1>6, <1>9
  <2> QED BY <2>1, <2>2, <1>1, <1>7, <1>9 DEF Place
<1> QED BY <1>8, <1>9

(* A word that comes next is put behind the others. *)
LEMMA RunPut ==
  ASSUME NEW words, NEW parts, NEW e, RunTo(words, parts, e), NEW w \in Word, e[1] \in 1 .. Len(parts), Comes(w, parts, e)
  PROVE  RunTo(Append(words, w), parts, After(w, parts, e))
<1>1. words \in Seq(Word) /\ parts \in Seq(Part) /\ Place(parts, e) BY RunPlace
<1>2. PICK f : Run(words, parts, f) /\ f[Len(words) + 1] = e BY DEF RunTo
<1> DEFINE n == Len(words)
           a == After(w, parts, e)
           g == [j \in 1 .. n + 2 |-> IF j <= n + 1 THEN f[j] ELSE a]
           ws == Append(words, w)
<1>3. n \in Nat /\ ws \in Seq(Word) /\ Len(ws) = n + 1 /\ ws[n + 1] = w /\ \A k \in 1 .. n : ws[k] = words[k]
  BY <1>1, AppendIs
<1>4. Place(parts, a) /\ IF w.last THEN a[1] > e[1] ELSE a[1] = e[1] BY <1>1, AfterIs
<1>5. a \in Nat \X Nat /\ a[1] \in Nat /\ e[1] \in Nat BY <1>4, <1>1 DEF Place
<1> HIDE DEF n, a, ws
<1>6. /\ f \in [1 .. n + 1 -> Nat \X Nat] /\ f[1] = <<1, Todo(parts, 1)>>
      /\ \A j \in 1 .. n + 1 : Place(parts, f[j])
      /\ \A j \in 1 .. n : Comes(words[j], parts, f[j]) /\ f[j + 1] = After(words[j], parts, f[j])
      /\ \A i, j \in 1 .. n + 1 : i < j => IF words[i].last THEN f[i][1] < f[j][1] ELSE f[i][1] <= f[j][1]
  BY <1>2 DEF Run, n
<1>7. f[n + 1] = e BY <1>2 DEF n
<1>8. g \in [1 .. n + 2 -> Nat \X Nat] BY <1>3, <1>5, <1>6
<1>9. g[n + 2] = a /\ \A j \in 1 .. n + 1 : g[j] = f[j] BY <1>3
<1> HIDE DEF g
<1>10. g[1] = <<1, Todo(parts, 1)>>
  <2>1. 1 \in 1 .. n + 1 BY <1>3
  <2> QED BY <2>1, <1>6, <1>9
<1>11. \A j \in 1 .. n + 2 : Place(parts, g[j])
  <2> TAKE j \in 1 .. n + 2
  <2>1. j = n + 2 \/ j \in 1 .. n + 1 BY <1>3
  <2> QED BY <2>1, <1>4, <1>6, <1>9
<1>12. \A j \in 1 .. n + 1 : Comes(ws[j], parts, g[j]) /\ g[j + 1] = After(ws[j], parts, g[j])
  <2> TAKE j \in 1 .. n + 1
  <2>1. CASE j = n + 1 
    <3>1. ws[j] = w /\ g[j] = e /\ g[j + 1] = a BY <2>1, <1>3, <1>7, <1>9
    <3> QED BY <3>1 DEF a
  <2>2. CASE j # n + 1 
    <3>1. j \in 1 .. n /\ j + 1 \in 1 .. n + 1 BY <2>2, <1>3
    <3> QED BY <3>1, <1>3, <1>6, <1>9
  <2> QED BY <2>1, <2>2
<1>13. \A i, j \in 1 .. n + 2 : i < j => IF ws[i].last THEN g[i][1] < g[j][1] ELSE g[i][1] <= g[j][1]
  <2> SUFFICES ASSUME NEW i \in 1 .. n + 2, NEW j \in 1 .. n + 2, i < j
               PROVE IF ws[i].last THEN g[i][1] < g[j][1] ELSE g[i][1] <= g[j][1]
    OBVIOUS
  <2>1. i \in 1 .. n + 1 /\ g[i] = f[i] BY <1>3, <1>9
  <2>2. CASE j # n + 2
    <3>1. j \in 1 .. n + 1 /\ g[j] = f[j] /\ i \in 1 .. n BY <2>2, <1>3, <1>9
    <3> QED BY <3>1, <2>1, <1>3, <1>6
  <2>3. CASE j = n + 2 /\ i = n + 1 BY <2>3, <1>3, <1>4, <1>5, <1>7, <1>9
  <2>4. CASE j = n + 2 /\ i # n + 1
    <3>1. i \in 1 .. n /\ n + 1 \in 1 .. n + 1 /\ i < n + 1 /\ i \in 1 .. n + 1 BY <2>4, <1>3
    <3>2. ws[i] = words[i] BY <3>1, <1>3
    <3>3. f[i][1] \in Nat BY <3>1, <1>6
    <3>4. IF words[i].last THEN f[i][1] < e[1] ELSE f[i][1] <= e[1] BY <3>1, <1>6, <1>7
    <3> QED BY <2>1, <2>4, <3>2, <3>3, <3>4, <1>4, <1>5, <1>9
  <2> QED BY <2>2, <2>3, <2>4
<1>14. Run(ws, parts, g)
  <2>1. Len(ws) + 1 = n + 2 BY <1>3
  <2> QED BY <2>1, <1>3, <1>8, <1>10, <1>11, <1>12, <1>13 DEF Run
<1>15. g[Len(ws) + 1] = a /\ ws \in Seq(Word) BY <1>3, <1>9
<1> QED BY <1>1, <1>14, <1>15 DEF RunTo, a, ws

(* A further part. *)
LEMMA RunAddPart ==
  ASSUME NEW words, NEW parts, NEW e, RunTo(words, parts, e), NEW p \in Part, e[1] = Len(parts) + 1
  PROVE  RunTo(words, Append(parts, p), <<Len(parts) + 1, p.len>>)
<1>1. words \in Seq(Word) /\ parts \in Seq(Part) /\ Place(parts, e) BY RunPlace
<1>2. PICK f : Run(words, parts, f) /\ f[Len(words) + 1] = e BY DEF RunTo
<1> DEFINE n == Len(words)
           m == Len(parts)
           ps == Append(parts, p)
           up(x) == IF x[1] = m + 1 THEN <<m + 1, p.len>> ELSE x
           g == [j \in 1 .. n + 1 |-> up(f[j])]
<1>3. n \in Nat /\ m \in Nat /\ ps \in Seq(Part) /\ Len(ps) = m + 1 /\ ps[m + 1] = p /\ \A k \in 1 .. m : ps[k] = parts[k]
  BY <1>1, AppendIs, EmptyIs
<1>4. p.len \in Nat /\ p.len # 0 BY DEF Part
<1>5. \A i \in Int : Todo(ps, i) = IF i = m + 1 THEN p.len ELSE Todo(parts, i)
  <2> TAKE i \in Int
  <2>1. i \in 1 .. Len(ps) <=> (i = m + 1 \/ i \in 1 .. m) BY <1>3
  <2> HIDE DEF ps
  <2> QED BY <2>1, <1>3 DEF Todo, m
<1>6. \A x : Place(parts, x) => x \in Nat \X Nat /\ x[1] \in 1 .. m + 1 /\ (x[2] = 0 <=> x[1] = m + 1) BY DEF Place
<1>7. \A x : Place(parts, x) => Place(ps, up(x)) /\ up(x) \in Nat \X Nat /\ up(x)[1] = x[1]
  <2> SUFFICES ASSUME NEW x, Place(parts, x) PROVE Place(ps, up(x)) /\ up(x) \in Nat \X Nat /\ up(x)[1] = x[1] OBVIOUS
  <2>1. x \in Nat \X Nat /\ x[1] \in 1 .. m + 1 /\ (x[2] = 0 <=> x[1] = m + 1) BY <1>6
  <2> HIDE DEF ps
  <2>2. CASE x[1] = m + 1
    <3>1. up(x) = <<m + 1, p.len>> BY <2>2
    <3> HIDE DEF up
    <3>2. up(x) \in Nat \X Nat /\ up(x)[1] = m + 1 /\ up(x)[2] = p.len BY <3>1, <1>3, <1>4
    <3> QED BY <3>2, <2>2, <1>3, <1>4 DEF Place
  <2>3. CASE x[1] # m + 1
    <3>1. up(x) = x BY <2>3
    <3> HIDE DEF up
    <3>2. x[1] \in 1 .. m + 1 + 1 /\ x[1] # m + 1 + 1 /\ x[2] # 0 BY <2>1, <2>3, <1>3
    <3> QED BY <3>1, <3>2, <2>1, <1>3 DEF Place
  <2> QED BY <2>2, <2>3
<1> HIDE DEF n
<1>8. /\ f \in [1 .. n + 1 -> Nat \X Nat] /\ f[1] = <<1, Todo(parts, 1)>>
      /\ \A j \in 1 .. n + 1 : Place(parts, f[j])
      /\ \A j \in 1 .. n : Comes(words[j], parts, f[j]) /\ f[j + 1] = After(words[j], parts, f[j])
      /\ \A i, j \in 1 .. n + 1 : i < j => IF words[i].last THEN f[i][1] < f[j][1] ELSE f[i][1] <= f[j][1]
  BY <1>2 DEF Run, n
<1>9. f[n + 1] = e BY <1>2 DEF n
<1> HIDE DEF m, ps, up
<1>10. g \in [1 .. n + 1 -> Nat \X Nat] BY <1>7, <1>8
<1>11. \A j \in 1 .. n + 1 : g[j] = up(f[j]) OBVIOUS
<1> HIDE DEF g
<1>12. g[1] = <<1, Todo(ps, 1)>>
  <2>1. 1 \in 1 .. n + 1 BY <1>3
  <2>2. g[1] = up(<<1, Todo(parts, 1)>>) BY <2>1, <1>8, <1>11
  <2>3. Todo(ps, 1) = IF 1 = m + 1 THEN p.len ELSE Todo(parts, 1) BY <1>5
  <2> QED BY <2>2, <2>3 DEF up
<1>13. \A j \in 1 .. n + 1 : Place(ps, g[j]) BY <1>7, <1>8, <1>11
<1>14. \A j \in 1 .. n : Comes(words[j], ps, g[j]) /\ g[j + 1] = After(words[j], ps, g[j])
  <2> TAKE j \in 1 .. n
  <2>1. j \in 1 .. n + 1 /\ j + 1 \in 1 .. n + 1 BY <1>3
  <2>2. Comes(words[j], parts, f[j]) /\ f[j + 1] = After(words[j], parts, f[j]) BY <1>8
  <2>3. Place(parts, f[j]) /\ Place(parts, f[j + 1]) BY <1>8, <2>1
  <2>4. words[j] \in Word
    <3>1. n = Len(words) BY DEF n
    <3> QED BY <3>1, <1>1, ElementIs
  <2>5. words[j].keep \in Nat /\ words[j].last \in BOOLEAN BY <2>4, WordIs
  <2>6. W \in Nat /\ W >= 1 BY BytesAre
  <2>7. f[j][2] # 0
    <3>1. f[j] \in Nat \X Nat BY <2>3, <1>6
    <3>2. n = Len(words) BY DEF n
    <3>3. words[j].last \/ ~words[j].last OBVIOUS
    <3>4. f[j + 1] = IF words[j].last THEN <<f[j][1] + 1, Todo(parts, f[j][1] + 1)>> ELSE <<f[j][1], f[j][2] - words[j].keep>>
      BY <2>2 DEF After
    <3>5. SUFFICES ASSUME f[j][2] = 0 PROVE FALSE OBVIOUS
    <3>6. f[j][1] = m + 1 BY <3>5, <2>3, <1>6
    <3>7. words[j].keep = 0 BY <3>5, <2>2, <2>6 DEF Comes, Smaller
    <3>8. words[j].last BY <3>7, <3>5, <2>2 DEF Comes
    <3>9. f[j + 1][1] = m + 1 + 1 BY <3>4, <3>8, <3>6
    <3> QED BY <3>9, <2>3, <1>6, <1>3
  <2>8. f[j] \in Nat \X Nat /\ f[j][1] \in 1 .. m BY <2>3, <2>7, <1>3, <1>6
  <2>9. g[j] = f[j]
    <3>1. f[j][1] # m + 1 BY <2>8, <1>3
    <3> QED BY <3>1, <2>1, <1>11 DEF up
  <2>10. Comes(words[j], ps, g[j])
    <3>1. ps[f[j][1]] = parts[f[j][1]] BY <2>8, <1>3
    <3> QED BY <2>2, <2>9, <3>1 DEF Comes
  <2>11. g[j + 1] = After(words[j], ps, g[j])
    <3>1. g[j + 1] = up(f[j + 1]) BY <2>1, <1>11
    <3>2. CASE words[j].last
      <4>1. f[j + 1] = <<f[j][1] + 1, Todo(parts, f[j][1] + 1)>> BY <3>2, <2>2 DEF After
      <4>2. f[j][1] + 1 \in Int BY <2>8
      <4>3. After(words[j], ps, f[j]) = <<f[j][1] + 1, Todo(ps, f[j][1] + 1)>> BY <3>2 DEF After
      <4>4. Todo(ps, f[j][1] + 1) = IF f[j][1] + 1 = m + 1 THEN p.len ELSE Todo(parts, f[j][1] + 1) BY <4>2, <1>5
      <4> QED BY <4>1, <4>3, <4>4, <3>1, <2>9 DEF up
    <3>3. CASE ~words[j].last
      <4>1. f[j + 1] = <<f[j][1], f[j][2] - words[j].keep>> BY <3>3, <2>2 DEF After
      <4>2. f[j][1] # m + 1 BY <2>8, <1>3
      <4>3. After(words[j], ps, f[j]) = <<f[j][1], f[j][2] - words[j].keep>> BY <3>3 DEF After
      <4> QED BY <4>1, <4>2, <4>3, <3>1, <2>9 DEF up
    <3> QED BY <3>2, <3>3
  <2> QED BY <2>10, <2>11
<1>15. \A i, j \in 1 .. n + 1 : i < j => IF words[i].last THEN g[i][1] < g[j][1] ELSE g[i][1] <= g[j][1]
  <2>1. \A i \in 1 .. n + 1 : g[i][1] = f[i][1] BY <1>7, <1>8, <1>11
  <2> QED BY <2>1, <1>8
<1>16. Run(words, ps, g)
  BY <1>10, <1>12, <1>13, <1>14, <1>15 DEF Run, n
<1>17. g[n + 1] = <<m + 1, p.len>>
  <2>1. n + 1 \in 1 .. n + 1 BY <1>3
  <2>2. e[1] = m + 1 BY DEF m
  <2> QED BY <2>1, <2>2, <1>9, <1>11 DEF up
<1> QED BY <1>1, <1>3, <1>16, <1>17 DEF RunTo, m, n, ps

(* The first word is of the first part. *)
LEMMA RunHead ==
  ASSUME NEW words, NEW parts, NEW e, RunTo(words, parts, e), words # <<>>
  PROVE  /\ Head(words) \in Word /\ parts # <<>> /\ Len(parts) \in Nat /\ Len(parts) >= 1 /\ parts[1] \in Part
         /\ Comes(Head(words), parts, <<1, parts[1].len>>)
         /\ Head(words).keep = Smaller(W, parts[1].len)
         /\ Head(words).last <=> Head(words).keep = parts[1].len
         /\ \A b \in 0 .. Head(words).keep - 1 : Head(words).data[b] = parts[1].pos + b
<1>1. words \in Seq(Word) /\ parts \in Seq(Part) /\ Place(parts, e) BY RunPlace
<1>2. PICK f : Run(words, parts, f) BY DEF RunTo
<1>3. Head(words) \in Word /\ Head(words) = words[1] /\ Len(words) \in Nat /\ Len(words) >= 1 BY <1>1, TailIs
<1>4. 1 \in 1 .. Len(words) /\ 1 \in 1 .. Len(words) + 1 /\ 1 + 1 \in 1 .. Len(words) + 1 BY <1>3
<1>5. f[1] = <<1, Todo(parts, 1)>> /\ Comes(words[1], parts, f[1]) /\ f[1 + 1] = After(words[1], parts, f[1])
      /\ Place(parts, f[1 + 1])
  BY <1>2, <1>4 DEF Run
<1>6. Len(parts) \in Nat /\ \A i \in 1 .. Len(parts) : parts[i] \in Part /\ parts[i].pos \in Int /\ parts[i].len \in Nat
  BY <1>1, PartIs
<1>7. Len(parts) >= 1
  <2>1. SUFFICES ASSUME Len(parts) = 0 PROVE FALSE BY <1>6
  <2>2. Todo(parts, 1) = 0 BY <2>1 DEF Todo
  <2>3. f[1] = <<1, 0>> BY <2>2, <1>5
  <2>4. words[1].keep = Smaller(W, 0) /\ (words[1].last <=> words[1].keep = 0) BY <2>3, <1>5 DEF Comes
  <2>5. words[1].last BY <2>4, BytesAre DEF Smaller
  <2>6. f[1 + 1] = <<1 + 1, Todo(parts, 1 + 1)>> BY <2>3, <2>5, <1>5 DEF After
  <2> QED BY <2>1, <2>6, <1>5 DEF Place
<1>8. 1 \in 1 .. Len(parts) /\ Todo(parts, 1) = parts[1].len BY <1>6, <1>7 DEF Todo
<1>9. Comes(Head(words), parts, <<1, parts[1].len>>) BY <1>3, <1>5, <1>8
<1>10. parts[1].pos \in Int /\ parts[1].len \in Nat BY <1>6, <1>8
<1>11. \A b \in Int : End(parts[1]) - parts[1].len + b = parts[1].pos + b BY <1>10 DEF End
<1>12. Head(words).keep \in Nat BY <1>3, WordIs
<1>13. parts # <<>> BY <1>7
<1> QED BY <1>3, <1>6, <1>7, <1>8, <1>9, <1>11, <1>12, <1>13 DEF Comes

LEMMA HeadKeeps ==
  ASSUME NEW words, NEW parts, NEW e, RunTo(words, parts, e), words # <<>>
  PROVE  LET w == Head(words) IN w.keep \in Nat /\ w.keep >= 1 /\ w.keep <= W /\ w.keep <= parts[1].len
                                 /\ (~w.last => w.keep = W /\ w.keep < parts[1].len)
<1>1. Head(words) \in Word /\ parts[1] \in Part /\ Head(words).keep = Smaller(W, parts[1].len)
      /\ (Head(words).last <=> Head(words).keep = parts[1].len)
  BY RunHead
<1>2. parts[1].len \in Nat /\ parts[1].len >= 1 BY <1>1 DEF Part
<1> QED BY <1>1, <1>2, BytesAre, WordIs DEF Smaller

(* The first word is taken, which was the last one of its part. *)
LEMMA RunTakesLast ==
  ASSUME NEW words, NEW parts, NEW e, RunTo(words, parts, e), words # <<>>, Head(words).last
  PROVE  e[1] \in Nat /\ e[1] >= 2 /\ RunTo(Tail(words), Tail(parts), <<e[1] - 1, e[2]>>)
<1>1. words \in Seq(Word) /\ parts \in Seq(Part) /\ Place(parts, e) BY RunPlace
<1>2. PICK f : Run(words, parts, f) /\ f[Len(words) + 1] = e BY DEF RunTo
<1>3. parts # <<>> /\ Len(parts) >= 1 BY RunHead
<1> DEFINE n == Len(words)
           m == Len(parts)
           ws == Tail(words)
           ps == Tail(parts)
           down(x) == <<x[1] - 1, x[2]>>
           g == [j \in 1 .. n |-> down(f[j + 1])]
<1>4. words[1].last /\ n \in Nat /\ n >= 1 /\ ws \in Seq(Word) /\ Len(ws) = n - 1 /\ \A k \in 1 .. n - 1 : ws[k] = words[k + 1]
  BY <1>1, TailIs
<1>5. m \in Nat /\ m >= 1 /\ ps \in Seq(Part) /\ Len(ps) = m - 1 /\ \A k \in 1 .. m - 1 : ps[k] = parts[k + 1]
  BY <1>1, <1>3, TailIs
<1> HIDE DEF n, m, ws, ps
<1>6. /\ f \in [1 .. n + 1 -> Nat \X Nat] /\ f[1] = <<1, Todo(parts, 1)>>
      /\ \A j \in 1 .. n + 1 : Place(parts, f[j])
      /\ \A j \in 1 .. n : Comes(words[j], parts, f[j]) /\ f[j + 1] = After(words[j], parts, f[j])
      /\ \A i, j \in 1 .. n + 1 : i < j => IF words[i].last THEN f[i][1] < f[j][1] ELSE f[i][1] <= f[j][1]
  BY <1>2 DEF Run, n
<1>7. f[n + 1] = e BY <1>2 DEF n
<1>8. \A i \in Int : i >= 1 => Todo(ps, i) = Todo(parts, i + 1)
  <2> TAKE i \in Int
  <2> HAVE i >= 1
  <2>1. i \in 1 .. Len(ps) <=> i + 1 \in 1 .. m BY <1>5
  <2> QED BY <2>1, <1>5 DEF Todo, m
<1>9. \A j \in 1 .. n : f[j + 1] \in Nat \X Nat /\ f[j + 1][1] \in 2 .. m + 1 /\ (f[j + 1][2] = 0 <=> f[j + 1][1] = m + 1)
  <2> TAKE j \in 1 .. n
  <2>1. j + 1 \in 1 .. n + 1 /\ 1 \in 1 .. n + 1 /\ 1 < j + 1 BY <1>4
  <2>2. f[1][1] < f[j + 1][1] BY <2>1, <1>4, <1>6
  <2>3. f[1][1] = 1 BY <1>6
  <2>4. Place(parts, f[j + 1]) BY <2>1, <1>6
  <2> QED BY <2>2, <2>3, <2>4, <1>5 DEF Place, m
<1>10. \A j \in 1 .. n : down(f[j + 1]) \in Nat \X Nat /\ down(f[j + 1])[1] = f[j + 1][1] - 1 /\ down(f[j + 1])[2] = f[j + 1][2]
  BY <1>9
<1>11. g \in [1 .. n -> Nat \X Nat] /\ \A j \in 1 .. n : g[j] = down(f[j + 1]) BY <1>10
<1>12. \A j \in 1 .. n : g[j] = <<f[j + 1][1] - 1, f[j + 1][2]>> /\ g[j][1] = f[j + 1][1] - 1 /\ g[j][2] = f[j + 1][2]
  BY <1>11
<1> HIDE DEF g, down
<1>13. g[1] = <<1, Todo(ps, 1)>>
  <2>1. 1 \in 1 .. n BY <1>4
  <2>2. f[1 + 1] = After(words[1], parts, f[1]) BY <2>1, <1>6
  <2>3. f[1 + 1] = <<1 + 1, Todo(parts, 1 + 1)>> BY <2>2, <1>4, <1>6 DEF After
  <2>4. g[1] = <<f[1 + 1][1] - 1, f[1 + 1][2]>> BY <2>1, <1>12
  <2>5. Todo(ps, 1) = Todo(parts, 1 + 1) BY <1>8
  <2> QED BY <2>3, <2>4, <2>5
<1>14. \A j \in 1 .. n : Place(ps, g[j])
  <2> TAKE j \in 1 .. n
  <2>1. g[j] \in Nat \X Nat BY <1>11
  <2>2. f[j + 1][1] \in 2 .. m + 1 /\ (f[j + 1][2] = 0 <=> f[j + 1][1] = m + 1) BY <1>9
  <2>3. g[j][1] = f[j + 1][1] - 1 /\ g[j][2] = f[j + 1][2] BY <1>12
  <2>4. g[j][1] \in 1 .. m /\ (g[j][2] = 0 <=> g[j][1] = m) BY <2>2, <2>3, <1>5
  <2>5. Len(ps) + 1 = m BY <1>5
  <2> QED BY <2>1, <2>4, <2>5 DEF Place
<1>15. \A j \in 1 .. n - 1 : Comes(ws[j], ps, g[j]) /\ g[j + 1] = After(ws[j], ps, g[j])
  <2> TAKE j \in 1 .. n - 1
  <2>1. j \in 1 .. n /\ j + 1 \in 1 .. n /\ ws[j] = words[j + 1] BY <1>4
  <2>2. Comes(ws[j], parts, f[j + 1]) /\ f[j + 1 + 1] = After(ws[j], parts, f[j + 1]) BY <2>1, <1>6
  <2>3. g[j][1] = f[j + 1][1] - 1 /\ g[j][2] = f[j + 1][2] BY <2>1, <1>12
  <2>4. f[j + 1] \in Nat \X Nat /\ f[j + 1][1] \in 2 .. m + 1 /\ (f[j + 1][2] = 0 <=> f[j + 1][1] = m + 1) BY <2>1, <1>9
  <2>5. f[j + 1 + 1][1] \in 2 .. m + 1 BY <2>1, <1>9
  <2>6. f[j + 1][2] # 0
    <3>1. SUFFICES ASSUME f[j + 1][2] = 0 PROVE FALSE OBVIOUS
    <3>2. ws[j].keep = Smaller(W, 0) /\ (ws[j].last <=> ws[j].keep = 0) BY <3>1, <2>2 DEF Comes
    <3>3. ws[j].last BY <3>2, BytesAre DEF Smaller
    <3>4. f[j + 1 + 1][1] = f[j + 1][1] + 1 BY <3>3, <2>2 DEF After
    <3> QED BY <3>1, <3>4, <2>4, <2>5, <1>5
  <2>7. g[j][1] \in 1 .. m - 1 BY <2>3, <2>4, <2>6, <1>5
  <2>8. ps[g[j][1]] = parts[f[j + 1][1]]
    <3>1. g[j][1] + 1 = f[j + 1][1] BY <2>3, <2>4
    <3> QED BY <3>1, <2>7, <1>5
  <2>9. Comes(ws[j], ps, g[j]) BY <2>2, <2>3, <2>8 DEF Comes
  <2>10. g[j + 1] = <<f[j + 1 + 1][1] - 1, f[j + 1 + 1][2]>> BY <2>1, <1>12
  <2>11. CASE ws[j].last
    <3>1. f[j + 1 + 1] = <<f[j + 1][1] + 1, Todo(parts, f[j + 1][1] + 1)>> BY <2>11, <2>2 DEF After
    <3>2. After(ws[j], ps, g[j]) = <<g[j][1] + 1, Todo(ps, g[j][1] + 1)>> BY <2>11 DEF After
    <3>3. g[j][1] + 1 \in Int /\ g[j][1] + 1 >= 1 /\ g[j][1] + 1 + 1 = f[j + 1][1] + 1 BY <2>3, <2>4, <2>7
    <3>4. Todo(ps, g[j][1] + 1) = Todo(parts, f[j + 1][1] + 1) BY <3>3, <1>8
    <3>5. f[j + 1][1] + 1 - 1 = g[j][1] + 1 BY <2>3, <2>4
    <3>8. f[j + 1 + 1][1] = f[j + 1][1] + 1 /\ f[j + 1 + 1][2] = Todo(parts, f[j + 1][1] + 1) BY <3>1
    <3>9. f[j + 1 + 1][1] - 1 = g[j][1] + 1 BY <2>4, <3>5, <3>8
    <3>10. f[j + 1 + 1][2] = Todo(ps, g[j][1] + 1) BY <3>4, <3>8, Zenon
    <3>6. f[j + 1 + 1][1] - 1 = g[j][1] + 1 /\ f[j + 1 + 1][2] = Todo(ps, g[j][1] + 1) BY <3>9, <3>10
    <3>7. g[j + 1] = <<g[j][1] + 1, Todo(ps, g[j][1] + 1)>> BY <3>6, <2>10
    <3> QED BY <3>2, <3>7, <2>9
  <2>12. CASE ~ws[j].last
    <3>1. f[j + 1 + 1] = <<f[j + 1][1], f[j + 1][2] - ws[j].keep>> BY <2>12, <2>2 DEF After
    <3>2. After(ws[j], ps, g[j]) = <<g[j][1], g[j][2] - ws[j].keep>> BY <2>12 DEF After
    <3> QED BY <3>1, <3>2, <2>3, <2>9, <2>10
  <2> QED BY <2>11, <2>12
<1>16. \A i, j \in 1 .. n : i < j => IF ws[i].last THEN g[i][1] < g[j][1] ELSE g[i][1] <= g[j][1]
  <2> SUFFICES ASSUME NEW i \in 1 .. n, NEW j \in 1 .. n, i < j
               PROVE IF ws[i].last THEN g[i][1] < g[j][1] ELSE g[i][1] <= g[j][1]
    OBVIOUS
  <2>1. i + 1 \in 1 .. n + 1 /\ j + 1 \in 1 .. n + 1 /\ i + 1 < j + 1 /\ ws[i] = words[i + 1] BY <1>4
  <2>2. IF words[i + 1].last THEN f[i + 1][1] < f[j + 1][1] ELSE f[i + 1][1] <= f[j + 1][1] BY <2>1, <1>6
  <2>3. f[i + 1][1] \in Int /\ f[j + 1][1] \in Int BY <1>9
  <2> QED BY <2>1, <2>2, <2>3, <1>12
<1>17. Run(ws, ps, g)
  <2>1. Len(ws) + 1 = n /\ Len(ws) = n - 1 BY <1>4
  <2> QED BY <2>1, <1>11, <1>13, <1>14, <1>15, <1>16 DEF Run
<1>18. g[Len(ws) + 1] = <<e[1] - 1, e[2]>>
  <2>1. Len(ws) + 1 = n /\ n \in 1 .. n BY <1>4
  <2> QED BY <2>1, <1>7, <1>12
<1>19. e[1] \in Nat /\ e[1] >= 2
  <2>1. n \in 1 .. n BY <1>4
  <2> QED BY <2>1, <1>7, <1>9, <1>5
<1> QED BY <1>4, <1>5, <1>17, <1>18, <1>19 DEF RunTo, ws, ps

(* The first word is taken, and more of its part is to come. *)
LEMMA RunTakesPart ==
  ASSUME NEW words, NEW parts, NEW e, RunTo(words, parts, e), words # <<>>, ~Head(words).last,
         NEW p, p = [pos |-> parts[1].pos + Head(words).keep, len |-> parts[1].len - Head(words).keep]
  PROVE  p \in Part /\ RunTo(Tail(words), [parts EXCEPT ![1] = p], e)
<1>1. words \in Seq(Word) /\ parts \in Seq(Part) /\ Place(parts, e) BY RunPlace
<1>2. PICK f : Run(words, parts, f) /\ f[Len(words) + 1] = e BY DEF RunTo
<1>3. parts # <<>> /\ Len(parts) >= 1 /\ parts[1] \in Part BY RunHead
<1> DEFINE n == Len(words)
           m == Len(parts)
           ws == Tail(words)
           ps == [parts EXCEPT ![1] = p]
           keep == Head(words).keep
           g == [j \in 1 .. n |-> f[j + 1]]
<1>4. ~words[1].last /\ keep = words[1].keep /\ n \in Nat /\ n >= 1 /\ ws \in Seq(Word) /\ Len(ws) = n - 1
      /\ \A k \in 1 .. n - 1 : ws[k] = words[k + 1]
  BY <1>1, TailIs
<1>20. keep \in Nat /\ keep >= 1 /\ keep < parts[1].len BY HeadKeeps
<1>21. parts[1].pos \in Int /\ parts[1].len \in Nat BY <1>3 DEF Part
<1>22. p \in Part /\ p.len = parts[1].len - keep /\ End(p) = End(parts[1])
  <2>1. p = [pos |-> parts[1].pos + keep, len |-> parts[1].len - keep] OBVIOUS
  <2> HIDE DEF keep
  <2>2. p.len = parts[1].len - keep /\ p.pos = parts[1].pos + keep BY <2>1
  <2>3. parts[1].pos + keep \in Int /\ parts[1].len - keep \in Nat \ {0} BY <1>20, <1>21
  <2>4. p \in Part BY <2>1, <2>3 DEF Part
  <2>5. p.pos + p.len = parts[1].pos + parts[1].len BY <2>2, <1>20, <1>21
  <2> QED BY <2>2, <2>4, <2>5 DEF End
<1>5. m \in Nat /\ m >= 1 BY <1>1, <1>3, PartIs
<1>23. ps \in Seq(Part) /\ Len(ps) = m /\ ps[1] = p /\ \A k \in 1 .. m : k # 1 => ps[k] = parts[k] BY <1>1, <1>5, <1>22
<1> HIDE DEF n, m, ws, ps, keep
<1>6. /\ f \in [1 .. n + 1 -> Nat \X Nat] /\ f[1] = <<1, Todo(parts, 1)>>
      /\ \A j \in 1 .. n + 1 : Place(parts, f[j])
      /\ \A j \in 1 .. n : Comes(words[j], parts, f[j]) /\ f[j + 1] = After(words[j], parts, f[j])
      /\ \A i, j \in 1 .. n + 1 : i < j => IF words[i].last THEN f[i][1] < f[j][1] ELSE f[i][1] <= f[j][1]
  BY <1>2 DEF Run, n
<1>7. f[n + 1] = e BY <1>2 DEF n
<1>8. \A i \in Int : i # 1 => Todo(ps, i) = Todo(parts, i)
  <2> TAKE i \in Int
  <2> HAVE i # 1
  <2>1. i \in 1 .. Len(ps) <=> i \in 1 .. m BY <1>23
  <2> QED BY <2>1, <1>23 DEF Todo, m
<1>9. \A j \in 1 .. n : f[j + 1] \in Nat \X Nat /\ f[j + 1][1] \in 1 .. m + 1 /\ (f[j + 1][2] = 0 <=> f[j + 1][1] = m + 1)
  <2> TAKE j \in 1 .. n
  <2>1. j + 1 \in 1 .. n + 1 BY <1>4
  <2>4. Place(parts, f[j + 1]) BY <2>1, <1>6
  <2> QED BY <2>4 DEF Place, m
<1>11. g \in [1 .. n -> Nat \X Nat] /\ \A j \in 1 .. n : g[j] = f[j + 1] BY <1>9
<1> HIDE DEF g
<1>13. g[1] = <<1, Todo(ps, 1)>>
  <2>1. 1 \in 1 .. n BY <1>4
  <2>2. f[1 + 1] = After(words[1], parts, f[1]) BY <2>1, <1>6
  <2>3. f[1 + 1] = <<1, Todo(parts, 1) - words[1].keep>> BY <2>2, <1>4, <1>6 DEF After
  <2>4. Todo(parts, 1) = parts[1].len
    <3>1. 1 \in 1 .. Len(parts) BY <1>5 DEF m
    <3> QED BY <3>1 DEF Todo
  <2>5. Todo(ps, 1) = p.len
    <3>1. 1 \in 1 .. Len(ps) BY <1>5, <1>23
    <3> QED BY <3>1, <1>23 DEF Todo
  <2> QED BY <2>1, <2>3, <2>4, <2>5, <1>4, <1>11, <1>22
<1>14. \A j \in 1 .. n : Place(ps, g[j])
  <2> TAKE j \in 1 .. n
  <2>1. f[j + 1] \in Nat \X Nat /\ f[j + 1][1] \in 1 .. m + 1 /\ (f[j + 1][2] = 0 <=> f[j + 1][1] = m + 1) BY <1>9
  <2>2. g[j] = f[j + 1] BY <1>11
  <2> QED BY <2>1, <2>2, <1>23 DEF Place
<1>15. \A j \in 1 .. n - 1 : Comes(ws[j], ps, g[j]) /\ g[j + 1] = After(ws[j], ps, g[j])
  <2> TAKE j \in 1 .. n - 1
  <2>1. j \in 1 .. n /\ j + 1 \in 1 .. n /\ ws[j] = words[j + 1] BY <1>4
  <2>2. Comes(ws[j], parts, f[j + 1]) /\ f[j + 1 + 1] = After(ws[j], parts, f[j + 1]) BY <2>1, <1>6
  <2>3. g[j] = f[j + 1] /\ g[j + 1] = f[j + 1 + 1] BY <2>1, <1>11
  <2>4. f[j + 1] \in Nat \X Nat /\ f[j + 1][1] \in 1 .. m + 1 /\ (f[j + 1][2] = 0 <=> f[j + 1][1] = m + 1) BY <2>1, <1>9
  <2>5. f[j + 1 + 1][1] \in 1 .. m + 1 BY <2>1, <1>9
  <2>6. f[j + 1][2] # 0
    <3>1. SUFFICES ASSUME f[j + 1][2] = 0 PROVE FALSE OBVIOUS
    <3>2. ws[j].keep = Smaller(W, 0) /\ (ws[j].last <=> ws[j].keep = 0) BY <3>1, <2>2 DEF Comes
    <3>3. ws[j].last BY <3>2, BytesAre DEF Smaller
    <3>4. f[j + 1 + 1][1] = f[j + 1][1] + 1 BY <3>3, <2>2 DEF After
    <3> QED BY <3>1, <3>4, <2>4, <2>5, <1>5
  <2>7. g[j][1] \in 1 .. m BY <2>3, <2>4, <2>6, <1>5
  <2>8. End(ps[g[j][1]]) = End(parts[g[j][1]]) BY <2>7, <1>22, <1>23
  <2>9. Comes(ws[j], ps, g[j]) BY <2>2, <2>3, <2>8 DEF Comes
  <2>10. Todo(ps, g[j][1] + 1) = Todo(parts, g[j][1] + 1)
    <3>1. g[j][1] + 1 \in Int /\ g[j][1] + 1 # 1 BY <2>7
    <3> QED BY <3>1, <1>8
  <2> QED BY <2>2, <2>3, <2>9, <2>10 DEF After
<1>16. \A i, j \in 1 .. n : i < j => IF ws[i].last THEN g[i][1] < g[j][1] ELSE g[i][1] <= g[j][1]
  <2> SUFFICES ASSUME NEW i \in 1 .. n, NEW j \in 1 .. n, i < j
               PROVE IF ws[i].last THEN g[i][1] < g[j][1] ELSE g[i][1] <= g[j][1]
    OBVIOUS
  <2>1. i + 1 \in 1 .. n + 1 /\ j + 1 \in 1 .. n + 1 /\ i + 1 < j + 1 /\ ws[i] = words[i + 1] BY <1>4
  <2>2. IF words[i + 1].last THEN f[i + 1][1] < f[j + 1][1] ELSE f[i + 1][1] <= f[j + 1][1] BY <2>1, <1>6
  <2> QED BY <2>1, <2>2, <1>11
<1>17. Run(ws, ps, g)
  <2>1. Len(ws) + 1 = n /\ Len(ws) = n - 1 BY <1>4
  <2> QED BY <2>1, <1>11, <1>13, <1>14, <1>15, <1>16 DEF Run
<1>18. g[Len(ws) + 1] = e
  <2>1. Len(ws) + 1 = n /\ n \in 1 .. n BY <1>4
  <2> QED BY <2>1, <1>7, <1>11
<1> QED BY <1>4, <1>22, <1>23, <1>17, <1>18 DEF RunTo, ws, ps

(* How many bytes are to come with the k-th word of n bytes. *)
Left(n, k) == n - (k - 1) * W

LEMMA LeftIs ==
  ASSUME NEW n \in Nat \ {0}
  PROVE  LET K == (n + W - 1) \div W IN
         /\ K \in Nat /\ K >= 1 /\ Left(n, 1) = n
         /\ \A k \in 1 .. K : Left(n, k) \in Nat /\ Left(n, k) >= 1 /\ (k = K <=> Left(n, k) <= W)
                              /\ Left(n, k + 1) = Left(n, k) - W
<1> DEFINE K == (n + W - 1) \div W
<1>1. W \in Nat \ {0} BY BytesAre
<1>2. K \in Nat /\ K >= 1 /\ K * W >= n /\ (K - 1) * W < n BY <1>1, WordCount
<1> HIDE DEF K
<1>3. \A k \in Int : (k + 1 - 1) * W = (k - 1) * W + W /\ (k - 1) * W \in Int BY <1>1
<1>4. \A k \in 1 .. K : k - 1 <= K - 1 /\ (k # K => k <= K - 1) BY <1>2
<1>5. \A i, j \in Int : i <= j => i * W <= j * W BY <1>1
<1>6. ASSUME NEW k \in 1 .. K
      PROVE  Left(n, k) \in Nat /\ Left(n, k) >= 1 /\ (k = K <=> Left(n, k) <= W) /\ Left(n, k + 1) = Left(n, k) - W
  <2> DEFINE x == (k - 1) * W
             y == (K - 1) * W
             z == (k + 1 - 1) * W
  <2>1. k \in Int /\ K \in Int /\ k - 1 \in Int /\ K - 1 \in Int BY <1>2
  <2>10. x \in Int /\ z = x + W BY <2>1, <1>3, Zenon
  <2>11. y \in Int BY <2>1, <1>3, Zenon
  <2>2. x \in Int /\ y \in Int /\ z \in Int /\ z = x + W
    <3> HIDE DEF x, y, z
    <3> QED BY <2>10, <2>11, <1>1
  <2>3. x <= y BY <2>1, <1>4, <1>5
  <2>4. k # K => z <= y
    <3>1. SUFFICES ASSUME k # K PROVE z <= y OBVIOUS
    <3>2. k + 1 - 1 <= K - 1 /\ k + 1 - 1 \in Int BY <3>1, <2>1, <1>4
    <3> QED BY <3>2, <2>1, <1>5
  <2>5. y < n BY <1>2
  <2>6. K * W = y + W BY <2>1, <1>1
  <2>7. y + W >= n BY <2>6, <1>2
  <2>8. k = K => x = y OBVIOUS
  <2>9. Left(n, k) = n - x /\ Left(n, k + 1) = n - z BY DEF Left
  <2> HIDE DEF x, y, z
  <2> QED BY <2>2, <2>3, <2>4, <2>5, <2>7, <2>8, <2>9, <1>1
<1>7. Left(n, 1) = n BY <1>1 DEF Left
<1> QED BY <1>2, <1>6, <1>7 DEF K

LEMMA WordsOfIs ==
  ASSUME NEW pos \in Int, NEW n \in Nat \ {0}
  PROVE  LET K == (n + W - 1) \div W IN
         /\ WordsOf(pos, n) \in Seq(Word) /\ Len(WordsOf(pos, n)) = K
         /\ \A k \in 1 .. K : LET w == WordsOf(pos, n)[k] IN
               w.keep = Smaller(W, Left(n, k)) /\ (w.last <=> w.keep = Left(n, k))
               /\ \A b \in 0 .. w.keep - 1 : w.data[b] = pos + n - Left(n, k) + b
<1> DEFINE K == (n + W - 1) \div W
           ws == WordsOf(pos, n)
<1>1. W \in Nat /\ W >= 1 /\ \A b \in Int : b \in Bytes <=> b >= 0 /\ b < W BY BytesAre
<1>2. K \in Nat /\ K >= 1 /\ \A k \in 1 .. K : Left(n, k) \in Nat /\ Left(n, k) >= 1 BY LeftIs
<1>3. ws = [k \in 1 .. K |-> ws[k]] BY DEF WordsOf
<1>4. ASSUME NEW k \in 1 .. K
      PROVE  /\ ws[k] \in Word
             /\ ws[k].keep = Smaller(W, Left(n, k)) /\ (ws[k].last <=> ws[k].keep = Left(n, k))
             /\ \A b \in 0 .. ws[k].keep - 1 : ws[k].data[b] = pos + n - Left(n, k) + b
  <2> DEFINE x == (k - 1) * W
             c == Smaller(W, n - x)
             d == [b \in Bytes |-> IF b < c THEN pos + x + b ELSE -1]
  <2>1. ws[k] = [data |-> d, keep |-> c, last |-> x + c = n] BY DEF WordsOf
  <2>2. k \in Int /\ K \in Int BY <1>2
  <2>3. x \in Int BY <2>2, <1>1
  <2>4. Left(n, k) = n - x BY DEF Left
  <2>5. n - x \in Nat /\ n - x >= 1 BY <2>4, <1>2
  <2> HIDE DEF x
  <2>6. c \in Nat /\ c <= W /\ c = Smaller(W, Left(n, k)) /\ (x + c = n <=> c = Left(n, k)) BY <1>1, <2>3, <2>4, <2>5 DEF Smaller
  <2> HIDE DEF c
  <2>7. d \in [Bytes -> Int]
    <3>1. Bytes \subseteq Int BY DEF Bytes
    <3> QED BY <3>1, <2>3
  <2>8. \A b \in 0 .. c - 1 : d[b] = pos + x + b BY <2>6, <1>1
  <2> HIDE DEF d
  <2>9. ws[k].data = d /\ ws[k].keep = c /\ ws[k].last = (x + c = n) BY <2>1
  <2>10. ws[k] \in Word BY <2>1, <2>6, <2>7 DEF Word
  <2>11. \A b \in 0 .. c - 1 : pos + x + b = pos + n - Left(n, k) + b BY <2>3, <2>4
  <2> HIDE DEF ws
  <2> QED BY <2>6, <2>8, <2>9, <2>10, <2>11
<1> HIDE DEF K, ws
<1>5. ws \in Seq(Word) /\ Len(ws) = K
  <2>1. ws \in [1 .. K -> Word] BY <1>3, <1>4
  <2> QED BY <2>1, <1>2
<1> QED BY <1>4, <1>5 DEF K, ws

LEMMA ConcatWords ==
  ASSUME NEW q \in Seq(Word), NEW u \in Seq(Word)
  PROVE  /\ q \o u \in Seq(Word)
         /\ Len(q) \in Nat /\ Len(u) \in Nat /\ Len(q \o u) = Len(q) + Len(u)
         /\ \A k \in 1 .. Len(q) : (q \o u)[k] = q[k]
         /\ \A k \in 1 .. Len(u) : (q \o u)[Len(q) + k] = u[k]
OBVIOUS

(* The words of n bytes are added behind the others. *)
LEMMA RunAddWords ==
  ASSUME NEW words, NEW parts, RunTo(words, parts, <<Len(parts) + 1, 0>>), NEW pos \in Int, NEW n \in Nat \ {0}
  PROVE  RunTo(words \o WordsOf(pos, n), Append(parts, [pos |-> pos, len |-> n]), <<Len(parts) + 2, 0>>)
<1> DEFINE p == [pos |-> pos, len |-> n]
           m == Len(parts)
           N == Len(words)
           K == (n + W - 1) \div W
           us == WordsOf(pos, n)
           ws == words \o us
           ps == Append(parts, p)
           end == <<m + 2, 0>>
<1>1. p \in Part /\ p.pos = pos /\ p.len = n /\ End(p) = pos + n BY DEF Part, End
<1>2. words \in Seq(Word) /\ parts \in Seq(Part) BY RunPlace
<1>3. m \in Nat /\ ps \in Seq(Part) /\ Len(ps) = m + 1 /\ ps[m + 1] = p BY <1>1, <1>2, AppendIs, EmptyIs
<1>4. RunTo(words, ps, <<m + 1, n>>)
  <2>1. <<m + 1, 0>>[1] = Len(parts) + 1 OBVIOUS
  <2> QED BY <2>1, <1>1, RunAddPart
<1>5. /\ us \in Seq(Word) /\ Len(us) = K
      /\ \A k \in 1 .. K : us[k].keep = Smaller(W, Left(n, k)) /\ (us[k].last <=> us[k].keep = Left(n, k))
                           /\ \A b \in 0 .. us[k].keep - 1 : us[k].data[b] = pos + n - Left(n, k) + b
  BY WordsOfIs
<1>6. /\ K \in Nat /\ K >= 1 /\ Left(n, 1) = n
      /\ \A k \in 1 .. K : Left(n, k) \in Nat /\ Left(n, k) >= 1 /\ (k = K <=> Left(n, k) <= W) /\ Left(n, k + 1) = Left(n, k) - W
  BY LeftIs
<1>7. W \in Nat /\ W >= 1 BY BytesAre
<1>8. /\ ws \in Seq(Word) /\ N \in Nat /\ Len(ws) = N + K
      /\ \A k \in 1 .. N : ws[k] = words[k]
      /\ \A k \in 1 .. K : ws[N + k] = us[k]
  <2> HIDE DEF us, K
  <2>1. /\ ws \in Seq(Word) /\ N \in Nat /\ Len(us) \in Nat /\ Len(ws) = N + Len(us)
        /\ \A k \in 1 .. N : ws[k] = words[k]
        /\ \A k \in 1 .. Len(us) : ws[N + k] = us[k]
    <3>1. us \in Seq(Word) BY <1>5
    <3>2. words \in Seq(Word) BY <1>2
    <3> HIDE DEF N, ws
    <3>3. ws = words \o us /\ N = Len(words) BY DEF ws, N
    <3>4. /\ words \o us \in Seq(Word) /\ Len(words) \in Nat /\ Len(us) \in Nat /\ Len(words \o us) = Len(words) + Len(us)
          /\ \A k \in 1 .. Len(words) : (words \o us)[k] = words[k]
          /\ \A k \in 1 .. Len(us) : (words \o us)[Len(words) + k] = us[k]
      BY <3>1, <3>2, ConcatWords
    <3> QED BY <3>3, <3>4, Zenon
  <2> HIDE DEF ws, N
  <2> QED BY <2>1, <1>5
<1>9. PICK f : Run(words, ps, f) /\ f[N + 1] = <<m + 1, n>> BY <1>4 DEF RunTo
<1> HIDE DEF p, m, N, K, us, ws, ps
<1>10. /\ f \in [1 .. N + 1 -> Nat \X Nat] /\ f[1] = <<1, Todo(ps, 1)>>
       /\ \A j \in 1 .. N + 1 : Place(ps, f[j])
       /\ \A j \in 1 .. N : Comes(words[j], ps, f[j]) /\ f[j + 1] = After(words[j], ps, f[j])
       /\ \A i, j \in 1 .. N + 1 : i < j => IF words[i].last THEN f[i][1] < f[j][1] ELSE f[i][1] <= f[j][1]
  BY <1>9 DEF Run, N
<1> DEFINE g == [j \in 1 .. N + K + 1 |-> IF j <= N THEN f[j] ELSE IF j = N + K + 1 THEN end ELSE <<m + 1, Left(n, j - N)>>]
<1>11. end \in Nat \X Nat /\ end[1] = m + 2 /\ end[2] = 0 BY <1>3
<1>12. \A k \in 1 .. K : <<m + 1, Left(n, k)>> \in Nat \X Nat BY <1>3, <1>6
<1>13. g \in [1 .. N + K + 1 -> Nat \X Nat]
  <2>1. \A j \in 1 .. N + K + 1 : j <= N => j \in 1 .. N + 1 BY <1>8
  <2>2. \A j \in 1 .. N + K + 1 : ~(j <= N) /\ j # N + K + 1 => j - N \in 1 .. K BY <1>8, <1>6
  <2> HIDE DEF end
  <2> QED BY <2>1, <2>2, <1>10, <1>11, <1>12
<1>14. (\A j \in 1 .. N : g[j] = f[j]) /\ g[N + K + 1] = end BY <1>6, <1>8
<1>15. \A k \in 1 .. K : g[N + k] = <<m + 1, Left(n, k)>>
  <2> TAKE k \in 1 .. K
  <2>1. N + k \in 1 .. N + K + 1 /\ ~(N + k <= N) /\ N + k # N + K + 1 /\ N + k - N = k BY <1>6, <1>8
  <2> DEFINE at(j) == IF j <= N THEN f[j] ELSE IF j = N + K + 1 THEN end ELSE <<m + 1, Left(n, j - N)>>
  <2>2. at(N + k) = <<m + 1, Left(n, N + k - N)>> BY <2>1, <1>6, <1>8
  <2>3. \A j \in 1 .. N + K + 1 : g[j] = at(j) OBVIOUS
  <2> HIDE DEF g, at
  <2>4. g[N + k] = at(N + k) BY <2>1, <2>3
  <2> QED BY <2>1, <2>2, <2>4
<1> HIDE DEF g, end
<1>16. g[N + 1] = f[N + 1]
  <2>1. 1 \in 1 .. K BY <1>6
  <2> QED BY <2>1, <1>6, <1>9, <1>15
<1>17. \A j \in 1 .. N + 1 : g[j] = f[j]
  <2> TAKE j \in 1 .. N + 1
  <2>1. j = N + 1 \/ j \in 1 .. N BY <1>8
  <2> QED BY <2>1, <1>14, <1>16
<1>18. \A k \in 1 .. K : /\ Comes(us[k], ps, g[N + k]) /\ g[N + k + 1] = After(us[k], ps, g[N + k])
                         /\ (us[k].last <=> k = K)
  <2> TAKE k \in 1 .. K
  <2>1. us[k].keep = Smaller(W, Left(n, k)) /\ (us[k].last <=> us[k].keep = Left(n, k))
        /\ \A b \in 0 .. us[k].keep - 1 : us[k].data[b] = pos + n - Left(n, k) + b
    BY <1>5
  <2>2. Left(n, k) \in Nat /\ Left(n, k) >= 1 /\ (k = K <=> Left(n, k) <= W) /\ Left(n, k + 1) = Left(n, k) - W BY <1>6
  <2>3. g[N + k] = <<m + 1, Left(n, k)>> BY <1>15
  <2>4. End(ps[m + 1]) = pos + n BY <1>1, <1>3
  <2>5. Comes(us[k], ps, <<m + 1, Left(n, k)>>)
    <3> DEFINE e == <<m + 1, Left(n, k)>>
    <3>1. e[1] = m + 1 /\ e[2] = Left(n, k) OBVIOUS
    <3> HIDE DEF e
    <3>2. us[k].keep = Smaller(W, e[2]) /\ (us[k].last <=> us[k].keep = e[2]) BY <2>1, <3>1
    <3>5. End(ps[e[1]]) - e[2] = pos + n - Left(n, k) BY <2>2, <2>4, <3>1
    <3>3. \A b \in 0 .. us[k].keep - 1 : us[k].data[b] = End(ps[e[1]]) - e[2] + b BY <2>1, <3>5
    <3>4. Comes(us[k], ps, e) BY <3>2, <3>3, Zenon DEF Comes
    <3> QED BY <3>4 DEF e
  <2>6. us[k].last <=> k = K BY <2>1, <2>2, <1>7 DEF Smaller
  <2>7. CASE k = K
    <3>1. Todo(ps, m + 1 + 1) = 0
      <4>1. m + 1 + 1 \notin 1 .. Len(ps) BY <1>3
      <4> QED BY <4>1 DEF Todo
    <3>2. After(us[k], ps, <<m + 1, Left(n, k)>>) = <<m + 1 + 1, Todo(ps, m + 1 + 1)>> BY <2>6, <2>7 DEF After
    <3>3. m + 1 + 1 = m + 2 BY <1>3
    <3>4. N + k + 1 = N + K + 1 BY <2>7
    <3> QED BY <3>1, <3>2, <3>3, <3>4, <2>3, <2>5, <2>6, <1>14 DEF end
  <2>8. CASE k # K
    <3>1. us[k].keep = W BY <2>1, <2>2, <2>8, <1>7 DEF Smaller
    <3>2. After(us[k], ps, <<m + 1, Left(n, k)>>) = <<m + 1, Left(n, k) - us[k].keep>> BY <2>6, <2>8 DEF After
    <3>3. k + 1 \in 1 .. K /\ N + (k + 1) = N + k + 1 BY <2>8, <1>6, <1>8
    <3>4. g[N + k + 1] = <<m + 1, Left(n, k + 1)>> BY <3>3, <1>15
    <3> QED BY <3>1, <3>2, <3>4, <2>2, <2>3, <2>5, <2>6
  <2> QED BY <2>7, <2>8
<1>19. \A j \in 1 .. N + K : Comes(ws[j], ps, g[j]) /\ g[j + 1] = After(ws[j], ps, g[j])
  <2> TAKE j \in 1 .. N + K
  <2>1. CASE j \in 1 .. N
    <3>1. j \in 1 .. N + 1 /\ j + 1 \in 1 .. N + 1 BY <2>1, <1>8
    <3> QED BY <3>1, <2>1, <1>8, <1>10, <1>17
  <2>2. CASE j \notin 1 .. N
    <3>1. PICK k \in 1 .. K : j = N + k
      <4>1. j - N \in 1 .. K /\ j = N + (j - N) BY <2>2, <1>6, <1>8
      <4> QED BY <4>1
    <3> QED BY <3>1, <1>8, <1>18
  <2> QED BY <2>1, <2>2
<1>20. \A j \in 1 .. N + K + 1 : Place(ps, g[j])
  <2> TAKE j \in 1 .. N + K + 1
  <2>1. CASE j \in 1 .. N
    <3>1. j \in 1 .. N + 1 BY <2>1, <1>8
    <3> QED BY <3>1, <1>10, <1>17
  <2>2. CASE j = N + K + 1
    <3>1. g[j] = end BY <2>2, <1>14
    <3> QED BY <3>1, <1>3, <1>11 DEF Place
  <2>3. CASE j \notin 1 .. N /\ j # N + K + 1
    <3>1. j - N \in 1 .. K /\ j = N + (j - N) BY <2>3, <1>6, <1>8
    <3>2. g[j] = <<m + 1, Left(n, j - N)>> BY <3>1, <1>15
    <3>3. Left(n, j - N) \in Nat /\ Left(n, j - N) # 0 BY <3>1, <1>6
    <3>4. g[j] \in Nat \X Nat /\ g[j][1] = m + 1 /\ g[j][2] # 0 BY <3>2, <3>3, <1>3
    <3> QED BY <3>4, <1>3 DEF Place
  <2> QED BY <2>1, <2>2, <2>3
<1>21. \A i, j \in 1 .. N + K + 1 : i < j => IF ws[i].last THEN g[i][1] < g[j][1] ELSE g[i][1] <= g[j][1]
  <2> SUFFICES ASSUME NEW i \in 1 .. N + K + 1, NEW j \in 1 .. N + K + 1, i < j
               PROVE IF ws[i].last THEN g[i][1] < g[j][1] ELSE g[i][1] <= g[j][1]
    OBVIOUS
  <2>1. \A x \in 1 .. N + K + 1 : ~(x <= N) => g[x][1] = (IF x = N + K + 1 THEN m + 2 ELSE m + 1)
    <3> TAKE x \in 1 .. N + K + 1
    <3> HAVE ~(x <= N)
    <3>1. CASE x = N + K + 1 BY <3>1, <1>11, <1>14
    <3>2. CASE x # N + K + 1
      <4>1. x - N \in 1 .. K /\ x = N + (x - N) BY <3>2, <1>6, <1>8
      <4>2. g[x] = <<m + 1, Left(n, x - N)>> BY <4>1, <1>15
      <4> QED BY <4>2, <3>2
    <3> QED BY <3>1, <3>2
  <2>2. CASE ~(i <= N)
    <3>1. ~(j <= N) /\ i # N + K + 1 BY <2>2, <1>8, <1>6
    <3>2. g[i][1] = m + 1 /\ g[j][1] = IF j = N + K + 1 THEN m + 2 ELSE m + 1 BY <2>1, <2>2, <3>1
    <3>3. i - N \in 1 .. K /\ i = N + (i - N) BY <2>2, <3>1, <1>6, <1>8
    <3>4. ws[i].last <=> i - N = K BY <3>3, <1>8, <1>18
    <3>5. ws[i].last => j = N + K + 1 BY <3>3, <3>4, <1>6, <1>8
    <3> QED BY <3>2, <3>5, <1>3
  <2>3. CASE i <= N /\ j <= N + 1 
    <3>1. i \in 1 .. N /\ i \in 1 .. N + 1 /\ j \in 1 .. N + 1 BY <2>3, <1>8
    <3> QED BY <3>1, <1>8, <1>10, <1>17
  <2>4. CASE i <= N /\ ~(j <= N + 1)
    <3>1. i \in 1 .. N /\ i \in 1 .. N + 1 /\ N + 1 \in 1 .. N + 1 /\ i < N + 1 /\ ~(j <= N) BY <2>4, <1>8
    <3>2. IF ws[i].last THEN g[i][1] < g[N + 1][1] ELSE g[i][1] <= g[N + 1][1]
      <4>1. ws[i] = words[i] /\ g[i] = f[i] /\ g[N + 1] = f[N + 1] BY <3>1, <1>8, <1>17
      <4> QED BY <4>1, <3>1, <1>10
    <3>3. g[N + 1][1] = m + 1 BY <1>9, <1>16
    <3>4. g[j][1] = IF j = N + K + 1 THEN m + 2 ELSE m + 1 BY <2>1, <3>1
    <3>5. g[i][1] \in Int /\ m + 1 <= g[j][1]
      <4>1. g[i] \in Nat \X Nat BY <1>13
      <4> QED BY <4>1, <3>4, <1>3
    <3>6. g[j][1] \in Int BY <3>4, <1>3
    <3> QED BY <3>2, <3>3, <3>5, <3>6, <1>3
  <2> QED BY <2>2, <2>3, <2>4
<1>22. g[1] = <<1, Todo(ps, 1)>>
  <2>1. 1 \in 1 .. N + 1 BY <1>8
  <2> QED BY <2>1, <1>10, <1>17
<1>23. Run(ws, ps, g) BY <1>8, <1>13, <1>19, <1>20, <1>21, <1>22 DEF Run
<1> QED BY <1>3, <1>8, <1>14, <1>23 DEF RunTo, ws, ps, p, us, end, m

----------------------------------------------------------------------------
(* What the words in the FIFOs and the states of the writer belong to.     *)

Meta == [pos : Int, len : 1 .. B, drop : BOOLEAN]
Cmd == [addr : 0 .. B - 1, len : 1 .. B]
WriterStates == {"idle", "first", "evalSecond", "aligned", "second", "residue"}

WriterTypes ==
  /\ side \in Sides /\ written \in Nat
  /\ pushMeta \in Seq(Meta) /\ pkgBuffer \in Seq(Word)
  /\ wrState \in WriterStates /\ wrCmd \in [addr : 0 .. B - 1, len : 0 .. B] /\ breakTemp \in 0 .. B /\ breakdown \in BOOLEAN
  /\ lengthBuffer \in 0 .. W /\ residue \in 0 .. W /\ pushWord \in Word /\ dropping \in BOOLEAN
  /\ wrMemCmd \in Seq(Cmd) /\ wrData \in Seq(Word)

CommandsFit == \A i \in 1 .. Len(wrMemCmd) : wrMemCmd[i].addr + wrMemCmd[i].len <= B

PartOf(m) == [pos |-> IF m.drop THEN -1 - m.len ELSE m.pos, len |-> m.len]

(* pkgBuffer holds the rest of the package in work, if there is one (n = 1), and the packages to come. *)
Pending(pk, n) ==
  /\ n \in {0, 1} /\ Len(pk) = n + Len(pushMeta)
  /\ \A i \in 1 .. Len(pushMeta) : pk[n + i] = PartOf(pushMeta[i])
  /\ RunTo(pkgBuffer, pk, <<Len(pk) + 1, 0>>)

(* wrData holds what the commands are for, but for the last bytes of the last one. *)
Commanded(cp, left) ==
  /\ Len(cp) = Len(wrMemCmd)
  /\ \A i \in 1 .. Len(cp) : cp[i].len = wrMemCmd[i].len /\ Addr(cp[i].pos) = wrMemCmd[i].addr
  /\ RunTo(wrData, cp, IF left = 0 THEN <<Len(cp) + 1, 0>> ELSE <<Len(cp), left>>)

LastEnd(cp) == End(cp[Len(cp)])
Missing(pk) ==
  IF wrState = "aligned" THEN pk[1].len
  ELSE IF wrState \in {"second", "residue"} \/ (wrState = "first" /\ ~dropping) THEN breakTemp ELSE 0

(* n bytes of the second access, from q on, are in the word that has been split. *)
Behind(q, n) == lengthBuffer + n <= W /\ \A b \in 0 .. n - 1 : pushWord.data[lengthBuffer + b] = q + b
SecondHas(pk, n, q, len) ==
  /\ lengthBuffer >= 1 /\ Behind(q, residue)
  /\ IF len > residue THEN residue + lengthBuffer = W /\ n = 1 /\ pk[1] = [pos |-> q + residue, len |-> len - residue]
                      ELSE n = 0 /\ len = residue

InFirst(cp, pk, n) ==
  /\ n = 1
  /\ ~dropping =>
       /\ breakTemp >= 1
       /\ pk[1] = [pos |-> LastEnd(cp) - breakTemp, len |-> breakTemp + (IF breakdown THEN wrCmd.len ELSE 0)]
       /\ breakdown => Addr(LastEnd(cp)) = 0 /\ wrCmd.len >= 1 /\ (wrCmd.addr % W = 0 => breakTemp % W = 0)
InEval(pk, n, q) ==
  wrCmd.len >= 1 /\ Addr(q) = 0 /\ SecondHas(pk, n, q, wrCmd.len) /\ (wrCmd.addr % W = 0 => residue = 0)
InAligned(cp, pk, n) == n = 1 /\ End(pk[1]) = LastEnd(cp)
InSecond(cp, pk, n, q) ==
  /\ breakTemp >= 1 /\ breakTemp > residue /\ SecondHas(pk, n, q, breakTemp) /\ LastEnd(cp) = q + breakTemp
InResidue(cp, n, q) == n = 0 /\ breakTemp >= 1 /\ lengthBuffer >= 1 /\ Behind(q, breakTemp) /\ LastEnd(cp) = q + breakTemp

WriterOk(cp, pk, n, q) ==
  /\ q \in Int /\ Pending(pk, n) /\ Commanded(cp, Missing(pk))
  /\ wrState = "idle" => n = 0
  /\ wrState = "first" => InFirst(cp, pk, n)
  /\ wrState = "evalSecond" => InEval(pk, n, q)
  /\ wrState = "aligned" => InAligned(cp, pk, n)
  /\ wrState = "second" => InSecond(cp, pk, n, q)
  /\ wrState = "residue" => InResidue(cp, n, q)

WriterInv == WriterTypes /\ CommandsFit /\ \E cp, pk, n, q : WriterOk(cp, pk, n, q)

----------------------------------------------------------------------------
(* The four ways in which the FIFOs and their parts change.                *)

Took(parts, w) ==
  IF w.last THEN Tail(parts)
  ELSE [parts EXCEPT ![1] = [pos |-> parts[1].pos + w.keep, len |-> parts[1].len - w.keep]]

LEMMA TookIs ==
  ASSUME NEW parts \in Seq(Part), parts # <<>>, NEW w \in Word, w.keep >= 1, w.keep <= parts[1].len,
         w.last <=> w.keep = parts[1].len
  PROVE  /\ Took(parts, w) \in Seq(Part) /\ Len(parts) \in Nat /\ Len(parts) >= 1
         /\ w.last => Len(Took(parts, w)) = Len(parts) - 1 /\ \A i \in 1 .. Len(parts) - 1 : Took(parts, w)[i] = parts[i + 1]
         /\ ~w.last => /\ Len(Took(parts, w)) = Len(parts)
                       /\ Took(parts, w)[1] = [pos |-> parts[1].pos + w.keep, len |-> parts[1].len - w.keep]
                       /\ End(Took(parts, w)[1]) = End(parts[1])
                       /\ \A i \in 2 .. Len(parts) : Took(parts, w)[i] = parts[i]
<1> DEFINE p == [pos |-> parts[1].pos + w.keep, len |-> parts[1].len - w.keep]
<1>1. Len(parts) \in Nat /\ Len(parts) >= 1 BY PartIs, EmptyIs
<1>2. 1 \in 1 .. Len(parts) BY <1>1
<1>3. parts[1].pos \in Int /\ parts[1].len \in Nat /\ w.keep \in Nat /\ w.last \in BOOLEAN BY <1>2, PartIs, WordIs
<1>4. CASE w.last
  <2>1. Took(parts, w) = Tail(parts) BY <1>4 DEF Took
  <2> QED BY <2>1, <1>1, <1>4, TailIs
<1>5. CASE ~w.last
  <2>1. Took(parts, w) = [parts EXCEPT ![1] = p] BY <1>5 DEF Took
  <2>2. p.len \in Nat \ {0} /\ p.pos \in Int /\ p.pos + p.len = parts[1].pos + parts[1].len BY <1>3, <1>5
  <2>6. p \in Part BY <2>2 DEF Part
  <2>5. End(p) = End(parts[1]) BY <2>2 DEF End
  <2> HIDE DEF p
  <2>3. Took(parts, w) \in Seq(Part) /\ Len(Took(parts, w)) = Len(parts) /\ Took(parts, w)[1] = p BY <2>1, <2>6, <1>2
  <2>4. \A i \in 2 .. Len(parts) : Took(parts, w)[i] = parts[i] BY <2>1
  <2> QED BY <2>3, <2>4, <2>5, <1>1, <1>5 DEF p
<1> QED BY <1>3, <1>4, <1>5

(* The next word of the package in work is taken. *)
LEMMA TakePackage ==
  ASSUME NEW pk, Pending(pk, 1), pkgBuffer # <<>>, pkgBuffer' = Tail(pkgBuffer), UNCHANGED pushMeta, pushMeta \in Seq(Meta),
         NEW w, w = Head(pkgBuffer)
  PROVE  /\ Pending(Took(pk, w), IF w.last THEN 0 ELSE 1)'
         /\ pk \in Seq(Part) /\ pk # <<>> /\ pk[1] \in Part
         /\ w \in Word /\ w.keep = Smaller(W, pk[1].len)
         /\ w.last <=> w.keep = pk[1].len
         /\ w.keep >= 1 /\ w.keep <= W /\ w.keep <= pk[1].len
         /\ \A b \in 0 .. w.keep - 1 : w.data[b] = pk[1].pos + b
<1> DEFINE e == <<Len(pk) + 1, 0>>
           qk == Took(pk, w)
<1>1. Len(pk) = 1 + Len(pushMeta) /\ (\A i \in 1 .. Len(pushMeta) : pk[1 + i] = PartOf(pushMeta[i])) /\ RunTo(pkgBuffer, pk, e)
  BY DEF Pending
<1>2. pkgBuffer \in Seq(Word) /\ pk \in Seq(Part) BY <1>1, RunPlace
<1> HIDE DEF e
<1>3. /\ w \in Word /\ pk # <<>> /\ Len(pk) \in Nat /\ Len(pk) >= 1 /\ pk[1] \in Part /\ w.keep = Smaller(W, pk[1].len)
      /\ w.last <=> w.keep = pk[1].len
      /\ \A b \in 0 .. w.keep - 1 : w.data[b] = pk[1].pos + b
  BY <1>1, RunHead
<1>4. w.keep \in Nat /\ w.keep >= 1 /\ w.keep <= W /\ w.keep <= pk[1].len BY <1>1, HeadKeeps
<1>5. e[1] = Len(pk) + 1 /\ e[2] = 0 BY DEF e
<1>6. Len(pushMeta) \in Nat BY EmptyIs
<1>7. /\ w.last => Len(qk) = Len(pk) - 1 /\ \A i \in 1 .. Len(pk) - 1 : qk[i] = pk[i + 1]
      /\ ~w.last => Len(qk) = Len(pk) /\ \A i \in 2 .. Len(pk) : qk[i] = pk[i]
  BY <1>2, <1>3, <1>4, TookIs
<1>8. w.last \in BOOLEAN BY <1>3, WordIs
<1>9. CASE w.last
  <2>1. RunTo(Tail(pkgBuffer), Tail(pk), <<e[1] - 1, e[2]>>) BY <1>1, <1>9, RunTakesLast
  <2>2. qk = Tail(pk) BY <1>9 DEF Took
  <2>3. <<e[1] - 1, e[2]>> = <<Len(qk) + 1, 0>> BY <1>3, <1>5, <1>7, <1>9
  <2>4. RunTo(Tail(pkgBuffer), qk, <<Len(qk) + 1, 0>>) BY <2>1, <2>2, <2>3
  <2>5. Len(qk) = 0 + Len(pushMeta) BY <1>1, <1>6, <1>7, <1>9
  <2>6. \A i \in 1 .. Len(pushMeta) : qk[0 + i] = PartOf(pushMeta[i])
    <3> TAKE i \in 1 .. Len(pushMeta)
    <3>1. i \in 1 .. Len(pk) - 1 /\ 0 + i = i /\ 1 + i = i + 1 BY <1>1, <1>6
    <3> QED BY <3>1, <1>1, <1>7, <1>9
  <2> HIDE DEF qk
  <2>7. Pending(qk, 0)' BY <2>4, <2>5, <2>6 DEF Pending, PartOf
  <2> QED BY <2>7, <1>2, <1>3, <1>4, <1>9 DEF qk
<1>10. CASE ~w.last
  <2> DEFINE p == [pos |-> pk[1].pos + w.keep, len |-> pk[1].len - w.keep]
  <2>1. RunTo(Tail(pkgBuffer), [pk EXCEPT ![1] = p], e) BY <1>1, <1>10, RunTakesPart
  <2>2. qk = [pk EXCEPT ![1] = p] BY <1>10 DEF Took
  <2>3. e = <<Len(qk) + 1, 0>> BY <1>7, <1>10 DEF e
  <2>4. RunTo(Tail(pkgBuffer), qk, <<Len(qk) + 1, 0>>) BY <2>1, <2>2, <2>3
  <2>5. Len(qk) = 1 + Len(pushMeta) BY <1>1, <1>7, <1>10
  <2>6. \A i \in 1 .. Len(pushMeta) : qk[1 + i] = PartOf(pushMeta[i])
    <3> TAKE i \in 1 .. Len(pushMeta)
    <3>1. 1 + i \in 2 .. Len(pk) BY <1>1, <1>6
    <3> QED BY <3>1, <1>1, <1>7, <1>10
  <2> HIDE DEF qk, p
  <2>7. Pending(qk, 1)' BY <2>4, <2>5, <2>6 DEF Pending, PartOf
  <2> QED BY <2>7, <1>2, <1>3, <1>4, <1>10 DEF qk
<1> QED BY <1>8, <1>9, <1>10

(* A word is put to those of the last command. *)
LEMMA PutWord ==
  ASSUME NEW cp, NEW left \in Nat \ {0}, Commanded(cp, left), NEW w \in Word,
         w.keep = Smaller(W, left), w.last <=> w.keep = left,
         \A b \in 0 .. w.keep - 1 : w.data[b] = LastEnd(cp) - left + b,
         wrData' = Append(wrData, w), UNCHANGED wrMemCmd
  PROVE  Commanded(cp, IF w.last THEN 0 ELSE left - w.keep)'
<1> DEFINE e == <<Len(cp), left>>
           r == IF w.last THEN 0 ELSE left - w.keep
<1>1. Len(cp) = Len(wrMemCmd) /\ RunTo(wrData, cp, e)
      /\ \A i \in 1 .. Len(cp) : cp[i].len = wrMemCmd[i].len /\ Addr(cp[i].pos) = wrMemCmd[i].addr
  BY DEF Commanded
<1>2. wrData \in Seq(Word) /\ cp \in Seq(Part) /\ Place(cp, e) BY <1>1, RunPlace
<1>3. Len(cp) \in Nat BY <1>2, PartIs
<1>4. e[1] = Len(cp) /\ e[2] = left OBVIOUS
<1>5. e[1] \in 1 .. Len(cp)
  <2>1. e[1] \in 1 .. Len(cp) + 1 BY <1>2 DEF Place
  <2> QED BY <2>1, <1>3, <1>4
<1> HIDE DEF e
<1>6. Comes(w, cp, e) BY <1>4 DEF Comes, LastEnd
<1>7. RunTo(Append(wrData, w), cp, After(w, cp, e)) BY <1>1, <1>5, <1>6, RunPut
<1>8. After(w, cp, e) = IF r = 0 THEN <<Len(cp) + 1, 0>> ELSE <<Len(cp), r>>
  <2>1. w.keep \in Nat /\ w.last \in BOOLEAN BY WordIs
  <2>2. w.keep <= left BY <2>1, BytesAre DEF Smaller
  <2>3. CASE w.last
    <3>1. Todo(cp, Len(cp) + 1) = 0
      <4>1. Len(cp) + 1 \notin 1 .. Len(cp) BY <1>3
      <4> QED BY <4>1 DEF Todo
    <3>2. After(w, cp, e) = <<e[1] + 1, Todo(cp, e[1] + 1)>> BY <2>3 DEF After
    <3> QED BY <3>1, <3>2, <2>3, <1>4
  <2>4. CASE ~w.last
    <3>1. After(w, cp, e) = <<e[1], e[2] - w.keep>> BY <2>4 DEF After
    <3>2. left - w.keep # 0 BY <2>1, <2>4
    <3> QED BY <3>1, <3>2, <2>4, <1>4
  <2> QED BY <2>1, <2>3, <2>4
<1> HIDE DEF r
<1>9. Commanded(cp, r)' BY <1>1, <1>7, <1>8 DEF Commanded, Addr
<1> QED BY <1>9 DEF r

(* A command is added. *)
LEMMA AddCommand ==
  ASSUME NEW cp, Commanded(cp, 0), NEW p \in Part, wrMemCmd \in Seq(Cmd),
         NEW c \in Cmd, c.len = p.len, c.addr = Addr(p.pos), wrMemCmd' = Append(wrMemCmd, c), UNCHANGED wrData
  PROVE  Commanded(Append(cp, p), p.len)' /\ LastEnd(Append(cp, p)) = End(p)
<1> DEFINE e == <<Len(cp) + 1, 0>>
           ap == Append(cp, p)
<1>1. Len(cp) = Len(wrMemCmd) /\ RunTo(wrData, cp, e)
      /\ \A i \in 1 .. Len(cp) : cp[i].len = wrMemCmd[i].len /\ Addr(cp[i].pos) = wrMemCmd[i].addr
  BY DEF Commanded
<1>2. wrData \in Seq(Word) /\ cp \in Seq(Part) BY <1>1, RunPlace
<1>3. Len(cp) \in Nat BY <1>2, PartIs
<1>4. e[1] = Len(cp) + 1 OBVIOUS
<1> HIDE DEF e
<1>5. RunTo(wrData, ap, <<Len(cp) + 1, p.len>>) BY <1>1, <1>4, RunAddPart
<1>6. Len(ap) = Len(cp) + 1 /\ ap[Len(cp) + 1] = p /\ \A k \in 1 .. Len(cp) : ap[k] = cp[k] BY <1>2, AppendIs
<1>7. Len(wrMemCmd') = Len(wrMemCmd) + 1 /\ wrMemCmd'[Len(wrMemCmd) + 1] = c
      /\ \A k \in 1 .. Len(wrMemCmd) : wrMemCmd'[k] = wrMemCmd[k]
  BY AppendIs
<1> HIDE DEF ap
<1>8. p.len # 0 BY DEF Part
<1>9. \A i \in 1 .. Len(ap) : ap[i].len = wrMemCmd'[i].len /\ Addr(ap[i].pos) = wrMemCmd'[i].addr
  <2> TAKE i \in 1 .. Len(ap)
  <2>1. i = Len(cp) + 1 \/ i \in 1 .. Len(cp) BY <1>3, <1>6
  <2> QED BY <2>1, <1>1, <1>6, <1>7
<1>10. Commanded(ap, p.len)' BY <1>1, <1>5, <1>6, <1>7, <1>8, <1>9 DEF Commanded, Addr
<1>11. LastEnd(ap) = End(p) BY <1>6 DEF LastEnd
<1> QED BY <1>10, <1>11 DEF ap

(* The word w that the memory takes is the first of the first command, c. *)
Taken(cp, c, w) ==
  /\ cp \in Seq(Part) /\ cp # <<>> /\ cp[1] \in Part /\ c \in Cmd /\ Addr(cp[1].pos) = c.addr /\ cp[1].len = c.len
  /\ w \in Word /\ w.keep = Smaller(W, c.len)
  /\ w.last <=> w.keep = c.len
  /\ w.keep >= 1 /\ w.keep <= W /\ w.keep <= c.len
  /\ \A b \in 0 .. w.keep - 1 : w.data[b] = cp[1].pos + b

(* The memory takes a word. *)
LEMMA TakeWord ==
  ASSUME NEW cp, NEW left \in Nat, Commanded(cp, left), wrMemCmd \in Seq(Cmd), CommandsFit, wrData # <<>>, wrMemCmd # <<>>,
         NEW w, w = Head(wrData), NEW c, c = Head(wrMemCmd), wrData' = Tail(wrData),
         wrMemCmd' = IF w.last THEN Tail(wrMemCmd) ELSE <<[addr |-> c.addr + w.keep, len |-> c.len - w.keep]>> \o Tail(wrMemCmd)
  PROVE  /\ Commanded(Took(cp, w), left)' /\ (wrMemCmd \in Seq(Cmd))' /\ CommandsFit'
         /\ Taken(cp, c, w)
         /\ left # 0 => LastEnd(Took(cp, w)) = LastEnd(cp) /\ Took(cp, w) # <<>>
<1> DEFINE e == IF left = 0 THEN <<Len(cp) + 1, 0>> ELSE <<Len(cp), left>>
           tk == Took(cp, w)
           d == [addr |-> c.addr + w.keep, len |-> c.len - w.keep]
<1>1. Len(cp) = Len(wrMemCmd) /\ RunTo(wrData, cp, e)
      /\ \A i \in 1 .. Len(cp) : cp[i].len = wrMemCmd[i].len /\ Addr(cp[i].pos) = wrMemCmd[i].addr
  BY DEF Commanded
<1>2. cp \in Seq(Part) BY <1>1, RunPlace
<1>3. /\ e[1] = (IF left = 0 THEN Len(cp) + 1 ELSE Len(cp)) /\ e[2] = left
      /\ e = <<e[1], e[2]>>
  OBVIOUS
<1> HIDE DEF e
<1>4. /\ w \in Word /\ cp # <<>> /\ Len(cp) \in Nat /\ Len(cp) >= 1 /\ cp[1] \in Part /\ w.keep = Smaller(W, cp[1].len)
      /\ w.last <=> w.keep = cp[1].len
      /\ \A b \in 0 .. w.keep - 1 : w.data[b] = cp[1].pos + b
  BY <1>1, RunHead
<1>5. w.keep \in Nat /\ w.keep >= 1 /\ w.keep <= W /\ w.keep <= cp[1].len BY <1>1, HeadKeeps
<1>6. c \in Cmd /\ c = wrMemCmd[1] /\ Tail(wrMemCmd) \in Seq(Cmd) /\ Len(wrMemCmd) \in Nat
      /\ Len(Tail(wrMemCmd)) = Len(wrMemCmd) - 1 /\ \A k \in 1 .. Len(wrMemCmd) - 1 : Tail(wrMemCmd)[k] = wrMemCmd[k + 1]
  BY TailIs
<1>7. 1 \in 1 .. Len(cp) /\ cp[1].len = c.len /\ Addr(cp[1].pos) = c.addr BY <1>1, <1>4, <1>6
<1>8. c.addr \in 0 .. B - 1 /\ c.len \in 1 .. B /\ c.addr + c.len <= B
  <2>1. 1 \in 1 .. Len(wrMemCmd) BY <1>1, <1>7
  <2> QED BY <2>1, <1>6 DEF Cmd, CommandsFit
<1>9. tk \in Seq(Part) /\ Len(cp) \in Nat /\ Len(cp) >= 1
      /\ (w.last => Len(tk) = Len(cp) - 1 /\ \A i \in 1 .. Len(cp) - 1 : tk[i] = cp[i + 1])
      /\ (~w.last => /\ Len(tk) = Len(cp)
                     /\ tk[1] = [pos |-> cp[1].pos + w.keep, len |-> cp[1].len - w.keep]
                     /\ End(tk[1]) = End(cp[1])
                     /\ \A i \in 2 .. Len(cp) : tk[i] = cp[i])
  BY <1>2, <1>4, <1>5, TookIs
<1>10. w.last \in BOOLEAN /\ B \in Nat \ {0} BY <1>4, WordIs, RingAssumption
<1>11. cp[1].pos \in Int /\ cp[1].len \in Nat BY <1>2, <1>7, PartIs
<1>14. Taken(cp, c, w)
  <2>1. \A b \in 0 .. w.keep - 1 : w.data[b] = cp[1].pos + b BY <1>4
  <2> QED BY <2>1, <1>2, <1>4, <1>5, <1>6, <1>7 DEF Taken
<1>12. CASE w.last
  <2>1. e[1] \in Nat /\ e[1] >= 2 /\ RunTo(Tail(wrData), Tail(cp), <<e[1] - 1, e[2]>>) BY <1>1, <1>12, RunTakesLast
  <2>2. tk = Tail(cp) BY <1>12 DEF Took
  <2>3. wrMemCmd' = Tail(wrMemCmd) BY <1>12
  <2>4. <<e[1] - 1, e[2]>> = IF left = 0 THEN <<Len(tk) + 1, 0>> ELSE <<Len(tk), left>> BY <1>3, <1>9, <1>12
  <2>5. RunTo(wrData', tk, IF left = 0 THEN <<Len(tk) + 1, 0>> ELSE <<Len(tk), left>>) BY <2>1, <2>2, <2>4
  <2>6. Len(tk) = Len(wrMemCmd') BY <2>3, <1>1, <1>6, <1>9, <1>12
  <2>7. \A i \in 1 .. Len(tk) : tk[i].len = wrMemCmd'[i].len /\ Addr(tk[i].pos) = wrMemCmd'[i].addr
    <3> TAKE i \in 1 .. Len(tk)
    <3>1. i \in 1 .. Len(cp) - 1 /\ i + 1 \in 1 .. Len(cp) /\ i \in 1 .. Len(wrMemCmd) - 1 BY <1>1, <1>9, <1>12
    <3>2. tk[i] = cp[i + 1] BY <3>1, <1>9, <1>12
    <3>3. wrMemCmd'[i] = wrMemCmd[i + 1] BY <3>1, <2>3, <1>6
    <3>4. cp[i + 1].len = wrMemCmd[i + 1].len /\ Addr(cp[i + 1].pos) = wrMemCmd[i + 1].addr BY <3>1, <1>1
    <3> QED BY <3>2, <3>3, <3>4
  <2>8. CommandsFit'
    <3>1. ASSUME NEW i \in 1 .. Len(wrMemCmd') PROVE wrMemCmd'[i].addr + wrMemCmd'[i].len <= B
      <4>2. Len(wrMemCmd') = Len(wrMemCmd) - 1 BY <2>3, <1>6
      <4>1. i \in 1 .. Len(wrMemCmd) - 1 /\ i + 1 \in 1 .. Len(wrMemCmd)
        <5>1. Len(wrMemCmd) \in Nat BY <1>6
        <5> QED BY <5>1, <4>2
      <4> QED BY <4>1, <2>3, <1>6 DEF CommandsFit
    <3> QED BY <3>1 DEF CommandsFit
  <2>9. left # 0 => LastEnd(tk) = LastEnd(cp) /\ tk # <<>>
    <3>1. SUFFICES ASSUME left # 0 PROVE LastEnd(tk) = LastEnd(cp) /\ tk # <<>> OBVIOUS
    <3>2. Len(cp) >= 2 BY <3>1, <2>1, <1>3
    <3>3. Len(tk) \in 1 .. Len(cp) - 1 /\ Len(tk) + 1 = Len(cp) BY <3>2, <1>9, <1>12
    <3>4. tk[Len(tk)] = cp[Len(cp)] BY <3>3, <1>9, <1>12
    <3>5. tk # <<>> BY <3>3
    <3> QED BY <3>4, <3>5 DEF LastEnd
  <2> HIDE DEF tk
  <2>10. Commanded(tk, left)' BY <2>5, <2>6, <2>7 DEF Commanded, Addr
  <2> QED BY <2>3, <2>8, <2>9, <2>10, <1>6, <1>14 DEF tk
<1>13. CASE ~w.last
  <2> DEFINE p == [pos |-> cp[1].pos + w.keep, len |-> cp[1].len - w.keep]
  <2>1. RunTo(Tail(wrData), [cp EXCEPT ![1] = p], e) BY <1>1, <1>13, RunTakesPart
  <2>2. tk = [cp EXCEPT ![1] = p] BY <1>13 DEF Took
  <2>3. wrMemCmd' = <<d>> \o Tail(wrMemCmd) BY <1>13
  <2>15. w.keep < c.len /\ c.addr + w.keep \in 0 .. B - 1 /\ c.len - w.keep \in 1 .. B
    <3>1. w.keep # c.len /\ w.keep <= c.len /\ w.keep \in Nat BY <1>4, <1>5, <1>7, <1>13
    <3>2. ASSUME NEW a \in 0 .. B - 1, NEW n \in 1 .. B, NEW k \in Nat, a + n <= B, k # n, k <= n
          PROVE  k < n /\ a + k \in 0 .. B - 1 /\ n - k \in 1 .. B
      BY <3>2, <1>10
    <3> QED BY <3>1, <3>2, <1>8
  <2>4. d \in Cmd /\ d.addr = c.addr + w.keep /\ d.len = c.len - w.keep /\ d.addr + d.len <= B
    <3>1. d \in Cmd /\ d.addr = c.addr + w.keep /\ d.len = c.len - w.keep BY <2>15 DEF Cmd
    <3>2. (c.addr + w.keep) + (c.len - w.keep) <= B BY <1>5, <1>8, <1>10
    <3> QED BY <3>1, <3>2
  <2> HIDE DEF d
  <2>5. wrMemCmd' \in Seq(Cmd) /\ Len(wrMemCmd') = Len(wrMemCmd) /\ wrMemCmd'[1] = d
        /\ \A k \in 2 .. Len(wrMemCmd) : wrMemCmd'[k] = wrMemCmd[k]
    <3>1. Len(<<d>> \o Tail(wrMemCmd)) = Len(wrMemCmd) /\ <<d>> \o Tail(wrMemCmd) \in Seq(Cmd) BY <2>4, <1>6
    <3>2. (<<d>> \o Tail(wrMemCmd))[1] = d BY <2>4, <1>6
    <3>3. \A k \in 2 .. Len(wrMemCmd) : (<<d>> \o Tail(wrMemCmd))[k] = Tail(wrMemCmd)[k - 1] BY <2>4, <1>6
    <3>4. \A k \in 2 .. Len(wrMemCmd) : Tail(wrMemCmd)[k - 1] = wrMemCmd[k]
      <4> TAKE k \in 2 .. Len(wrMemCmd)
      <4>1. k - 1 \in 1 .. Len(wrMemCmd) - 1 /\ k - 1 + 1 = k BY <1>6
      <4> QED BY <4>1, <1>6
    <3> QED BY <3>1, <3>2, <3>3, <3>4, <2>3
  <2>6. p.pos = cp[1].pos + w.keep /\ p.len = cp[1].len - w.keep OBVIOUS
  <2>7. Addr(p.pos) = d.addr
    <3>3. cp[1].pos % B = c.addr BY <1>7 DEF Addr
    <3>1. (cp[1].pos % B) + w.keep \in 0 .. B - 1 BY <3>3, <2>15
    <3>2. (cp[1].pos + w.keep) % B = (cp[1].pos % B) + w.keep BY <3>1, <1>5, <1>10, <1>11, RemainderMoves
    <3> QED BY <3>2, <2>4, <2>6, <1>7 DEF Addr
  <2>8. tk[1] = p BY <1>9, <1>13
  <2>9. \A i \in 1 .. Len(tk) : tk[i].len = wrMemCmd'[i].len /\ Addr(tk[i].pos) = wrMemCmd'[i].addr
    <3> TAKE i \in 1 .. Len(tk)
    <3> HIDE DEF p, tk
    <3>1. CASE i = 1 BY <3>1, <2>4, <2>5, <2>6, <2>7, <2>8, <1>7
    <3>2. CASE i # 1
      <4>1. i \in 2 .. Len(cp) /\ i \in 2 .. Len(wrMemCmd) /\ i \in 1 .. Len(cp) BY <3>2, <1>1, <1>9, <1>13
      <4> QED BY <4>1, <2>5, <1>1, <1>9, <1>13
    <3> QED BY <3>1, <3>2
  <2>10. CommandsFit'
    <3>1. ASSUME NEW i \in 1 .. Len(wrMemCmd') PROVE wrMemCmd'[i].addr + wrMemCmd'[i].len <= B
      <4>1. CASE i = 1 BY <4>1, <2>4, <2>5
      <4>2. CASE i # 1
        <5>2. Len(wrMemCmd') = Len(wrMemCmd) BY <2>5
        <5>1. i \in 2 .. Len(wrMemCmd) /\ i \in 1 .. Len(wrMemCmd)
          <6>1. Len(wrMemCmd) \in Nat BY <1>6
          <6> QED BY <6>1, <4>2, <5>2
        <5> QED BY <5>1, <2>5 DEF CommandsFit
      <4> QED BY <4>1, <4>2
    <3> QED BY <3>1 DEF CommandsFit
  <2>11. LastEnd(tk) = LastEnd(cp) /\ tk # <<>>
    <3>1. Len(tk) = Len(cp) /\ Len(tk) >= 1 BY <1>9, <1>13
    <3>2. CASE Len(cp) = 1 BY <3>1, <3>2, <1>9, <1>13 DEF LastEnd
    <3>3. CASE Len(cp) # 1
      <4>1. Len(cp) \in 2 .. Len(cp)
        <5>1. Len(cp) \in Nat /\ Len(cp) >= 1 BY <1>4
        <5>2. \A k \in Nat : k >= 1 /\ k # 1 => k \in 2 .. k OBVIOUS
        <5> QED BY <5>1, <5>2, <3>3, Zenon
      <4>2. tk[Len(cp)] = cp[Len(cp)] BY <4>1, <1>9, <1>13
      <4> QED BY <4>2, <3>1 DEF LastEnd
    <3> QED BY <3>1, <3>2, <3>3
  <2>12. RunTo(wrData', tk, IF left = 0 THEN <<Len(tk) + 1, 0>> ELSE <<Len(tk), left>>) BY <2>1, <2>2, <1>9, <1>13 DEF e
  <2>13. Len(tk) = Len(wrMemCmd') BY <2>5, <1>1, <1>9, <1>13
  <2> HIDE DEF tk, p
  <2>14. Commanded(tk, left)' BY <2>9, <2>12, <2>13 DEF Commanded, Addr
  <2> QED BY <2>5, <2>10, <2>11, <2>14, <1>14 DEF tk
<1> QED BY <1>10, <1>12, <1>13

(* A package is added. *)
LEMMA AddPackage ==
  ASSUME NEW pk, NEW n, Pending(pk, n), NEW m \in Meta, pushMeta \in Seq(Meta), NEW pos \in Int, pos = PartOf(m).pos,
         pushMeta' = Append(pushMeta, m), pkgBuffer' = pkgBuffer \o WordsOf(pos, m.len)
  PROVE  Pending(Append(pk, PartOf(m)), n)' /\ pk \in Seq(Part) /\ PartOf(m) \in Part
<1> DEFINE p == PartOf(m)
           ak == Append(pk, p)
<1>1. n \in {0, 1} /\ Len(pk) = n + Len(pushMeta) /\ (\A i \in 1 .. Len(pushMeta) : pk[n + i] = PartOf(pushMeta[i]))
      /\ RunTo(pkgBuffer, pk, <<Len(pk) + 1, 0>>)
  BY DEF Pending
<1>2. pk \in Seq(Part) /\ Len(pk) \in Nat /\ Len(pushMeta) \in Nat BY <1>1, RunPlace, PartIs, EmptyIs
<1>3. m.len \in Nat \ {0} /\ p = [pos |-> pos, len |-> m.len] BY RingAssumption DEF Meta, PartOf
<1>4. RunTo(pkgBuffer \o WordsOf(pos, m.len), Append(pk, [pos |-> pos, len |-> m.len]), <<Len(pk) + 2, 0>>)
  BY <1>1, <1>3, RunAddWords
<1>5. p \in Part BY <1>3 DEF Part
<1>6. Len(ak) = Len(pk) + 1 /\ ak[Len(pk) + 1] = p /\ \A k \in 1 .. Len(pk) : ak[k] = pk[k] BY <1>2, <1>5, AppendIs
<1>7. Len(pushMeta') = Len(pushMeta) + 1 /\ pushMeta'[Len(pushMeta) + 1] = m
      /\ \A k \in 1 .. Len(pushMeta) : pushMeta'[k] = pushMeta[k]
  BY AppendIs
<1>8. RunTo(pkgBuffer', ak, <<Len(ak) + 1, 0>>)
  <2>1. ak = Append(pk, [pos |-> pos, len |-> m.len]) BY <1>3
  <2>2. Len(ak) + 1 = Len(pk) + 2 BY <1>2, <1>6
  <2> HIDE DEF ak
  <2> QED BY <2>1, <2>2, <1>4
<1> HIDE DEF ak
<1>9. \A i \in 1 .. Len(pushMeta') : ak[n + i] = PartOf(pushMeta'[i])
  <2> TAKE i \in 1 .. Len(pushMeta')
  <2>1. CASE i = Len(pushMeta) + 1
    <3>1. n + i = Len(pk) + 1 BY <2>1, <1>1, <1>2
    <3> QED BY <3>1, <2>1, <1>6, <1>7
  <2>2. CASE i # Len(pushMeta) + 1
    <3>1. i \in 1 .. Len(pushMeta) /\ n + i \in 1 .. Len(pk) BY <2>2, <1>1, <1>2, <1>7
    <3> QED BY <3>1, <1>1, <1>6, <1>7
  <2> QED BY <2>1, <2>2
<1>10. Len(ak) = n + Len(pushMeta') BY <1>1, <1>2, <1>6, <1>7
<1>11. Pending(ak, n)' BY <1>1, <1>8, <1>9, <1>10 DEF Pending, PartOf
<1> QED BY <1>2, <1>5, <1>11 DEF ak

----------------------------------------------------------------------------
(* The steps of the writer.                                                *)

LEMMA PendingSame ==
  ASSUME NEW pk, NEW n, Pending(pk, n), UNCHANGED <<pushMeta, pkgBuffer>>
  PROVE  Pending(pk, n)'
BY DEF Pending, PartOf

LEMMA CommandedSame ==
  ASSUME NEW cp, NEW left, Commanded(cp, left), UNCHANGED <<wrMemCmd, wrData>>
  PROVE  Commanded(cp, left)'
BY DEF Commanded, Addr

LEMMA AddrIs ==
  ASSUME NEW pos \in Int
  PROVE  Addr(pos) \in 0 .. B - 1 /\ Addr(pos) \in Nat /\ B \in Nat /\ B >= 1
BY RemainderRange, RingAssumption DEF Addr

(* The end of the ring is at its address 0. *)
LEMMA EndOfRing ==
  ASSUME NEW pos \in Int
  PROVE  Addr(pos + (B - Addr(pos))) = 0
<1> DEFINE a == Addr(pos)
           k == B - a
<1>1. a \in 0 .. B - 1 /\ B \in Nat \ {0} /\ a = pos % B BY AddrIs, RingAssumption DEF Addr
<1> HIDE DEF a
<1>2. k \in Int /\ a + k = B BY <1>1
<1> HIDE DEF k
<1>3. (pos % B) + k \in B .. B + B - 1 BY <1>1, <1>2
<1>4. (pos + k) % B = (pos % B) + k - B BY <1>1, <1>2, <1>3, RemainderWraps
<1>5. (pos % B) + k - B = 0
  <2>1. pos % B = a BY <1>1
  <2>2. a + (k - B) = 0 BY <1>1, <1>2
  <2> QED BY <2>1, <2>2
<1>6. Addr(pos + k) = 0 BY <1>4, <1>5 DEF Addr
<1> QED BY <1>6 DEF k, a

LEMMA NextPackage ==
  ASSUME NEW pk, Pending(pk, 0), pushMeta # <<>>, pushMeta \in Seq(Meta), pushMeta' = Tail(pushMeta), UNCHANGED pkgBuffer,
         NEW m, m = Head(pushMeta)
  PROVE  m \in Meta /\ Pending(pk, 1)' /\ pk[1] = PartOf(m) /\ (pushMeta \in Seq(Meta))' /\ pk \in Seq(Part) /\ pk # <<>>
<1>1. Len(pk) = 0 + Len(pushMeta) /\ (\A i \in 1 .. Len(pushMeta) : pk[0 + i] = PartOf(pushMeta[i]))
      /\ RunTo(pkgBuffer, pk, <<Len(pk) + 1, 0>>)
  BY DEF Pending
<1>2. /\ m \in Meta /\ m = pushMeta[1] /\ Tail(pushMeta) \in Seq(Meta) /\ Len(pushMeta) \in Nat /\ Len(pushMeta) > 0
      /\ Len(Tail(pushMeta)) = Len(pushMeta) - 1 /\ \A k \in 1 .. Len(pushMeta) - 1 : Tail(pushMeta)[k] = pushMeta[k + 1]
  BY TailIs
<1>3. Len(pk) = Len(pushMeta) /\ \A i \in 1 .. Len(pushMeta) : pk[i] = PartOf(pushMeta[i])
  <2>1. \A i \in 1 .. Len(pushMeta) : 0 + i = i OBVIOUS
  <2> QED BY <2>1, <1>1, <1>2
<1>4. Len(pk) = 1 + Len(pushMeta') BY <1>2, <1>3
<1>5. \A i \in 1 .. Len(pushMeta') : pk[1 + i] = PartOf(pushMeta'[i])
  <2> TAKE i \in 1 .. Len(pushMeta')
  <2>1. i \in 1 .. Len(pushMeta) - 1 /\ 1 + i \in 1 .. Len(pushMeta) /\ 1 + i = i + 1 BY <1>2
  <2> QED BY <2>1, <1>2, <1>3
<1>6. RunTo(pkgBuffer', pk, <<Len(pk) + 1, 0>>) BY <1>1
<1>7. Pending(pk, 1)' BY <1>4, <1>5, <1>6 DEF Pending, PartOf
<1>8. pk[1] = PartOf(m)
  <2>1. 1 \in 1 .. Len(pushMeta) BY <1>2
  <2> QED BY <2>1, <1>2, <1>3
<1>9. pk \in Seq(Part) BY <1>1, RunPlace
<1>10. pk # <<>> BY <1>2, <1>3
<1> QED BY <1>2, <1>7, <1>8, <1>9, <1>10

LEMMA IdleDrops ==
  ASSUME WriterTypes, CommandsFit, NEW cp, NEW pk, NEW n, NEW q, WriterOk(cp, pk, n, q),
         WriteIdle, Head(pushMeta).drop, UNCHANGED <<side, written>>
  PROVE  (WriterTypes /\ CommandsFit /\ WriterOk(cp, pk, 1, q))' /\ n = 0
<1>1. wrState = "idle" /\ pushMeta # <<>> /\ pushMeta' = Tail(pushMeta) /\ wrState' = "first" /\ dropping' = TRUE
      /\ UNCHANGED <<pkgBuffer, lengthBuffer, residue, pushWord, wrData, breakTemp, breakdown, wrCmd, wrMemCmd>>
  BY DEF WriteIdle
<1>2. n = 0 /\ q \in Int /\ Pending(pk, n) /\ Commanded(cp, Missing(pk)) BY <1>1 DEF WriterOk
<1>3. Missing(pk) = 0 BY <1>1 DEF Missing
<1>4. pushMeta \in Seq(Meta) BY DEF WriterTypes
<1>5. Pending(pk, 1)' /\ (pushMeta \in Seq(Meta))'
  <2> DEFINE m == Head(pushMeta)
  <2>1. \E x : x = m OBVIOUS
  <2> QED BY <2>1, <1>1, <1>2, <1>4, NextPackage
<1>6. Missing(pk)' = 0 BY <1>1 DEF Missing
<1>7. Commanded(cp, 0)' BY <1>1, <1>2, <1>3, CommandedSame
<1>8. WriterOk(cp, pk, 1, q)'
  <2>1. InFirst(cp, pk, 1)' BY <1>1 DEF InFirst
  <2>2. Commanded(cp, Missing(pk))' BY <1>6, <1>7 DEF Commanded
  <2> QED BY <1>1, <1>2, <1>5, <2>1, <2>2 DEF WriterOk
<1>9. WriterTypes' BY <1>1, <1>5 DEF WriterTypes, WriterStates
<1>10. CommandsFit' BY <1>1 DEF CommandsFit
<1> QED BY <1>2, <1>8, <1>9, <1>10

LEMMA IdleStarts ==
  ASSUME WriterTypes, CommandsFit, NEW cp, NEW pk, NEW n, NEW q, WriterOk(cp, pk, n, q),
         WriteIdle, ~Head(pushMeta).drop, UNCHANGED <<side, written>>,
         NEW p, p = [pos |-> Head(pushMeta).pos, len |-> IF PassesEnd(Addr(Head(pushMeta).pos), Head(pushMeta).len)
                                                         THEN B - Addr(Head(pushMeta).pos) ELSE Head(pushMeta).len]
  PROVE  (WriterTypes /\ CommandsFit /\ WriterOk(Append(cp, p), pk, 1, q))' /\ n = 0 /\ p \in Part
<1> DEFINE mm == Head(pushMeta)
<1>0. PICK m : m = mm OBVIOUS
<1> DEFINE a == Addr(m.pos)
           passes == PassesEnd(a, m.len)
           first == IF passes THEN B - a ELSE m.len
           c == [addr |-> a, len |-> first]
           rest == IF passes THEN m.len - first ELSE m.len
           ap == Append(cp, p)
<1>1. wrState = "idle" /\ pushMeta # <<>> /\ pushMeta' = Tail(pushMeta) /\ wrState' = "first" /\ dropping' = FALSE
      /\ breakTemp' = first /\ breakdown' = passes /\ wrCmd' = [addr |-> a, len |-> rest] /\ wrMemCmd' = Append(wrMemCmd, c)
      /\ UNCHANGED <<pkgBuffer, lengthBuffer, residue, pushWord, wrData>> /\ ~m.drop /\ p = [pos |-> m.pos, len |-> first]
  BY <1>0 DEF WriteIdle
<1>2. n = 0 /\ q \in Int /\ Pending(pk, n) /\ Commanded(cp, Missing(pk)) BY <1>1 DEF WriterOk
<1>3. Missing(pk) = 0 BY <1>1 DEF Missing
<1>4. pushMeta \in Seq(Meta) /\ wrMemCmd \in Seq(Cmd) BY DEF WriterTypes
<1>5. m \in Meta /\ Pending(pk, 1)' /\ pk[1] = PartOf(m) /\ (pushMeta \in Seq(Meta))' BY <1>0, <1>1, <1>2, <1>4, NextPackage
<1>6. m.pos \in Int /\ m.len \in 1 .. B BY <1>5 DEF Meta
<1>7. a \in 0 .. B - 1 /\ B \in Nat /\ B >= 1 BY <1>6, AddrIs
<1>8. (a + m.len > B <=> passes) /\ passes \in BOOLEAN BY DEF PassesEnd
<1>9. Addr(m.pos + (B - a)) = 0 BY <1>6, EndOfRing
<1>10. a % W = 0 => (B - a) % W = 0 BY <1>7, RingAssumption, AlignedRest
<1>11. Commanded(cp, 0) BY <1>2, <1>3
<1> HIDE DEF a, passes
<1>12. first \in 1 .. B /\ a + first <= B /\ (passes => rest \in 1 .. B /\ first + rest = m.len) /\ rest \in 0 .. B
       /\ (~passes => first = m.len)
  BY <1>6, <1>7, <1>8
<1> HIDE DEF first, rest
<1>13. c \in Cmd /\ c.addr = a /\ c.len = first BY <1>7, <1>12 DEF Cmd
<1>14. p \in Part /\ p.pos = m.pos /\ p.len = first /\ End(p) = m.pos + first BY <1>1, <1>6, <1>12 DEF Part, End
<1>15. c.addr = Addr(p.pos) BY <1>13, <1>14 DEF a
<1> HIDE DEF c
<1>16. Commanded(ap, first)' /\ LastEnd(ap) = m.pos + first BY <1>1, <1>4, <1>11, <1>13, <1>14, <1>15, AddCommand
<1> HIDE DEF ap
<1>17. Missing(pk)' = first BY <1>1 DEF Missing
<1>18. InFirst(ap, pk, 1)'
  <2>1. first >= 1 BY <1>12
  <2>2. pk[1] = [pos |-> LastEnd(ap) - first, len |-> first + (IF passes THEN rest ELSE 0)]
    <3>1. pk[1] = [pos |-> m.pos, len |-> m.len] BY <1>1, <1>5 DEF PartOf
    <3>2. LastEnd(ap) - first = m.pos BY <1>6, <1>12, <1>16
    <3>3. first + (IF passes THEN rest ELSE 0) = m.len BY <1>6, <1>12
    <3> QED BY <3>1, <3>2, <3>3
  <2>3. passes => Addr(LastEnd(ap)) = 0 /\ rest >= 1 /\ (a % W = 0 => first % W = 0)
    <3>1. SUFFICES ASSUME passes PROVE Addr(LastEnd(ap)) = 0 /\ rest >= 1 /\ (a % W = 0 => first % W = 0) OBVIOUS
    <3>2. first = B - a BY <3>1 DEF first
    <3> QED BY <3>1, <3>2, <1>9, <1>10, <1>12, <1>16
  <2>4. wrCmd'.len = rest /\ wrCmd'.addr = a BY <1>1
  <2> QED BY <2>1, <2>2, <2>3, <2>4, <1>1 DEF InFirst, LastEnd, End, Addr
<1>19. WriterOk(ap, pk, 1, q)'
  <2>1. Commanded(ap, Missing(pk))' BY <1>16, <1>17 DEF Commanded
  <2> QED BY <1>1, <1>2, <1>5, <1>18, <2>1 DEF WriterOk
<1>20. (wrMemCmd \in Seq(Cmd))' /\ CommandsFit'
  <2>1. wrMemCmd' \in Seq(Cmd) /\ Len(wrMemCmd) \in Nat /\ Len(wrMemCmd') = Len(wrMemCmd) + 1 /\ wrMemCmd'[Len(wrMemCmd) + 1] = c
        /\ \A k \in 1 .. Len(wrMemCmd) : wrMemCmd'[k] = wrMemCmd[k]
    BY <1>1, <1>4, <1>13, AppendIs
  <2>2. c.addr + c.len <= B BY <1>12, <1>13
  <2>3. ASSUME NEW i \in 1 .. Len(wrMemCmd') PROVE wrMemCmd'[i].addr + wrMemCmd'[i].len <= B
    <3>1. i = Len(wrMemCmd) + 1 \/ i \in 1 .. Len(wrMemCmd) BY <2>1
    <3> QED BY <3>1, <2>1, <2>2 DEF CommandsFit
  <2> QED BY <2>1, <2>3 DEF CommandsFit
<1>21. WriterTypes'
  <2>1. wrCmd' \in [addr : 0 .. B - 1, len : 0 .. B] BY <1>1, <1>7, <1>12
  <2>2. breakTemp' \in 0 .. B BY <1>1, <1>12, <1>7
  <2> QED BY <2>1, <2>2, <1>1, <1>5, <1>8, <1>20 DEF WriterTypes, WriterStates
<1> QED BY <1>2, <1>14, <1>19, <1>20, <1>21 DEF ap

LEMMA DroppedKeeps ==
  ASSUME WriterTypes, CommandsFit, NEW cp, NEW pk, NEW n, NEW q, WriterOk(cp, pk, n, q),
         WriteDropped, UNCHANGED <<side, written>>, NEW w, w = Head(pkgBuffer)
  PROVE  (WriterTypes /\ CommandsFit /\ WriterOk(cp, Took(pk, w), IF w.last THEN 0 ELSE 1, q))' /\ n = 1
<1>1. /\ wrState = "first" /\ dropping /\ pkgBuffer # <<>> /\ wrState' = IF w.last THEN "idle" ELSE "first"
      /\ pushWord' = w /\ pkgBuffer' = Tail(pkgBuffer)
      /\ UNCHANGED <<pushMeta, wrCmd, breakTemp, breakdown, lengthBuffer, residue, dropping, wrMemCmd, wrData>>
  BY DEF WriteDropped
<1>2. q \in Int /\ Pending(pk, n) /\ Commanded(cp, Missing(pk)) /\ n = 1 BY <1>1 DEF WriterOk, InFirst
<1>3. pushMeta \in Seq(Meta) BY DEF WriterTypes
<1>4. Pending(Took(pk, w), IF w.last THEN 0 ELSE 1)' /\ w \in Word BY <1>1, <1>2, <1>3, TakePackage
<1>5. w.last \in BOOLEAN BY <1>4, WordIs
<1> DEFINE qk == Took(pk, w)
           k == IF w.last THEN 0 ELSE 1
<1>6. Pending(qk, k)' BY <1>4
<1>7. k = IF w.last THEN 0 ELSE 1 OBVIOUS
<1> HIDE DEF qk, k
<1>8. Missing(pk) = 0 /\ Missing(qk)' = 0 BY <1>1, <1>5 DEF Missing
<1>9. Commanded(cp, Missing(qk))'
  <2>1. Commanded(cp, 0)' BY <1>1, <1>2, <1>8, CommandedSame
  <2> QED BY <2>1, <1>8 DEF Commanded
<1>10. (wrState' = "idle" => k = 0) /\ (wrState' = "first" => k = 1) /\ wrState' \in {"idle", "first"} BY <1>1, <1>5, <1>7
<1>11. WriterOk(cp, qk, k, q)' BY <1>1, <1>2, <1>6, <1>9, <1>10 DEF WriterOk, InFirst
<1>12. pkgBuffer' \in Seq(Word)
  <2>1. pkgBuffer \in Seq(Word) BY DEF WriterTypes
  <2> QED BY <2>1, <1>1, TailIs
<1>13. WriterTypes' BY <1>1, <1>4, <1>5, <1>12 DEF WriterTypes, WriterStates
<1>14. CommandsFit' BY <1>1 DEF CommandsFit
<1> QED BY <1>2, <1>11, <1>13, <1>14 DEF qk, k

(* What a further word of a package is to the first access. *)
LEMMA FirstKeeps ==
  ASSUME WriterTypes, CommandsFit, NEW cp, NEW pk, NEW n, NEW q, WriterOk(cp, pk, n, q),
         WriteFirst, UNCHANGED <<side, written>>, NEW w, w = Head(pkgBuffer), NEW r, r = LastEnd(cp)
  PROVE  (WriterTypes /\ CommandsFit /\ WriterOk(cp, Took(pk, w), IF w.last THEN 0 ELSE 1, r))' /\ n = 1
<1> DEFINE ends == breakTemp <= W
           qk == Took(pk, w)
           k == IF w.last THEN 0 ELSE 1
           L == wrCmd.len
           put == IF ends /\ breakdown THEN [w EXCEPT !.last = TRUE, !.keep = IF wrCmd.addr % W # 0 THEN breakTemp ELSE w.keep] ELSE w
<1>1. /\ wrState = "first" /\ ~dropping /\ pkgBuffer # <<>>
      /\ wrState' = (IF ~ends THEN "first" ELSE IF breakdown THEN "evalSecond" ELSE "idle")
      /\ breakTemp' = (IF ends THEN breakTemp ELSE breakTemp - W)
      /\ wrData' = Append(wrData, put)
      /\ IF ends /\ breakdown THEN residue' = w.keep - breakTemp /\ lengthBuffer' = breakTemp ELSE UNCHANGED <<residue, lengthBuffer>>
      /\ pushWord' = w /\ pkgBuffer' = Tail(pkgBuffer)
      /\ UNCHANGED <<pushMeta, wrCmd, breakdown, dropping, wrMemCmd>>
  BY DEF WriteFirst
<1>2. Pending(pk, n) /\ Commanded(cp, Missing(pk)) /\ InFirst(cp, pk, n) BY <1>1 DEF WriterOk
<1>3. n = 1 /\ breakTemp >= 1 /\ pk[1] = [pos |-> r - breakTemp, len |-> breakTemp + (IF breakdown THEN L ELSE 0)]
      /\ (breakdown => Addr(r) = 0 /\ L >= 1 /\ (wrCmd.addr % W = 0 => breakTemp % W = 0))
  BY <1>1, <1>2 DEF InFirst
<1>4. pushMeta \in Seq(Meta) /\ breakTemp \in 0 .. B /\ breakdown \in BOOLEAN /\ wrCmd \in [addr : 0 .. B - 1, len : 0 .. B]
      /\ pkgBuffer \in Seq(Word) /\ wrData \in Seq(Word)
  BY DEF WriterTypes
<1>5. /\ Pending(qk, k)' /\ w \in Word /\ pk \in Seq(Part) /\ pk # <<>> /\ pk[1] \in Part
      /\ w.keep = Smaller(W, pk[1].len) /\ (w.last <=> w.keep = pk[1].len)
      /\ w.keep >= 1 /\ w.keep <= W /\ w.keep <= pk[1].len
      /\ \A b \in 0 .. w.keep - 1 : w.data[b] = pk[1].pos + b
  <2>1. Pending(pk, 1) BY <1>2, <1>3
  <2>2. pkgBuffer # <<>> /\ pkgBuffer' = Tail(pkgBuffer) /\ UNCHANGED pushMeta BY <1>1
  <2>3. pushMeta \in Seq(Meta) BY <1>4
  <2> QED BY <2>1, <2>2, <2>3, TakePackage
<1>6. w.keep \in Nat /\ w.last \in BOOLEAN /\ w.data \in [Bytes -> Int] BY <1>5, WordIs
<1>7. W \in Nat /\ W >= 1 /\ B \in Nat /\ B >= 1 BY RingAssumption
<1>8. breakTemp \in Nat /\ L \in Nat /\ L <= B BY <1>4
<1>9. pk[1].pos = r - breakTemp /\ pk[1].len = (breakTemp + (IF breakdown THEN L ELSE 0)) BY <1>3
<1>10. pk[1].pos \in Int /\ pk[1].len \in Nat BY <1>5 DEF Part
<1>11. ~w.last => qk[1] = [pos |-> pk[1].pos + w.keep, len |-> pk[1].len - w.keep] BY <1>5, TookIs
<1>12. Missing(pk) = breakTemp BY <1>1 DEF Missing
<1>13. Commanded(cp, breakTemp) BY <1>2, <1>12
<1>14. r \in Int
  <2>1. cp \in Seq(Part) /\ Place(cp, <<Len(cp), breakTemp>>)
    <3>1. breakTemp # 0 BY <1>3, <1>8
    <3>2. RunTo(wrData, cp, <<Len(cp), breakTemp>>) BY <3>1, <1>13 DEF Commanded
    <3> QED BY <3>2, RunPlace
  <2>2. Len(cp) \in 1 .. Len(cp) + 1
    <3>1. <<Len(cp), breakTemp>>[1] = Len(cp) OBVIOUS
    <3> QED BY <2>1, <3>1 DEF Place
  <2>3. Len(cp) \in 1 .. Len(cp) BY <2>1, <2>2, PartIs
  <2> QED BY <2>1, <2>3, PartIs DEF LastEnd
<1>15. put \in Word /\ put.keep = Smaller(W, breakTemp) /\ (put.last <=> put.keep = breakTemp) /\ put.data = w.data
       /\ put.keep <= w.keep
  <2>1. CASE ends /\ breakdown
    <3>1. put = [w EXCEPT !.last = TRUE, !.keep = IF wrCmd.addr % W # 0 THEN breakTemp ELSE w.keep] BY <2>1
    <3>2. wrCmd.addr % W = 0 => w.keep = breakTemp
      <4>1. SUFFICES ASSUME wrCmd.addr % W = 0 PROVE w.keep = breakTemp OBVIOUS
      <4>2. breakTemp % W = 0 /\ breakTemp \in 1 .. W BY <4>1, <2>1, <1>3, <1>8
      <4>3. breakTemp = W BY <4>2, <1>7, RingAssumption, AlignedLast
      <4>4. pk[1].len > W BY <4>3, <2>1, <1>3, <1>8, <1>9
      <4> QED BY <4>3, <4>4, <1>5, <1>7, <1>10 DEF Smaller
    <3>3. put.keep = breakTemp /\ put.last = TRUE /\ put.data = w.data
      <4>1. put.last = TRUE /\ put.data = w.data /\ put.keep = IF wrCmd.addr % W # 0 THEN breakTemp ELSE w.keep BY <3>1, <1>5 DEF Word
      <4> QED BY <4>1, <3>2
    <3>4. put \in Word
      <4>1. put = [data |-> put.data, keep |-> put.keep, last |-> put.last] BY <3>1, <1>5 DEF Word
      <4> HIDE DEF put
      <4>2. [data |-> put.data, keep |-> put.keep, last |-> put.last] \in Word BY <3>3, <1>6, <1>8 DEF Word
      <4> QED BY <4>1, <4>2
    <3>5. breakTemp <= w.keep BY <2>1, <1>3, <1>5, <1>7, <1>8, <1>9, <1>10 DEF Smaller
    <3> HIDE DEF put
    <3> QED BY <3>3, <3>4, <3>5, <2>1, <1>7, <1>8 DEF Smaller
  <2>2. CASE ~(ends /\ breakdown)
    <3>1. put = w BY <2>2
    <3> HIDE DEF put
    <3>2. CASE ends
      <4>1. pk[1].len = breakTemp BY <3>2, <2>2, <1>4, <1>8, <1>9
      <4> QED BY <4>1, <3>1, <1>5, <1>6
    <3>3. CASE ~ends
      <4>1. pk[1].len > W /\ pk[1].len >= breakTemp BY <3>3, <1>7, <1>8, <1>9
      <4>2. w.keep = W /\ ~w.last BY <4>1, <1>5, <1>7, <1>10 DEF Smaller
      <4> QED BY <4>2, <3>1, <3>3, <1>5, <1>6, <1>7, <1>8 DEF Smaller
    <3> QED BY <3>2, <3>3
  <2> QED BY <2>1, <2>2
<1>23. PICK u : u = put OBVIOUS
<1>24. PICK t : t = breakTemp OBVIOUS
<1> HIDE DEF put
<1>25. /\ u \in Word /\ u.keep = Smaller(W, t) /\ (u.last <=> u.keep = t) /\ u.data = w.data /\ u.keep <= w.keep
       /\ wrData' = Append(wrData, u) /\ t \in Nat /\ t >= 1 /\ Commanded(cp, t)
  BY <1>1, <1>3, <1>8, <1>13, <1>15, <1>23, <1>24
<1>16. u.keep \in Nat /\ u.last \in BOOLEAN BY <1>25, WordIs
<1> DEFINE left == IF u.last THEN 0 ELSE t - u.keep
<1>17. Commanded(cp, left)'
  <2>1. t \in Nat \ {0} BY <1>25
  <2>2. \A b \in 0 .. u.keep - 1 : u.data[b] = LastEnd(cp) - t + b
    <3> TAKE b \in 0 .. u.keep - 1
    <3>1. b \in 0 .. w.keep - 1 BY <1>6, <1>16, <1>25
    <3> QED BY <3>1, <1>5, <1>9, <1>24, <1>25
  <2> QED BY <2>1, <2>2, <1>1, <1>25, PutWord
<1> HIDE DEF qk, k
<1>18. k = IF w.last THEN 0 ELSE 1 BY DEF k
<1>19. WriterOk(cp, qk, k, r)'
  <2>1. CASE ~ends
    <3>1. u.keep = W /\ ~u.last BY <2>1, <1>7, <1>24, <1>25 DEF Smaller
    <3>2. left = breakTemp - W /\ left >= 1 BY <3>1, <2>1, <1>7, <1>24, <1>25
    <3>3. wrState' = "first" /\ breakTemp' = left /\ ~dropping' BY <2>1, <3>2, <1>1
    <3>4. w.keep = W /\ ~w.last /\ k = 1
      <4>1. pk[1].len > W BY <2>1, <1>7, <1>8, <1>9
      <4> QED BY <4>1, <1>5, <1>7, <1>10, <1>18 DEF Smaller
    <3>5. Missing(qk)' = left BY <3>3 DEF Missing
    <3>6. InFirst(cp, qk, k)'
      <4>1. qk[1] = [pos |-> pk[1].pos + W, len |-> pk[1].len - W] BY <3>4, <1>11
      <4>2. pk[1].pos + W = r - left /\ pk[1].len - W = left + (IF breakdown THEN L ELSE 0)
        BY <3>2, <1>7, <1>8, <1>9, <1>14
      <4>3. breakdown /\ wrCmd.addr % W = 0 => left % W = 0
        <5>1. SUFFICES ASSUME breakdown, wrCmd.addr % W = 0 PROVE left % W = 0 OBVIOUS
        <5>2. breakTemp % W = 0 BY <5>1, <1>3
        <5> QED BY <5>2, <3>2, <1>8, RingAssumption, AlignedNext
      <4> HIDE DEF left
      <4> QED BY <4>1, <4>2, <4>3, <3>2, <3>3, <3>4, <1>1, <1>3 DEF InFirst, LastEnd, End, Addr
    <3>7. Commanded(cp, Missing(qk))' BY <3>5, <1>17 DEF Commanded
    <3> QED BY <3>3, <3>6, <3>7, <1>5, <1>14 DEF WriterOk
  <2>2. CASE ends /\ ~breakdown
    <3>1. u.keep = breakTemp /\ u.last BY <2>2, <1>7, <1>24, <1>25 DEF Smaller
    <3>2. left = 0 BY <3>1
    <3>3. pk[1].len = breakTemp /\ w.last
      <4>1. pk[1].len = breakTemp BY <2>2, <1>4, <1>8, <1>9
      <4> QED BY <4>1, <2>2, <1>5, <1>7, <1>8 DEF Smaller
    <3>4. wrState' = "idle" /\ k = 0 BY <2>2, <3>3, <1>1, <1>18
    <3>5. Missing(qk)' = left BY <3>2, <3>4 DEF Missing
    <3>6. Commanded(cp, Missing(qk))' BY <3>5, <1>17 DEF Commanded
    <3> QED BY <3>4, <3>6, <1>5, <1>14 DEF WriterOk
  <2>3. CASE ends /\ breakdown
    <3>1. u.keep = breakTemp /\ u.last BY <2>3, <1>7, <1>24, <1>25 DEF Smaller
    <3>2. left = 0 BY <3>1
    <3>3. wrState' = "evalSecond" /\ residue' = w.keep - breakTemp /\ lengthBuffer' = breakTemp /\ wrCmd' = wrCmd
      BY <2>3, <1>1
    <3>4. Missing(qk)' = left BY <3>2, <3>3 DEF Missing
    <3>5. Commanded(cp, Missing(qk))' BY <3>4, <1>17 DEF Commanded
    <3>6. pk[1].len = breakTemp + L BY <2>3, <1>9
    <3>7. InEval(qk, k, r)'
      <4>1. Addr(r) = 0 /\ L >= 1 BY <2>3, <1>3
      <4>2. (wrCmd.addr % W = 0 => w.keep - breakTemp = 0)
        <5>1. SUFFICES ASSUME wrCmd.addr % W = 0 PROVE w.keep - breakTemp = 0 OBVIOUS
        <5>2. breakTemp % W = 0 /\ breakTemp \in 1 .. W BY <5>1, <2>3, <1>3, <1>8
        <5>3. breakTemp = W BY <5>2, <1>7, RingAssumption, AlignedLast
        <5> QED BY <5>3, <3>6, <1>5, <1>7, <1>8 DEF Smaller
      <4> DEFINE s == w.keep - breakTemp
      <4>3. s \in Nat /\ breakTemp + s <= W /\ s <= L /\ s = w.keep - breakTemp
            /\ (L > s => s + breakTemp = W /\ ~w.last) /\ (~(L > s) => L = s /\ w.last)
        <5>1. breakTemp <= W /\ breakTemp >= 1 BY <2>3, <1>3
        <5>2. w.keep = (IF W < breakTemp + L THEN W ELSE breakTemp + L) /\ (w.last <=> w.keep = breakTemp + L)
          BY <3>6, <1>5 DEF Smaller
        <5>3. w.keep >= breakTemp /\ w.keep <= W /\ w.keep <= breakTemp + L BY <5>1, <5>2, <1>7, <1>8
        <5>4. s = w.keep - breakTemp OBVIOUS
        <5> HIDE DEF s
        <5>5. s \in Nat /\ breakTemp + s = w.keep BY <5>3, <5>4, <1>6, <1>8
        <5> QED BY <5>2, <5>3, <5>4, <5>5, <1>6, <1>7, <1>8
      <4> HIDE DEF s
      <4>4. \A b \in 0 .. s - 1 : w.data[breakTemp + b] = r + b
        <5> TAKE b \in 0 .. s - 1
        <5>1. breakTemp + b \in 0 .. w.keep - 1 BY <4>3, <1>6, <1>8
        <5>2. w.data[breakTemp + b] = pk[1].pos + (breakTemp + b) BY <5>1, <1>5
        <5> QED BY <5>2, <4>3, <1>8, <1>9, <1>14
      <4>5. L > s => k = 1 /\ qk[1] = [pos |-> r + s, len |-> L - s]
        <5>1. SUFFICES ASSUME L > s PROVE k = 1 /\ qk[1] = [pos |-> r + s, len |-> L - s] OBVIOUS
        <5>2. ~w.last /\ k = 1 BY <5>1, <4>3, <1>18
        <5>3. pk[1].pos + w.keep = r + s /\ pk[1].len - w.keep = L - s BY <4>3, <3>6, <1>6, <1>8, <1>9, <1>14
        <5> QED BY <5>2, <5>3, <1>11
      <4>6. ~(L > s) => k = 0 /\ L = s BY <4>3, <1>18
      <4>7. residue' = s /\ lengthBuffer' = breakTemp /\ pushWord' = w /\ wrCmd' = wrCmd BY <3>3, <4>3, <1>1
      <4>8. SecondHas(qk, k, r, L)' BY <4>3, <4>4, <4>5, <4>6, <4>7, <1>3 DEF SecondHas, Behind
      <4> QED BY <4>1, <4>2, <4>3, <4>7, <4>8 DEF InEval, SecondHas, Behind, Addr
    <3> QED BY <3>3, <3>5, <3>7, <1>5, <1>14 DEF WriterOk
  <2> QED BY <2>1, <2>2, <2>3, <1>4
<1>20. pkgBuffer' \in Seq(Word) /\ wrData' \in Seq(Word) BY <1>1, <1>4, <1>25, TailIs, AppendIs
<1>21. WriterTypes'
  <2>1. residue' \in 0 .. W /\ lengthBuffer' \in 0 .. W
    <3>1. CASE ends /\ breakdown
      <4>1. residue' = w.keep - breakTemp /\ lengthBuffer' = breakTemp BY <3>1, <1>1
      <4>2. breakTemp <= w.keep BY <3>1, <1>3, <1>5, <1>7, <1>8, <1>9, <1>10 DEF Smaller
      <4> QED BY <4>1, <4>2, <3>1, <1>5, <1>6, <1>7, <1>8
    <3>2. CASE ~(ends /\ breakdown) BY <3>2, <1>1 DEF WriterTypes
    <3> QED BY <3>1, <3>2
  <2>2. breakTemp' \in 0 .. B BY <1>1, <1>4, <1>7, <1>8
  <2>3. wrState' \in WriterStates BY <1>1 DEF WriterStates
  <2> QED BY <2>1, <2>2, <2>3, <1>1, <1>5, <1>20 DEF WriterTypes
<1>22. CommandsFit' BY <1>1 DEF CommandsFit
<1> QED BY <1>3, <1>19, <1>21, <1>22 DEF qk, k

LEMMA EvalKeeps ==
  ASSUME WriterTypes, CommandsFit, NEW cp, NEW pk, NEW n, NEW q, WriterOk(cp, pk, n, q),
         EvalSecond, UNCHANGED <<side, written>>, NEW p, p = [pos |-> q, len |-> wrCmd.len]
  PROVE  (WriterTypes /\ CommandsFit /\ WriterOk(Append(cp, p), pk, n, q))' /\ p \in Part
<1> DEFINE L == wrCmd.len
           c == [addr |-> 0, len |-> L]
           ap == Append(cp, p)
<1>1. /\ wrState = "evalSecond"
      /\ wrState' = (IF wrCmd.addr % W = 0 THEN "aligned" ELSE IF L - residue > 0 THEN "second" ELSE "residue")
      /\ wrMemCmd' = Append(wrMemCmd, c) /\ wrCmd' = [wrCmd EXCEPT !.addr = 0] /\ breakTemp' = L /\ breakdown' = FALSE
      /\ UNCHANGED <<pushMeta, pkgBuffer, lengthBuffer, residue, pushWord, dropping, wrData>>
  BY DEF EvalSecond, MoreWords
<1>2. q \in Int /\ Pending(pk, n) /\ Commanded(cp, Missing(pk)) /\ InEval(pk, n, q) BY <1>1 DEF WriterOk
<1>3. Missing(pk) = 0 BY <1>1 DEF Missing
<1>4. L >= 1 /\ Addr(q) = 0 /\ SecondHas(pk, n, q, L) /\ (wrCmd.addr % W = 0 => residue = 0) BY <1>2 DEF InEval
<1>5. wrCmd \in [addr : 0 .. B - 1, len : 0 .. B] /\ wrMemCmd \in Seq(Cmd) /\ residue \in 0 .. W /\ lengthBuffer \in 0 .. W
  BY DEF WriterTypes
<1>6. L \in 1 .. B /\ L \in Nat /\ W \in Nat /\ W >= 1 /\ B \in Nat /\ B >= 1 BY <1>4, <1>5, RingAssumption
<1>7. p \in Part /\ p.pos = q /\ p.len = L /\ End(p) = q + L BY <1>2, <1>6 DEF Part, End
<1>8. c \in Cmd /\ c.addr = 0 /\ c.len = L BY <1>6 DEF Cmd
<1>9. PICK cc : cc = c OBVIOUS
<1> HIDE DEF c
<1>10. c.addr = Addr(p.pos) BY <1>4, <1>7, <1>8
<1>11. Commanded(ap, p.len)' /\ LastEnd(ap) = q + L
  <2>1. Commanded(cp, 0) BY <1>2, <1>3
  <2>2. cc \in Cmd /\ cc.len = p.len /\ cc.addr = Addr(p.pos) /\ wrMemCmd' = Append(wrMemCmd, cc) /\ UNCHANGED wrData
    BY <1>1, <1>7, <1>8, <1>9, <1>10
  <2> QED BY <2>1, <2>2, <1>5, <1>7, AddCommand
<1> HIDE DEF ap
<1>12. Pending(pk, n)' BY <1>1, <1>2, PendingSame
<1>13. n \in {0, 1} BY <1>2 DEF Pending
<1>14. (L > residue => residue + lengthBuffer = W /\ n = 1 /\ pk[1] = [pos |-> q + residue, len |-> L - residue])
       /\ (~(L > residue) => n = 0 /\ L = residue) /\ lengthBuffer >= 1 /\ Behind(q, residue)
  BY <1>4 DEF SecondHas
<1>15. WriterOk(ap, pk, n, q)'
  <2>1. CASE wrCmd.addr % W = 0
    <3>1. wrState' = "aligned" /\ residue = 0 BY <2>1, <1>1, <1>4
    <3>2. n = 1 /\ pk[1] = [pos |-> q, len |-> L] BY <3>1, <1>2, <1>6, <1>14
    <3>3. Missing(pk)' = p.len BY <3>1, <3>2, <1>7 DEF Missing
    <3>4. InAligned(ap, pk, n)' BY <3>2, <1>11 DEF InAligned, End, LastEnd
    <3>5. Commanded(ap, Missing(pk))' BY <3>3, <1>11 DEF Commanded
    <3> QED BY <3>1, <3>4, <3>5, <1>2, <1>12 DEF WriterOk
  <2>2. CASE wrCmd.addr % W # 0 /\ L - residue > 0
    <3>1. wrState' = "second" BY <2>2, <1>1
    <3>2. L > residue BY <2>2, <1>5, <1>6
    <3>3. Missing(pk)' = p.len BY <3>1, <1>1, <1>7 DEF Missing
    <3>4. SecondHas(pk, n, q, breakTemp)' BY <3>2, <1>1, <1>14 DEF SecondHas, Behind
    <3>5. InSecond(ap, pk, n, q)' BY <3>2, <3>4, <1>1, <1>6, <1>11 DEF InSecond, SecondHas, Behind, LastEnd, End
    <3>6. Commanded(ap, Missing(pk))' BY <3>3, <1>11 DEF Commanded
    <3> QED BY <3>1, <3>5, <3>6, <1>2, <1>12 DEF WriterOk
  <2>3. CASE wrCmd.addr % W # 0 /\ ~(L - residue > 0)
    <3>1. wrState' = "residue" BY <2>3, <1>1
    <3>2. ~(L > residue) BY <2>3, <1>5, <1>6
    <3>3. Missing(pk)' = p.len BY <3>1, <1>1, <1>7 DEF Missing
    <3>4. InResidue(ap, n, q)' BY <3>2, <1>1, <1>6, <1>11, <1>14 DEF InResidue, Behind, LastEnd, End
    <3>5. Commanded(ap, Missing(pk))' BY <3>3, <1>11 DEF Commanded
    <3> QED BY <3>1, <3>4, <3>5, <1>2, <1>12 DEF WriterOk
  <2> QED BY <2>1, <2>2, <2>3
<1>16. (wrMemCmd \in Seq(Cmd))' /\ CommandsFit'
  <2>1. wrMemCmd' \in Seq(Cmd) /\ Len(wrMemCmd) \in Nat /\ Len(wrMemCmd') = Len(wrMemCmd) + 1 /\ wrMemCmd'[Len(wrMemCmd) + 1] = c
        /\ \A k \in 1 .. Len(wrMemCmd) : wrMemCmd'[k] = wrMemCmd[k]
    BY <1>1, <1>5, <1>8, AppendIs
  <2>2. c.addr + c.len <= B BY <1>6, <1>8
  <2>3. ASSUME NEW i \in 1 .. Len(wrMemCmd') PROVE wrMemCmd'[i].addr + wrMemCmd'[i].len <= B
    <3>1. i = Len(wrMemCmd) + 1 \/ i \in 1 .. Len(wrMemCmd) BY <2>1
    <3> QED BY <3>1, <2>1, <2>2 DEF CommandsFit
  <2> QED BY <2>1, <2>3 DEF CommandsFit
<1>17. WriterTypes'
  <2>1. wrCmd' \in [addr : 0 .. B - 1, len : 0 .. B] BY <1>1, <1>5, <1>6
  <2>2. breakTemp' \in 0 .. B /\ wrState' \in WriterStates BY <1>1, <1>6 DEF WriterStates
  <2> QED BY <2>1, <2>2, <1>1, <1>16 DEF WriterTypes
<1> QED BY <1>7, <1>15, <1>16, <1>17 DEF ap

LEMMA AlignedKeeps ==
  ASSUME WriterTypes, CommandsFit, NEW cp, NEW pk, NEW n, NEW q, WriterOk(cp, pk, n, q),
         WriteAligned, UNCHANGED <<side, written>>, NEW w, w = Head(pkgBuffer)
  PROVE  (WriterTypes /\ CommandsFit /\ WriterOk(cp, Took(pk, w), IF w.last THEN 0 ELSE 1, q))' /\ n = 1
<1> DEFINE qk == Took(pk, w)
           k == IF w.last THEN 0 ELSE 1
<1>1. /\ wrState = "aligned" /\ pkgBuffer # <<>> /\ wrData' = Append(wrData, w) /\ pushWord' = w /\ pkgBuffer' = Tail(pkgBuffer)
      /\ wrState' = (IF w.last THEN "idle" ELSE "aligned")
      /\ UNCHANGED <<pushMeta, wrCmd, breakTemp, breakdown, lengthBuffer, residue, dropping, wrMemCmd>>
  BY DEF WriteAligned
<1>2. q \in Int /\ Pending(pk, n) /\ Commanded(cp, Missing(pk)) /\ n = 1 /\ End(pk[1]) = LastEnd(cp)
  BY <1>1 DEF WriterOk, InAligned
<1>3. pushMeta \in Seq(Meta) /\ pkgBuffer \in Seq(Word) /\ wrData \in Seq(Word) BY DEF WriterTypes
<1>4. /\ Pending(qk, k)' /\ w \in Word /\ pk \in Seq(Part) /\ pk # <<>> /\ pk[1] \in Part
      /\ w.keep = Smaller(W, pk[1].len) /\ (w.last <=> w.keep = pk[1].len)
      /\ w.keep >= 1 /\ w.keep <= W /\ w.keep <= pk[1].len
      /\ \A b \in 0 .. w.keep - 1 : w.data[b] = pk[1].pos + b
  BY <1>1, <1>2, <1>3, TakePackage
<1>5. w.keep \in Nat /\ w.last \in BOOLEAN BY <1>4, WordIs
<1>6. pk[1].pos \in Int /\ pk[1].len \in Nat \ {0} BY <1>4 DEF Part
<1>7. Missing(pk) = pk[1].len BY <1>1 DEF Missing
<1>8. Commanded(cp, IF w.last THEN 0 ELSE pk[1].len - w.keep)'
  <2>1. Commanded(cp, pk[1].len) BY <1>2, <1>7
  <2>2. \A b \in 0 .. w.keep - 1 : w.data[b] = LastEnd(cp) - pk[1].len + b
    <3>1. LastEnd(cp) - pk[1].len = pk[1].pos BY <1>2, <1>6 DEF End
    <3> QED BY <3>1, <1>4
  <2> QED BY <2>1, <2>2, <1>1, <1>4, <1>6, PutWord
<1>9. ~w.last => qk[1] = [pos |-> pk[1].pos + w.keep, len |-> pk[1].len - w.keep] /\ End(qk[1]) = End(pk[1]) BY <1>4, TookIs
<1>10. k = IF w.last THEN 0 ELSE 1 OBVIOUS
<1> HIDE DEF qk, k
<1>11. Missing(qk)' = IF w.last THEN 0 ELSE pk[1].len - w.keep BY <1>1, <1>5, <1>9 DEF Missing
<1>12. Commanded(cp, Missing(qk))' BY <1>8, <1>11 DEF Commanded
<1>13. WriterOk(cp, qk, k, q)'
  <2>1. CASE w.last BY <2>1, <1>1, <1>2, <1>4, <1>10, <1>12 DEF WriterOk
  <2>2. CASE ~w.last
    <3>1. wrState' = "aligned" /\ k = 1 /\ End(qk[1]) = LastEnd(cp) BY <2>2, <1>1, <1>2, <1>9, <1>10
    <3>2. InAligned(cp, qk, k)' BY <3>1 DEF InAligned, End, LastEnd
    <3> QED BY <3>1, <3>2, <1>2, <1>4, <1>12 DEF WriterOk
  <2> QED BY <2>1, <2>2
<1>14. pkgBuffer' \in Seq(Word) /\ wrData' \in Seq(Word) BY <1>1, <1>3, <1>4, TailIs, AppendIs
<1>15. WriterTypes' BY <1>1, <1>4, <1>14 DEF WriterTypes, WriterStates
<1>16. CommandsFit' BY <1>1 DEF CommandsFit
<1> QED BY <1>2, <1>13, <1>15, <1>16 DEF qk, k

LEMMA ShiftedIs ==
  ASSUME NEW old \in Word, NEW new \in Word, NEW from \in 0 .. W
  PROVE  /\ Shifted(old, from, new) \in [Bytes -> Int]
         /\ \A b \in 0 .. W - 1 : Shifted(old, from, new)[b] = IF b < W - from THEN old.data[from + b] ELSE new.data[b - (W - from)]
<1>1. W \in Nat /\ W >= 1 /\ Bytes = 0 .. W - 1 BY BytesAre DEF Bytes
<1>2. old.data \in [0 .. W - 1 -> Int] /\ new.data \in [0 .. W - 1 -> Int] BY <1>1, WordIs
<1>3. \A b \in 0 .. W - 1 : (b < W - from => from + b \in 0 .. W - 1) /\ (~(b < W - from) => b - (W - from) \in 0 .. W - 1)
  BY <1>1
<1>4. \A b \in 0 .. W - 1 : (b < W - from => old.data[from + b] \in Int) /\ (~(b < W - from) => new.data[b - (W - from)] \in Int)
  BY <1>2, <1>3
<1> QED BY <1>1, <1>4 DEF Shifted

LEMMA SecondKeeps ==
  ASSUME WriterTypes, CommandsFit, NEW cp, NEW pk, NEW n, NEW q, WriterOk(cp, pk, n, q),
         WriteSecond, UNCHANGED <<side, written>>, NEW w, w = Head(pkgBuffer), NEW r, r = q + W
  PROVE  (WriterTypes /\ CommandsFit /\ WriterOk(cp, Took(pk, w), IF w.last THEN 0 ELSE 1, r))' /\ n = 1
<1> DEFINE qk == Took(pk, w)
           k == IF w.last THEN 0 ELSE 1
           ends == w.last /\ ~LeavesBytes
           put == [data |-> Shifted(pushWord, lengthBuffer, w), last |-> ends, keep |-> IF ends THEN breakTemp ELSE W]
<1>1. /\ wrState = "second" /\ pkgBuffer # <<>> /\ wrData' = Append(wrData, put) /\ pushWord' = w /\ pkgBuffer' = Tail(pkgBuffer)
      /\ breakTemp' = (IF ends THEN breakTemp ELSE breakTemp - W)
      /\ wrState' = (IF ends THEN "idle" ELSE IF w.last THEN "residue" ELSE "second")
      /\ UNCHANGED <<pushMeta, wrCmd, breakdown, lengthBuffer, residue, dropping, wrMemCmd>>
  BY DEF WriteSecond
<1>2. q \in Int /\ Pending(pk, n) /\ Commanded(cp, Missing(pk)) /\ InSecond(cp, pk, n, q) BY <1>1 DEF WriterOk
<1>3. breakTemp >= 1 /\ breakTemp > residue /\ LastEnd(cp) = q + breakTemp /\ SecondHas(pk, n, q, breakTemp) BY <1>2 DEF InSecond
<1>4. pushMeta \in Seq(Meta) /\ pkgBuffer \in Seq(Word) /\ wrData \in Seq(Word) /\ pushWord \in Word
      /\ breakTemp \in 0 .. B /\ lengthBuffer \in 0 .. W /\ residue \in 0 .. W
  BY DEF WriterTypes
<1>5. lengthBuffer >= 1 /\ residue + lengthBuffer = W /\ n = 1 /\ pk[1] = [pos |-> q + residue, len |-> breakTemp - residue]
      /\ \A b \in 0 .. residue - 1 : pushWord.data[lengthBuffer + b] = q + b
  BY <1>3 DEF SecondHas, Behind
<1>6. /\ Pending(qk, k)' /\ w \in Word /\ pk \in Seq(Part) /\ pk # <<>> /\ pk[1] \in Part
      /\ w.keep = Smaller(W, pk[1].len) /\ (w.last <=> w.keep = pk[1].len)
      /\ w.keep >= 1 /\ w.keep <= W /\ w.keep <= pk[1].len
      /\ \A b \in 0 .. w.keep - 1 : w.data[b] = pk[1].pos + b
  <2>1. Pending(pk, 1) BY <1>2, <1>5
  <2>2. pkgBuffer # <<>> /\ pkgBuffer' = Tail(pkgBuffer) /\ UNCHANGED pushMeta BY <1>1
  <2>3. pushMeta \in Seq(Meta) BY <1>4
  <2> QED BY <2>1, <2>2, <2>3, TakePackage
<1>7. w.keep \in Nat /\ w.last \in BOOLEAN BY <1>6, WordIs
<1>33. residue \in Int /\ lengthBuffer \in Int /\ residue + lengthBuffer = W /\ q \in Int BY <1>2, <1>4, <1>5
<1>8. W \in Nat /\ W >= 1 /\ B \in Nat /\ B >= 1 BY RingAssumption
<1> DEFINE L == breakTemp
           left == L - residue
<1>9. pk[1].pos = q + residue /\ pk[1].len = left BY <1>5
<1>10. left \in Nat /\ left >= 1 /\ L = residue + left /\ L \in Nat BY <1>3, <1>4
<1>11. LeavesBytes <=> left > lengthBuffer BY DEF LeavesBytes
<1>12. w.keep = (IF W < left THEN W ELSE left) /\ (w.last <=> w.keep = left) BY <1>6, <1>9 DEF Smaller
<1> HIDE DEF left
<1>13. (ends => L <= W /\ w.last) /\ (~ends => L > W) /\ ends \in BOOLEAN /\ (~w.last => left > W /\ w.keep = W)
  BY <1>4, <1>5, <1>7, <1>8, <1>10, <1>11, <1>12
<1>14. put.keep = Smaller(W, L) /\ put.last = ends /\ (ends <=> put.keep = L) /\ put.data = Shifted(pushWord, lengthBuffer, w)
  <2>1. put.keep = (IF ends THEN L ELSE W) /\ put.last = ends /\ put.data = Shifted(pushWord, lengthBuffer, w) OBVIOUS
  <2> HIDE DEF put, L
  <2>2. put.keep = Smaller(W, L)
    <3>1. CASE ends BY <3>1, <2>1, <1>8, <1>10, <1>13 DEF Smaller
    <3>2. CASE ~ends BY <3>2, <2>1, <1>8, <1>10, <1>13 DEF Smaller
    <3> QED BY <3>1, <3>2
  <2>3. ends <=> put.keep = L BY <2>1, <1>8, <1>10, <1>13
  <2> QED BY <2>1, <2>2, <2>3
<1>15. put.data \in [Bytes -> Int]
       /\ \A b \in 0 .. W - 1 : put.data[b] = IF b < W - lengthBuffer THEN pushWord.data[lengthBuffer + b] ELSE w.data[b - (W - lengthBuffer)]
  <2>1. pushWord \in Word /\ w \in Word /\ lengthBuffer \in 0 .. W BY <1>4, <1>6
  <2>2. put.data = Shifted(pushWord, lengthBuffer, w) BY <1>14
  <2> HIDE DEF put
  <2> QED BY <2>1, <2>2, ShiftedIs
<1>16. put = [data |-> put.data, keep |-> put.keep, last |-> put.last] OBVIOUS
<1>17. put.keep \in Nat /\ put.last \in BOOLEAN /\ put.keep <= W /\ put.keep <= L BY <1>8, <1>10, <1>13, <1>14 DEF Smaller
<1> HIDE DEF put
<1>18. put \in Word
  <2>1. [data |-> put.data, keep |-> put.keep, last |-> put.last] \in Word BY <1>15, <1>17 DEF Word
  <2> QED BY <2>1, <1>16
<1>19. \A b \in 0 .. put.keep - 1 : put.data[b] = q + b
  <2> TAKE b \in 0 .. put.keep - 1
  <2>1. b \in 0 .. W - 1 /\ b \in Int /\ W - lengthBuffer = residue BY <1>4, <1>5, <1>8, <1>17
  <2>2. CASE b < residue
    <3>1. b \in 0 .. residue - 1 BY <2>1, <2>2, <1>4
    <3>2. pushWord.data[lengthBuffer + b] = q + b BY <3>1, <1>5
    <3>3. put.data[b] = pushWord.data[lengthBuffer + b] BY <2>1, <2>2, <1>15
    <3> QED BY <3>2, <3>3
  <2>3. CASE ~(b < residue)
    <3>0. b \in Int /\ residue \in Int /\ w.keep \in Int /\ b >= residue /\ b < W /\ b < residue + left
      <4>1. b < put.keep /\ put.keep <= L /\ L = residue + left BY <1>10, <1>17
      <4> QED BY ONLY <4>1, <2>1, <2>3, <1>7, <1>10, <1>17, <1>33, <1>8
    <3>1. b - residue \in 0 .. w.keep - 1
      <4>1. b - residue < W /\ b - residue < left BY ONLY <3>0, <1>4, <1>8, <1>10
      <4> QED BY ONLY <3>0, <4>1, <1>12, <1>10, <1>8
    <3>2. w.data[b - residue] = pk[1].pos + (b - residue) BY <3>1, <1>6
    <3>3. pk[1].pos + (b - residue) = q + b BY <2>1, <1>2, <1>4, <1>9
    <3> QED BY <3>2, <3>3, <2>1, <2>3, <1>15
  <2> QED BY <2>2, <2>3
<1>20. PICK u : u = put OBVIOUS
<1>21. PICK t : t = L OBVIOUS
<1> DEFINE rest == IF u.last THEN 0 ELSE t - u.keep
<1>22. Commanded(cp, rest)'
  <2>1. Missing(pk) = L BY <1>1 DEF Missing
  <2>2. t \in Nat \ {0} /\ Commanded(cp, t) BY <2>1, <1>2, <1>3, <1>10, <1>21
  <2>3. u \in Word /\ u.keep = Smaller(W, t) /\ (u.last <=> u.keep = t) /\ wrData' = Append(wrData, u) /\ UNCHANGED wrMemCmd
    BY <1>1, <1>14, <1>18, <1>20, <1>21
  <2>4. \A b \in 0 .. u.keep - 1 : u.data[b] = LastEnd(cp) - t + b
    <3>1. LastEnd(cp) - t = q BY <1>2, <1>3, <1>10, <1>21
    <3> QED BY <3>1, <1>19, <1>20
  <2> QED BY <2>2, <2>3, <2>4, PutWord
<1>23. rest = (IF ends THEN 0 ELSE L - W) BY <1>8, <1>13, <1>14, <1>20, <1>21 DEF Smaller
<1>24. PICK rr : rr = rest OBVIOUS
<1>25. Commanded(cp, rr)' BY <1>22, <1>24 DEF Commanded
<1>26. ~w.last => qk[1] = [pos |-> pk[1].pos + w.keep, len |-> pk[1].len - w.keep] BY <1>6, TookIs
<1>27. k = IF w.last THEN 0 ELSE 1 OBVIOUS
<1> HIDE DEF qk, k, rest
<1>28. r \in Int BY <1>2, <1>8
<1>29. WriterOk(cp, qk, k, r)'
  <2>1. CASE ends
    <3>1. wrState' = "idle" /\ k = 0 /\ rr = 0 BY <2>1, <1>1, <1>13, <1>23, <1>24, <1>27
    <3>2. Missing(qk)' = rr BY <3>1 DEF Missing
    <3>3. Commanded(cp, Missing(qk))' BY <3>2, <1>25 DEF Commanded
    <3> QED BY <3>1, <3>3, <1>6, <1>28 DEF WriterOk
  <2>2. CASE ~ends /\ w.last
    <3>1. wrState' = "residue" /\ k = 0 /\ breakTemp' = L - W /\ rr = L - W BY <2>2, <1>1, <1>23, <1>24, <1>27
    <3>2. Missing(qk)' = rr BY <3>1 DEF Missing
    <3>3. Commanded(cp, Missing(qk))' BY <3>2, <1>25 DEF Commanded
    <3>4. L - W >= 1 /\ lengthBuffer + (L - W) <= W /\ LastEnd(cp) = r + (L - W) /\ lengthBuffer + (L - W) = w.keep
      <4>1. L > W /\ w.keep = left /\ w.keep <= W BY <2>2, <1>6, <1>12, <1>13
      <4>2. LastEnd(cp) = q + L BY <1>3
      <4> HIDE DEF L
      <4> QED BY <4>1, <4>2, <1>33, <1>7, <1>8, <1>10
    <3>5. \A b \in 0 .. (L - W) - 1 : w.data[lengthBuffer + b] = r + b
      <4> TAKE b \in 0 .. (L - W) - 1
      <4>1. lengthBuffer + b \in 0 .. w.keep - 1 BY <3>4, <1>4, <1>7, <1>8, <1>10
      <4>2. w.data[lengthBuffer + b] = pk[1].pos + (lengthBuffer + b) BY <4>1, <1>6
      <4>3. pk[1].pos = q + residue BY <1>9
      <4>4. b \in Int OBVIOUS
      <4>5. (q + residue) + (lengthBuffer + b) = r + b BY <4>4, <1>8, <1>33
      <4> QED BY <4>2, <4>3, <4>5
    <3> HIDE DEF L
    <3>6. InResidue(cp, k, r)' BY <3>1, <3>4, <3>5, <1>1, <1>5 DEF InResidue, Behind, LastEnd, End
    <3> QED BY <3>1, <3>3, <3>6, <1>6, <1>28 DEF WriterOk
  <2>3. CASE ~ends /\ ~w.last
    <3>1. wrState' = "second" /\ k = 1 /\ breakTemp' = L - W /\ rr = L - W BY <2>3, <1>1, <1>23, <1>24, <1>27
    <3>2. Missing(qk)' = rr BY <3>1 DEF Missing
    <3>3. Commanded(cp, Missing(qk))' BY <3>2, <1>25 DEF Commanded
    <3>4. w.keep = W /\ L - W >= 1 /\ L - W > residue /\ LastEnd(cp) = r + (L - W)
      BY <2>3, <1>2, <1>3, <1>4, <1>8, <1>10, <1>13
    <3>5. \A b \in 0 .. residue - 1 : w.data[lengthBuffer + b] = r + b
      <4> TAKE b \in 0 .. residue - 1
      <4>1. lengthBuffer + b \in 0 .. w.keep - 1 BY <3>4, <1>4, <1>5, <1>8
      <4>2. w.data[lengthBuffer + b] = pk[1].pos + (lengthBuffer + b) BY <4>1, <1>6
      <4>3. pk[1].pos = q + residue BY <1>9
      <4>4. b \in Int OBVIOUS
      <4>5. (q + residue) + (lengthBuffer + b) = r + b BY <4>4, <1>8, <1>33
      <4> QED BY <4>2, <4>3, <4>5
    <3>6. qk[1] = [pos |-> r + residue, len |-> (L - W) - residue]
      <4>1. pk[1].pos + w.keep = r + residue /\ pk[1].len - w.keep = (L - W) - residue
        BY <3>4, <1>2, <1>4, <1>8, <1>9, <1>10
      <4> QED BY <4>1, <2>3, <1>26
    <3>7. lengthBuffer + residue <= W BY <1>4, <1>5, <1>8
    <3> HIDE DEF L
    <3>8. SecondHas(qk, k, r, breakTemp)' BY <3>1, <3>4, <3>5, <3>6, <3>7, <1>1, <1>5 DEF SecondHas, Behind
    <3>9. InSecond(cp, qk, k, r)' BY <3>1, <3>4, <3>8, <1>1 DEF InSecond, SecondHas, Behind, LastEnd, End
    <3> QED BY <3>1, <3>3, <3>9, <1>6, <1>28 DEF WriterOk
  <2> QED BY <2>1, <2>2, <2>3, <1>7
<1>30. pkgBuffer' \in Seq(Word) /\ wrData' \in Seq(Word) BY <1>1, <1>4, <1>18, TailIs, AppendIs
<1>31. WriterTypes'
  <2>1. breakTemp' \in 0 .. B BY <1>1, <1>4, <1>8, <1>13
  <2>2. wrState' \in WriterStates BY <1>1 DEF WriterStates
  <2> QED BY <2>1, <2>2, <1>1, <1>6, <1>30 DEF WriterTypes
<1>32. CommandsFit' BY <1>1 DEF CommandsFit
<1> QED BY <1>5, <1>29, <1>31, <1>32 DEF qk, k

LEMMA ResidueKeeps ==
  ASSUME WriterTypes, CommandsFit, NEW cp, NEW pk, NEW n, NEW q, WriterOk(cp, pk, n, q),
         WriteResidue, UNCHANGED <<side, written>>
  PROVE  (WriterTypes /\ CommandsFit /\ WriterOk(cp, pk, n, q))'
<1> DEFINE put == [data |-> Shifted(pushWord, lengthBuffer, NoWord), keep |-> breakTemp, last |-> TRUE]
<1>1. /\ wrState = "residue" /\ wrData' = Append(wrData, put) /\ wrState' = "idle"
      /\ UNCHANGED <<pushMeta, pkgBuffer, wrCmd, breakTemp, breakdown, lengthBuffer, residue, pushWord, dropping, wrMemCmd>>
  BY DEF WriteResidue
<1>2. q \in Int /\ Pending(pk, n) /\ Commanded(cp, Missing(pk)) /\ InResidue(cp, n, q) BY <1>1 DEF WriterOk
<1>3. n = 0 /\ breakTemp >= 1 /\ lengthBuffer + breakTemp <= W /\ LastEnd(cp) = q + breakTemp /\ lengthBuffer >= 1
      /\ \A b \in 0 .. breakTemp - 1 : pushWord.data[lengthBuffer + b] = q + b
  BY <1>2 DEF InResidue, Behind
<1>4. wrData \in Seq(Word) /\ pushWord \in Word /\ breakTemp \in 0 .. B /\ lengthBuffer \in 0 .. W BY DEF WriterTypes
<1>5. W \in Nat /\ W >= 1 /\ B \in Nat BY RingAssumption
<1>6. NoWord \in Word
  <2>1. NoData \in [Bytes -> Int] BY DEF NoData
  <2> QED BY <2>1 DEF NoWord, Word
<1>7. put.data = Shifted(pushWord, lengthBuffer, NoWord) /\ put.keep = breakTemp /\ put.last = TRUE OBVIOUS
<1>8. put.data \in [Bytes -> Int]
      /\ \A b \in 0 .. W - 1 : put.data[b] = IF b < W - lengthBuffer THEN pushWord.data[lengthBuffer + b] ELSE NoWord.data[b - (W - lengthBuffer)]
  BY <1>4, <1>6, <1>7, ShiftedIs
<1>9. put = [data |-> put.data, keep |-> put.keep, last |-> put.last] OBVIOUS
<1> HIDE DEF put
<1>10. put \in Word
  <2>3. put.keep \in Nat BY <1>4, <1>5, <1>7
  <2>4. put.last \in BOOLEAN BY <1>7
  <2>1. put.keep \in Nat /\ put.last \in BOOLEAN BY <2>3, <2>4
  <2>2. [data |-> put.data, keep |-> put.keep, last |-> put.last] \in Word BY <2>1, <1>8 DEF Word
  <2> QED BY <2>2, <1>9
<1>11. \A b \in 0 .. breakTemp - 1 : put.data[b] = q + b
  <2> TAKE b \in 0 .. breakTemp - 1
  <2>1. b \in 0 .. W - 1 /\ b < W - lengthBuffer BY <1>3, <1>4, <1>5
  <2> QED BY <2>1, <1>3, <1>8
<1>12. PICK u : u = put OBVIOUS
<1>13. PICK t : t = breakTemp OBVIOUS
<1>14. u.last BY <1>7, <1>12
<1>15. Commanded(cp, 0)'
  <2>1. Missing(pk) = breakTemp BY <1>1 DEF Missing
  <2>2. t \in Nat \ {0} /\ Commanded(cp, t) BY <2>1, <1>2, <1>3, <1>4, <1>5, <1>13
  <2>3. u \in Word /\ u.keep = Smaller(W, t) /\ (u.last <=> u.keep = t) /\ wrData' = Append(wrData, u) /\ UNCHANGED wrMemCmd
    BY <1>1, <1>3, <1>4, <1>5, <1>7, <1>10, <1>12, <1>13 DEF Smaller
  <2>4. \A b \in 0 .. u.keep - 1 : u.data[b] = LastEnd(cp) - t + b
    <3>1. LastEnd(cp) - t = q BY <1>2, <1>3, <1>4, <1>5, <1>13
    <3> QED BY <3>1, <1>7, <1>11, <1>12
  <2>5. Commanded(cp, IF u.last THEN 0 ELSE t - u.keep)' BY <2>2, <2>3, <2>4, PutWord
  <2> QED BY <2>5, <1>14
<1>16. Missing(pk)' = 0 BY <1>1 DEF Missing
<1>17. Commanded(cp, Missing(pk))' BY <1>15, <1>16 DEF Commanded
<1>18. Pending(pk, n)' BY <1>1, <1>2, PendingSame
<1>19. WriterOk(cp, pk, n, q)' BY <1>1, <1>2, <1>3, <1>17, <1>18 DEF WriterOk
<1>20. wrData' \in Seq(Word) BY <1>1, <1>4, <1>10, AppendIs
<1>21. WriterTypes' BY <1>1, <1>20 DEF WriterTypes, WriterStates
<1>22. CommandsFit' BY <1>1 DEF CommandsFit
<1> QED BY <1>19, <1>21, <1>22

(* What the memory takes is what the command is for. *)
LEMMA MemoryKeeps ==
  ASSUME WriterTypes, CommandsFit, NEW cp, NEW pk, NEW n, NEW q, WriterOk(cp, pk, n, q),
         NEW okay, MemoryWrites(okay), UNCHANGED <<side, written>>, NEW w, w = Head(wrData), NEW c, c = Head(wrMemCmd)
  PROVE  /\ (WriterTypes /\ CommandsFit /\ WriterOk(Took(cp, w), pk, n, q))'
         /\ Taken(cp, c, w)
<1> DEFINE tk == Took(cp, w)
<1>1. /\ wrMemCmd # <<>> /\ wrData # <<>> /\ wrData' = Tail(wrData)
      /\ wrMemCmd' = IF w.last THEN Tail(wrMemCmd) ELSE <<[addr |-> c.addr + w.keep, len |-> c.len - w.keep]>> \o Tail(wrMemCmd)
      /\ UNCHANGED <<pushMeta, pkgBuffer, wrState, wrCmd, breakTemp, breakdown, lengthBuffer, residue, pushWord, dropping>>
  BY DEF MemoryWrites, fsmVars
<1>2. q \in Int /\ Pending(pk, n) /\ Commanded(cp, Missing(pk)) BY DEF WriterOk
<1>3. wrMemCmd \in Seq(Cmd) /\ wrData \in Seq(Word) /\ breakTemp \in 0 .. B BY DEF WriterTypes
<1>4. PICK left : left = Missing(pk) OBVIOUS
<1>5. wrState = "aligned" => n = 1 BY DEF WriterOk, InAligned
<1>6. left \in Nat
  <2>1. n = 1 => pk[1].len \in Nat
    <3>1. SUFFICES ASSUME n = 1 PROVE pk[1].len \in Nat OBVIOUS
    <3>2. pk \in Seq(Part) /\ Len(pk) = 1 + Len(pushMeta) BY <3>1, <1>2, RunPlace DEF Pending
    <3>3. Len(pushMeta) \in Nat BY EmptyIs DEF WriterTypes
    <3>4. 1 \in 1 .. Len(pk) BY <3>2, <3>3
    <3> QED BY <3>2, <3>4, PartIs
  <2>2. breakTemp \in Nat BY <1>3, RingAssumption
  <2> QED BY <2>1, <2>2, <1>4, <1>5 DEF Missing
<1>7. /\ Commanded(tk, left)' /\ (wrMemCmd \in Seq(Cmd))' /\ CommandsFit'
      /\ Taken(cp, c, w)
      /\ (left # 0 => LastEnd(tk) = LastEnd(cp))
  <2>1. Commanded(cp, left) /\ left \in Nat /\ wrMemCmd \in Seq(Cmd) /\ CommandsFit BY <1>2, <1>3, <1>4, <1>6
  <2>2. wrData # <<>> /\ wrMemCmd # <<>> /\ w = Head(wrData) /\ c = Head(wrMemCmd) /\ wrData' = Tail(wrData) BY <1>1
  <2>3. wrMemCmd' = IF w.last THEN Tail(wrMemCmd) ELSE <<[addr |-> c.addr + w.keep, len |-> c.len - w.keep]>> \o Tail(wrMemCmd)
    BY <1>1
  <2> QED BY <2>1, <2>2, <2>3, TakeWord
<1> HIDE DEF tk
<1>8. Missing(pk)' = left BY <1>1, <1>4 DEF Missing
<1>9. Commanded(tk, Missing(pk))' BY <1>7, <1>8 DEF Commanded
<1>10. Pending(pk, n)' BY <1>1, <1>2, PendingSame
<1>11. WriterOk(tk, pk, n, q)'
  <2>1. (wrState = "idle" => n = 0)' BY <1>1 DEF WriterOk
  <2>2. (wrState = "first" => InFirst(tk, pk, n))'
    <3>1. SUFFICES ASSUME wrState = "first" PROVE InFirst(tk, pk, n)' BY <1>1
    <3>2. InFirst(cp, pk, n) BY <3>1 DEF WriterOk
    <3>3. CASE dropping BY <3>2, <3>3, <1>1 DEF InFirst
    <3>4. CASE ~dropping
      <4>1. left = breakTemp /\ breakTemp >= 1 BY <3>1, <3>2, <3>4, <1>4 DEF Missing, InFirst
      <4>2. LastEnd(tk) = LastEnd(cp) BY <4>1, <1>6, <1>7
      <4> QED BY <3>2, <4>2, <1>1 DEF InFirst, LastEnd, End, Addr
    <3> QED BY <3>3, <3>4
  <2>3. (wrState = "evalSecond" => InEval(pk, n, q))' BY <1>1 DEF WriterOk, InEval, SecondHas, Behind, Addr
  <2>4. (wrState = "aligned" => InAligned(tk, pk, n))'
    <3>1. SUFFICES ASSUME wrState = "aligned" PROVE InAligned(tk, pk, n)' BY <1>1
    <3>2. InAligned(cp, pk, n) BY <3>1 DEF WriterOk
    <3>3. left = pk[1].len BY <3>1, <1>4 DEF Missing
    <3>4. pk[1].len # 0
      <4>1. n = 1 BY <3>2 DEF InAligned
      <4>2. pk \in Seq(Part) /\ Len(pk) = 1 + Len(pushMeta) BY <4>1, <1>2, RunPlace DEF Pending
      <4>3. Len(pushMeta) \in Nat BY EmptyIs DEF WriterTypes
      <4>4. 1 \in 1 .. Len(pk) BY <4>2, <4>3
      <4>5. pk[1] \in Part BY <4>2, <4>4, PartIs
      <4> QED BY <4>5 DEF Part
    <3>5. LastEnd(tk) = LastEnd(cp) BY <3>3, <3>4, <1>7
    <3> QED BY <3>2, <3>5, <1>1 DEF InAligned, LastEnd, End
  <2>5. (wrState = "second" => InSecond(tk, pk, n, q))'
    <3>1. SUFFICES ASSUME wrState = "second" PROVE InSecond(tk, pk, n, q)' BY <1>1
    <3>2. InSecond(cp, pk, n, q) BY <3>1 DEF WriterOk
    <3>3. left = breakTemp /\ breakTemp >= 1 BY <3>1, <3>2, <1>4 DEF Missing, InSecond
    <3>4. LastEnd(tk) = LastEnd(cp) BY <3>3, <1>6, <1>7
    <3> QED BY <3>2, <3>4, <1>1 DEF InSecond, SecondHas, Behind, LastEnd, End
  <2>6. (wrState = "residue" => InResidue(tk, n, q))'
    <3>1. SUFFICES ASSUME wrState = "residue" PROVE InResidue(tk, n, q)' BY <1>1
    <3>2. InResidue(cp, n, q) BY <3>1 DEF WriterOk
    <3>3. left = breakTemp /\ breakTemp >= 1 BY <3>1, <3>2, <1>4 DEF Missing, InResidue
    <3>4. LastEnd(tk) = LastEnd(cp) BY <3>3, <1>6, <1>7
    <3> QED BY <3>2, <3>4, <1>1 DEF InResidue, Behind, LastEnd, End
  <2> QED BY <2>1, <2>2, <2>3, <2>4, <2>5, <2>6, <1>2, <1>9, <1>10 DEF WriterOk
<1>12. wrData' \in Seq(Word) BY <1>1, <1>3, TailIs
<1>13. WriterTypes' BY <1>1, <1>7, <1>12 DEF WriterTypes, WriterStates
<1> QED BY <1>7, <1>11, <1>13 DEF tk

(* A package comes, to be written or to be dropped. *)
LEMMA PackageKeeps ==
  ASSUME WriterTypes, CommandsFit, NEW cp, NEW pk, NEW n, NEW q, WriterOk(cp, pk, n, q),
         NEW m \in Meta, NEW pos \in Int, pos = PartOf(m).pos,
         pushMeta' = Append(pushMeta, m), pkgBuffer' = pkgBuffer \o WordsOf(pos, m.len), written' \in Nat,
         UNCHANGED <<side, fsmVars, wrMemCmd, wrData>>
  PROVE  (WriterTypes /\ CommandsFit /\ WriterOk(cp, Append(pk, PartOf(m)), n, q))' /\ PartOf(m) \in Part /\ pk \in Seq(Part)
<1>0. PICK p : p = PartOf(m) OBVIOUS
<1> DEFINE ak == Append(pk, p)
<1>1. q \in Int /\ Pending(pk, n) /\ Commanded(cp, Missing(pk)) BY DEF WriterOk
<1>2. pushMeta \in Seq(Meta) /\ pkgBuffer \in Seq(Word) BY DEF WriterTypes
<1>3. Pending(ak, n)' /\ pk \in Seq(Part) /\ p \in Part BY <1>0, <1>1, <1>2, AddPackage
<1>4. n = 1 => ak[1] = pk[1]
  <2>1. SUFFICES ASSUME n = 1 PROVE ak[1] = pk[1] OBVIOUS
  <2>2. Len(pk) = 1 + Len(pushMeta) BY <2>1, <1>1 DEF Pending
  <2>3. Len(pushMeta) \in Nat BY <1>2, EmptyIs
  <2>4. 1 \in 1 .. Len(pk) BY <2>2, <2>3
  <2> QED BY <2>4, <1>3, AppendIs
<1> HIDE DEF ak
<1>5. wrState = "aligned" => n = 1 BY DEF WriterOk, InAligned
<1>6. PICK left : left = Missing(pk) OBVIOUS
<1>7. UNCHANGED <<wrState, wrCmd, breakTemp, breakdown, lengthBuffer, residue, pushWord, dropping>> BY DEF fsmVars
<1>8. Missing(ak)' = left BY <1>4, <1>5, <1>6, <1>7 DEF Missing
<1>9. Commanded(cp, left)' BY <1>1, <1>6, CommandedSame
<1>10. Commanded(cp, Missing(ak))' BY <1>8, <1>9 DEF Commanded
<1>11. WriterOk(cp, ak, n, q)'
  <2>1. (wrState = "idle" => n = 0)' BY <1>7 DEF WriterOk
  <2>2. (wrState = "first" => InFirst(cp, ak, n))' BY <1>4, <1>7 DEF WriterOk, InFirst, LastEnd, End, Addr
  <2>3. (wrState = "evalSecond" => InEval(ak, n, q))' BY <1>4, <1>7 DEF WriterOk, InEval, SecondHas, Behind, Addr
  <2>4. (wrState = "aligned" => InAligned(cp, ak, n))' BY <1>4, <1>7 DEF WriterOk, InAligned, LastEnd, End
  <2>5. (wrState = "second" => InSecond(cp, ak, n, q))' BY <1>4, <1>7 DEF WriterOk, InSecond, SecondHas, Behind, LastEnd, End
  <2>6. (wrState = "residue" => InResidue(cp, n, q))' BY <1>7 DEF WriterOk, InResidue, Behind, LastEnd, End
  <2> QED BY <2>1, <2>2, <2>3, <2>4, <2>5, <2>6, <1>1, <1>3, <1>10 DEF WriterOk
<1>12. pushMeta' \in Seq(Meta) BY <1>2, AppendIs
<1>13. pkgBuffer' \in Seq(Word)
  <2>1. m.len \in Nat \ {0} BY RingAssumption DEF Meta
  <2>2. WordsOf(pos, m.len) \in Seq(Word) BY <2>1, WordsOfIs
  <2> QED BY <2>2, <1>2, ConcatWords
<1>14. WriterTypes' BY <1>7, <1>12, <1>13 DEF WriterTypes, WriterStates
<1>15. CommandsFit' BY DEF CommandsFit
<1> QED BY <1>0, <1>3, <1>11, <1>14, <1>15 DEF ak

----------------------------------------------------------------------------
LEMMA WriterStarts ==
  ASSUME Init PROVE WriterInv
<1>1. B \in Nat /\ B >= 1 /\ W \in Nat /\ W >= 1 BY RingAssumption
<1>2. NoWord \in Word
  <2>1. NoData \in [Bytes -> Int] BY DEF NoData
  <2> QED BY <2>1 DEF NoWord, Word
<1>3. written \in Nat /\ side \in Sides BY BoundAssumption DEF Init
<1>4. <<>> \in Seq(Meta) /\ <<>> \in Seq(Word) /\ <<>> \in Seq(Cmd) OBVIOUS
<1>5. WriterTypes
  <2>1. [addr |-> 0, len |-> 0] \in [addr : 0 .. B - 1, len : 0 .. B] BY <1>1
  <2>2. 0 \in 0 .. B /\ 0 \in 0 .. W BY <1>1
  <2> QED BY <2>1, <2>2, <1>2, <1>3, <1>4 DEF WriterTypes, Init, WriterInit, WriterStates
<1>6. CommandsFit BY DEF CommandsFit, Init, WriterInit
<1>7. RunTo(<<>>, <<>>, <<1, 0>>)
  <2>1. <<>> \in Seq(Part) /\ Len(<<>>) = 0 OBVIOUS
  <2>2. RunTo(<<>>, <<>>, <<1, Todo(<<>>, 1)>>) BY <2>1, RunStarts
  <2>3. Todo(<<>>, 1) = 0 BY DEF Todo
  <2> QED BY <2>2, <2>3
<1>8. WriterOk(<<>>, <<>>, 0, 0)
  <2>1. Pending(<<>>, 0) BY <1>7 DEF Pending, Init, WriterInit
  <2>2. Missing(<<>>) = 0 BY DEF Missing, Init, WriterInit
  <2>3. Commanded(<<>>, 0) BY <1>7 DEF Commanded, Init, WriterInit
  <2> QED BY <2>1, <2>2, <2>3 DEF WriterOk, Init, WriterInit
<1> QED BY <1>5, <1>6, <1>8 DEF WriterInv

LEMMA WriterOkSame ==
  ASSUME NEW cp, NEW pk, NEW n, NEW q, WriterTypes, CommandsFit, WriterOk(cp, pk, n, q),
         UNCHANGED <<side, written, pushMeta, pkgBuffer, fsmVars, wrMemCmd, wrData>>
  PROVE  (WriterTypes /\ CommandsFit /\ WriterOk(cp, pk, n, q))'
<1>0. UNCHANGED <<side, written, pushMeta, pkgBuffer, wrState, wrCmd, breakTemp, breakdown, lengthBuffer, residue, pushWord, dropping, wrMemCmd, wrData>>
  BY DEF fsmVars
<1>2. Pending(pk, n)' BY <1>0, PendingSame DEF WriterOk
<1>3. PICK left : left = Missing(pk) OBVIOUS
<1>4. Missing(pk)' = left BY <1>0, <1>3 DEF Missing
<1>5. Commanded(cp, left)' BY <1>0, <1>3, CommandedSame DEF WriterOk
<1>6. Commanded(cp, Missing(pk))' BY <1>4, <1>5 DEF Commanded
<1>7. WriterOk(cp, pk, n, q)'
  BY <1>0, <1>2, <1>6 DEF WriterOk, InFirst, InEval, InAligned, InSecond, InResidue, SecondHas, Behind, LastEnd, End, Addr
<1>8. WriterTypes' BY <1>0 DEF WriterTypes, WriterStates
<1>9. CommandsFit' BY <1>0 DEF CommandsFit
<1> QED BY <1>7, <1>8, <1>9

LEMMA WriterUnchanged ==
  ASSUME WriterInv, UNCHANGED <<side, written, pushMeta, pkgBuffer, fsmVars, wrMemCmd, wrData>> PROVE WriterInv'
<1>1. WriterTypes /\ CommandsFit BY DEF WriterInv
<1>2. PICK cp, pk, n, q : WriterOk(cp, pk, n, q) BY DEF WriterInv
<1>3. (WriterTypes /\ CommandsFit /\ WriterOk(cp, pk, n, q))' BY <1>1, <1>2, WriterOkSame
<1> QED BY <1>3 DEF WriterInv

LEMMA WriterMoves ==
  ASSUME WriterInv, WriterStep, UNCHANGED <<side, ringVars>> PROVE WriterInv'
<1>0. UNCHANGED <<side, written>> BY DEF ringVars
<1>1. WriterTypes /\ CommandsFit BY DEF WriterInv
<1>2. PICK cp, pk, n, q : WriterOk(cp, pk, n, q) BY DEF WriterInv
<1>3. PICK w : w = Head(pkgBuffer) OBVIOUS
<1>4. PICK r : r = LastEnd(cp) OBVIOUS
<1>5. PICK s : s = q + W OBVIOUS
<1>6. CASE WriteIdle
  <2>1. CASE Head(pushMeta).drop BY <2>1, <1>0, <1>1, <1>2, <1>6, IdleDrops DEF WriterInv
  <2>2. CASE ~Head(pushMeta).drop
    <3>1. PICK p : p = [pos |-> Head(pushMeta).pos, len |-> IF PassesEnd(Addr(Head(pushMeta).pos), Head(pushMeta).len)
                                                            THEN B - Addr(Head(pushMeta).pos) ELSE Head(pushMeta).len]
      OBVIOUS
    <3>2. (WriterTypes /\ CommandsFit /\ WriterOk(Append(cp, p), pk, 1, q))' BY <3>1, <2>2, <1>0, <1>1, <1>2, <1>6, IdleStarts
    <3> QED BY <3>2 DEF WriterInv
  <2> QED BY <2>1, <2>2
<1>7. CASE WriteDropped
  <2>1. (WriterTypes /\ CommandsFit /\ WriterOk(cp, Took(pk, w), IF w.last THEN 0 ELSE 1, q))' BY <1>0, <1>1, <1>2, <1>3, <1>7, DroppedKeeps
  <2> QED BY <2>1 DEF WriterInv
<1>8. CASE WriteFirst
  <2>1. (WriterTypes /\ CommandsFit /\ WriterOk(cp, Took(pk, w), IF w.last THEN 0 ELSE 1, r))' BY <1>0, <1>1, <1>2, <1>3, <1>4, <1>8, FirstKeeps
  <2> QED BY <2>1 DEF WriterInv
<1>9. CASE EvalSecond
  <2>1. PICK p : p = [pos |-> q, len |-> wrCmd.len] OBVIOUS
  <2>2. (WriterTypes /\ CommandsFit /\ WriterOk(Append(cp, p), pk, n, q))' BY <2>1, <1>0, <1>1, <1>2, <1>9, EvalKeeps
  <2> QED BY <2>2 DEF WriterInv
<1>10. CASE WriteAligned
  <2>1. (WriterTypes /\ CommandsFit /\ WriterOk(cp, Took(pk, w), IF w.last THEN 0 ELSE 1, q))' BY <1>0, <1>1, <1>2, <1>3, <1>10, AlignedKeeps
  <2> QED BY <2>1 DEF WriterInv
<1>11. CASE WriteSecond
  <2>1. (WriterTypes /\ CommandsFit /\ WriterOk(cp, Took(pk, w), IF w.last THEN 0 ELSE 1, s))' BY <1>0, <1>1, <1>2, <1>3, <1>5, <1>11, SecondKeeps
  <2> QED BY <2>1 DEF WriterInv
<1>12. CASE WriteResidue BY <1>0, <1>1, <1>2, <1>12, ResidueKeeps DEF WriterInv
<1>13. CASE MemoryWrites(TRUE)
  <2>1. PICK v : v = Head(wrData) OBVIOUS
  <2>2. PICK c : c = Head(wrMemCmd) OBVIOUS
  <2>3. (WriterTypes /\ CommandsFit /\ WriterOk(Took(cp, v), pk, n, q))' BY <2>1, <2>2, <1>0, <1>1, <1>2, <1>13, MemoryKeeps
  <2> QED BY <2>3 DEF WriterInv
<1> QED BY <1>6, <1>7, <1>8, <1>9, <1>10, <1>11, <1>12, <1>13 DEF WriterStep

LEMMA WriterNext ==
  ASSUME WriterInv, [Next]_vars PROVE WriterInv'
<1>1. WriterTypes /\ CommandsFit BY DEF WriterInv
<1>2. PICK cp, pk, n, q : WriterOk(cp, pk, n, q) BY DEF WriterInv
<1>3. written \in Nat /\ B \in Nat BY <1>1, RingAssumption DEF WriterTypes
<1>4. ASSUME NEW k \in 1 .. B, Accept(k) \/ AcceptFin(k) PROVE WriterInv'
  <2>1. PICK m : m = [pos |-> written, len |-> k, drop |-> FALSE] OBVIOUS
  <2>2. PICK pos : pos = written OBVIOUS
  <2>3. m \in Meta /\ m.len = k /\ PartOf(m).pos = pos /\ pos \in Int BY <2>1, <2>2, <1>3 DEF Meta, PartOf
  <2>4. pushMeta' = Append(pushMeta, m) /\ pkgBuffer' = pkgBuffer \o WordsOf(pos, m.len) /\ written' \in Nat
        /\ UNCHANGED <<side, fsmVars, wrMemCmd, wrData>>
    BY <2>1, <2>2, <2>3, <1>3, <1>4 DEF Accept, AcceptFin, Take
  <2>5. (WriterTypes /\ CommandsFit /\ WriterOk(cp, Append(pk, PartOf(m)), n, q))'
    BY <2>2, <2>3, <2>4, <1>1, <1>2, <1>3, PackageKeeps
  <2> QED BY <2>5 DEF WriterInv
<1>5. ASSUME NEW k \in 1 .. B, Refuse(k) PROVE WriterInv'
  <2>1. PICK m : m = [pos |-> written, len |-> k, drop |-> TRUE] OBVIOUS
  <2>2. PICK pos : pos = -1 - k OBVIOUS
  <2>3. m \in Meta /\ m.len = k /\ PartOf(m).pos = pos /\ pos \in Int BY <2>1, <2>2, <1>3 DEF Meta, PartOf
  <2>4. pushMeta' = Append(pushMeta, m) /\ pkgBuffer' = pkgBuffer \o WordsOf(pos, m.len) /\ written' \in Nat
        /\ UNCHANGED <<side, fsmVars, wrMemCmd, wrData>>
    BY <2>1, <2>2, <2>3, <1>3, <1>5 DEF Refuse
  <2>5. (WriterTypes /\ CommandsFit /\ WriterOk(cp, Append(pk, PartOf(m)), n, q))'
    BY <2>2, <2>3, <2>4, <1>1, <1>2, PackageKeeps
  <2> QED BY <2>5 DEF WriterInv
<1>6. ASSUME NEW k \in 1 .. B, Request(k) PROVE WriterInv' BY <1>6, WriterUnchanged DEF Request, writerVars
<1>7. CASE Acked BY <1>7, WriterUnchanged DEF Acked, writerVars
<1>8. CASE Fail
  <2>1. MemoryWrites(FALSE) /\ UNCHANGED <<side, written>> BY <1>8 DEF Fail, ringVars
  <2>2. PICK v : v = Head(wrData) OBVIOUS
  <2>3. PICK c : c = Head(wrMemCmd) OBVIOUS
  <2>4. (WriterTypes /\ CommandsFit /\ WriterOk(Took(cp, v), pk, n, q))' BY <2>1, <2>2, <2>3, <1>1, <1>2, MemoryKeeps
  <2> QED BY <2>4 DEF WriterInv
<1>9. CASE Engine
  <2>1. CASE FirstOfTwo BY <2>1, WriterUnchanged DEF FirstOfTwo
  <2>2. CASE MakeKnown BY <2>2, WriterUnchanged DEF MakeKnown
  <2>3. CASE WriterStep /\ UNCHANGED <<side, ringVars, readerVars>> BY <2>3, WriterMoves
  <2>4. CASE ReaderStep /\ UNCHANGED <<side, ringVars, writerVars>> BY <2>4, WriterUnchanged DEF ringVars, writerVars
  <2> QED BY <2>1, <2>2, <2>3, <2>4, <1>9 DEF Engine
<1>10. CASE UNCHANGED vars BY <1>10, WriterUnchanged DEF vars, ringVars, writerVars
<1> QED BY <1>4, <1>5, <1>6, <1>7, <1>8, <1>9, <1>10 DEF Next

LEMMA WriterFits ==
  ASSUME WriterInv PROVE AccessesFit
<1>1. WriterTypes /\ CommandsFit BY DEF WriterInv
<1>2. PICK cp, pk, n, q : WriterOk(cp, pk, n, q) BY DEF WriterInv
<1>3. wrMemCmd \in Seq(Cmd) /\ Len(wrMemCmd) \in Nat BY <1>1, EmptyIs DEF WriterTypes
<1>4. \A i \in DOMAIN wrMemCmd : wrMemCmd[i].addr + wrMemCmd[i].len <= B
  <2>1. DOMAIN wrMemCmd = 1 .. Len(wrMemCmd) BY <1>3
  <2> QED BY <2>1, <1>1 DEF CommandsFit
<1>5. ASSUME wrMemCmd # <<>>, wrData # <<>>
      PROVE  Head(wrData).keep \in 1 .. Head(wrMemCmd).len /\ (Head(wrData).last <=> Head(wrData).keep = Head(wrMemCmd).len)
  <2>1. PICK e : RunTo(wrData, cp, e) BY <1>2 DEF WriterOk, Commanded
  <2>2. Head(wrMemCmd) = wrMemCmd[1] /\ Len(wrMemCmd) >= 1 /\ Len(cp) = Len(wrMemCmd) BY <1>2, <1>3, <1>5, TailIs DEF WriterOk, Commanded
  <2>3. 1 \in 1 .. Len(cp) BY <2>2, <1>3
  <2>4. cp[1].len = Head(wrMemCmd).len BY <2>2, <2>3, <1>2 DEF WriterOk, Commanded
  <2>5. Head(wrData).keep \in Nat /\ Head(wrData).keep >= 1 /\ Head(wrData).keep <= cp[1].len BY <2>1, <1>5, HeadKeeps
  <2>6. Head(wrData).last <=> Head(wrData).keep = cp[1].len BY <2>1, <1>5, RunHead
  <2>7. cp[1].len \in Nat BY <2>1, <2>3, RunPlace, PartIs
  <2> QED BY <2>4, <2>5, <2>6, <2>7
<1> QED BY <1>4, <1>5 DEF AccessesFit

(* An access that passes the end of the ring is broken down into two (rx_engine.cpp:1158,            *)
(* tx_app_stream_if.cpp:163): for every size of the ring and of a word, every position and length,  *)
(* and whatever accesses fail, no command passes the end of the ring, and the words that come with  *)
(* a command end with the last of its bytes, neither sooner nor later.                              *)
THEOREM AccessesStayInside == Spec => []AccessesFit
<1>1. Init => WriterInv BY WriterStarts
<1>2. WriterInv /\ [Next]_vars => WriterInv' BY WriterNext
<1>3. WriterInv => AccessesFit BY WriterFits
<1> QED BY <1>1, <1>2, <1>3, PTL DEF Spec

----------------------------------------------------------------------------
(* From the writes to what is made known.                                  *)

(* The parts q follow one another, from one position to another. *)
Chain(q, from, to) ==
  /\ from <= to
  /\ IF Len(q) = 0 THEN from = to ELSE q[1].pos = from /\ End(q[Len(q)]) = to
  /\ \A i \in 1 .. Len(q) - 1 : q[i + 1].pos = End(q[i])
  /\ \A i \in 1 .. Len(q) : from <= q[i].pos /\ End(q[i]) <= to
  /\ \A i, j \in 1 .. Len(q) : i < j => End(q[i]) <= q[j].pos

(* An access, or two that meet at the end of the ring: where the one ends that holds position p. *)
Notice == [pos : Nat, len : 1 .. B]
Passes(x) == PassesEnd(Addr(x.pos), x.len)
Wrap(x) == x.pos + (B - Addr(x.pos))
Within(x, p, b) == x.pos <= p /\ p < End(x) /\ b = IF Passes(x) /\ p < Wrap(x) THEN Wrap(x) ELSE End(x)
Ends(q, p, b) == \E i \in 1 .. Len(q) : Within(q[i], p, b)

LEMMA NoticeIs ==
  ASSUME NEW x \in Notice
  PROVE  /\ x \in Part /\ x.pos \in Nat /\ x.len \in Nat /\ x.len >= 1 /\ x.len <= B /\ End(x) \in Nat /\ End(x) = x.pos + x.len
         /\ Addr(x.pos) \in Nat /\ Addr(x.pos) < B /\ Wrap(x) \in Nat /\ x.pos < Wrap(x) /\ Passes(x) \in BOOLEAN
         /\ Passes(x) <=> Wrap(x) < End(x)
<1>1. x.pos \in Nat /\ x.len \in 1 .. B /\ B \in Nat /\ B >= 1 BY RingAssumption DEF Notice
<1>2. x.len \in Nat /\ x.len >= 1 /\ x.len <= B BY <1>1
<1>3. Addr(x.pos) \in Nat /\ Addr(x.pos) < B BY <1>1, AddrIs
<1>4. x = [pos |-> x.pos, len |-> x.len] BY DEF Notice
<1>5. x \in Part BY <1>1, <1>2, <1>4 DEF Part
<1>6. Wrap(x) \in Nat /\ x.pos < Wrap(x) BY <1>1, <1>3 DEF Wrap
<1>7. Passes(x) <=> Wrap(x) < End(x) BY <1>1, <1>2, <1>3 DEF Passes, PassesEnd, Wrap, End
<1>8. Passes(x) \in BOOLEAN BY DEF Passes, PassesEnd
<1> QED BY <1>1, <1>2, <1>3, <1>5, <1>6, <1>7, <1>8 DEF End

LEMMA NoticesAreParts ==
  ASSUME NEW q \in Seq(Notice)
  PROVE  /\ q \in Seq(Part) /\ Len(q) \in Nat
         /\ \A i \in 1 .. Len(q) : q[i] \in Notice /\ q[i].pos \in Int /\ End(q[i]) \in Int /\ q[i].pos < End(q[i])
<1>1. Notice \subseteq Part BY NoticeIs
<1>2. q \in Seq(Part) BY <1>1
<1>3. Len(q) \in Nat /\ \A i \in 1 .. Len(q) : q[i] \in Notice BY ElementIs, EmptyIs
<1>4. ASSUME NEW i \in 1 .. Len(q) PROVE q[i].pos \in Int /\ End(q[i]) \in Int /\ q[i].pos < End(q[i])
  <2>1. PICK x : x = q[i] OBVIOUS
  <2>2. x \in Notice BY <2>1, <1>3
  <2>3. x.pos \in Nat /\ x.len \in Nat /\ x.len >= 1 /\ End(x) = x.pos + x.len BY <2>2, NoticeIs
  <2>4. x.pos \in Int /\ End(x) \in Int /\ x.pos < End(x) BY <2>3
  <2> QED BY <2>1, <2>4
<1> QED BY <1>2, <1>3, <1>4

LEMMA WithinIs ==
  ASSUME NEW x \in Notice, NEW p \in Int, NEW b, Within(x, p, b)
  PROVE  /\ b \in Nat /\ x.pos <= p /\ p < b /\ b <= End(x)
         /\ p = x.pos => b = IF Passes(x) THEN Wrap(x) ELSE End(x)
BY NoticeIs DEF Within

LEMMA ChainEmpty == \A a \in Int : Chain(<<>>, a, a)
BY DEF Chain

LEMMA ChainAppend ==
  ASSUME NEW q \in Seq(Part), NEW from \in Int, NEW to \in Int, Chain(q, from, to), NEW p \in Part, p.pos = to
  PROVE  Chain(Append(q, p), from, End(p)) /\ End(p) \in Int /\ to < End(p)
<1> DEFINE n == Len(q)
           u == Append(q, p)
<1>1. n \in Nat /\ Len(u) = n + 1 /\ u[n + 1] = p /\ \A k \in 1 .. n : u[k] = q[k] BY AppendIs
<1>2. \A i \in 1 .. n : q[i].pos \in Int /\ End(q[i]) \in Int BY PartIs
<1>3. End(p) \in Int /\ p.pos < End(p) BY DEF Part, End
<1> HIDE DEF u
<1>4. from <= End(p) BY <1>3 DEF Chain
<1>5. IF Len(u) = 0 THEN from = End(p) ELSE u[1].pos = from /\ End(u[Len(u)]) = End(p)
  <2>1. CASE n = 0 BY <2>1, <1>1 DEF Chain
  <2>2. CASE n # 0
    <3>1. 1 \in 1 .. n BY <2>2, <1>1
    <3> QED BY <3>1, <2>2, <1>1 DEF Chain
  <2> QED BY <2>1, <2>2
<1>6. ASSUME NEW i \in 1 .. Len(u) - 1 PROVE u[i + 1].pos = End(u[i])
  <2>1. i \in 1 .. n BY <1>1
  <2>2. CASE i = n BY <2>1, <2>2, <1>1 DEF Chain
  <2>3. CASE i # n
    <3>1. i \in 1 .. n - 1 /\ i + 1 \in 1 .. n BY <2>1, <2>3, <1>1
    <3> QED BY <3>1, <2>1, <1>1 DEF Chain
  <2> QED BY <2>2, <2>3
<1>7. ASSUME NEW i \in 1 .. Len(u) PROVE from <= u[i].pos /\ End(u[i]) <= End(p)
  <2>1. CASE i = n + 1 BY <2>1, <1>1, <1>3 DEF Chain
  <2>2. CASE i # n + 1
    <3>1. i \in 1 .. n BY <2>2, <1>1
    <3>2. from <= q[i].pos /\ End(q[i]) <= to /\ u[i] = q[i] BY <3>1, <1>1 DEF Chain
    <3> QED BY <3>1, <3>2, <1>2, <1>3
  <2> QED BY <2>1, <2>2
<1>8. ASSUME NEW i \in 1 .. Len(u), NEW j \in 1 .. Len(u), i < j PROVE End(u[i]) <= u[j].pos
  <2>1. i \in 1 .. n BY <1>1, <1>8
  <2>2. u[i] = q[i] /\ End(q[i]) <= to BY <2>1, <1>1 DEF Chain
  <2>3. CASE j = n + 1 BY <2>2, <2>3, <1>1
  <2>4. CASE j # n + 1
    <3>1. j \in 1 .. n BY <2>4, <1>1
    <3> QED BY <3>1, <2>1, <2>2, <1>1, <1>8 DEF Chain
  <2> QED BY <2>3, <2>4
<1>9. to < End(p) BY <1>3
<1>10. Chain(u, from, End(p)) BY <1>4, <1>5, <1>6, <1>7, <1>8 DEF Chain
<1> QED BY <1>3, <1>9, <1>10 DEF u

LEMMA ChainTail ==
  ASSUME NEW q \in Seq(Part), q # <<>>, NEW from \in Int, NEW to \in Int, Chain(q, from, to)
  PROVE  /\ q[1] \in Part /\ q[1].pos = from /\ End(q[1]) \in Int /\ from < End(q[1]) /\ End(q[1]) <= to
         /\ Chain(Tail(q), End(q[1]), to)
<1> DEFINE n == Len(q)
           t == Tail(q)
<1>1. n \in Nat /\ n >= 1 /\ Len(t) = n - 1 /\ \A k \in 1 .. n - 1 : t[k] = q[k + 1] BY TailIs
<1>2. \A i \in 1 .. n : q[i] \in Part /\ q[i].pos \in Int /\ End(q[i]) \in Int BY PartIs
<1>3. 1 \in 1 .. n BY <1>1
<1>4. q[1].pos = from /\ End(q[1]) \in Int /\ End(q[1]) <= to /\ q[1] \in Part BY <1>1, <1>2, <1>3 DEF Chain
<1>5. from < End(q[1]) BY <1>4 DEF Part, End
<1> DEFINE f == End(q[1])
<1> HIDE DEF t, f
<1>6. IF Len(t) = 0 THEN f = to ELSE t[1].pos = f /\ End(t[Len(t)]) = to
  <2>1. CASE n = 1 BY <2>1, <1>1 DEF Chain, f
  <2>2. CASE n # 1
    <3>1. 1 \in 1 .. n - 1 /\ n - 1 \in 1 .. n - 1 BY <2>2, <1>1
    <3> QED BY <3>1, <2>2, <1>1 DEF Chain, f
  <2> QED BY <2>1, <2>2
<1>7. ASSUME NEW i \in 1 .. Len(t) - 1 PROVE t[i + 1].pos = End(t[i])
  <2>1. i + 1 \in 1 .. n - 1 /\ i \in 1 .. n - 1 BY <1>1
  <2> QED BY <2>1, <1>1 DEF Chain
<1>8. ASSUME NEW i \in 1 .. Len(t) PROVE f <= t[i].pos /\ End(t[i]) <= to
  <2>1. i + 1 \in 1 .. n /\ i \in 1 .. n - 1 /\ 1 < i + 1 BY <1>1
  <2> QED BY <2>1, <1>1, <1>3 DEF Chain, f
<1>9. ASSUME NEW i \in 1 .. Len(t), NEW j \in 1 .. Len(t), i < j PROVE End(t[i]) <= t[j].pos
  <2>1. i + 1 \in 1 .. n /\ j + 1 \in 1 .. n /\ i \in 1 .. n - 1 /\ j \in 1 .. n - 1 /\ i + 1 < j + 1 BY <1>1, <1>9
  <2> QED BY <2>1, <1>1 DEF Chain
<1>10. f <= to BY <1>4 DEF f
<1>11. Chain(t, f, to) BY <1>6, <1>7, <1>8, <1>9, <1>10 DEF Chain
<1> QED BY <1>4, <1>5, <1>11 DEF t, f

(* The first part has become shorter. *)
LEMMA ChainShort ==
  ASSUME NEW q \in Seq(Part), q # <<>>, NEW from \in Int, NEW to \in Int, Chain(q, from, to),
         NEW p \in Part, End(p) = End(q[1]), from <= p.pos
  PROVE  Chain([q EXCEPT ![1] = p], p.pos, to)
<1> DEFINE n == Len(q)
           t == [q EXCEPT ![1] = p]
<1>1. n \in Nat /\ n >= 1 /\ 1 \in 1 .. n BY EmptyIs
<1>2. \A i \in 1 .. n : q[i] \in Part /\ q[i].pos \in Int /\ End(q[i]) \in Int BY PartIs
<1>3. Len(t) = n /\ t[1] = p /\ \A i \in 2 .. n : t[i] = q[i] BY <1>1
<1>4. p.pos \in Int /\ End(p) \in Int /\ p.pos < End(p) BY DEF Part, End
<1>5. \A i \in 1 .. n : End(t[i]) = End(q[i])
  <2> TAKE i \in 1 .. n
  <2>1. i = 1 \/ i \in 2 .. n BY <1>1
  <2> QED BY <2>1, <1>3
<1> HIDE DEF t
<1>6. End(q[1]) <= to BY <1>1 DEF Chain
<1>7. p.pos <= to BY <1>2, <1>4, <1>6, <1>1
<1>8. t[1].pos = p.pos /\ End(t[n]) = to
  <2>1. n \in 1 .. n BY <1>1
  <2> QED BY <2>1, <1>1, <1>3, <1>5 DEF Chain
<1>9. ASSUME NEW i \in 1 .. n - 1 PROVE t[i + 1].pos = End(t[i])
  <2>1. i + 1 \in 2 .. n /\ i \in 1 .. n BY <1>1
  <2> QED BY <2>1, <1>3, <1>5 DEF Chain
<1>10. ASSUME NEW i \in 1 .. n PROVE p.pos <= t[i].pos /\ End(t[i]) <= to
  <2>1. End(t[i]) <= to BY <1>5 DEF Chain
  <2>2. CASE i = 1 BY <2>1, <2>2, <1>3, <1>4
  <2>3. CASE i # 1
    <3>1. i \in 2 .. n /\ 1 < i BY <2>3, <1>1
    <3>2. t[i] = q[i] /\ End(q[1]) <= q[i].pos /\ q[i].pos \in Int BY <3>1, <1>1, <1>2, <1>3 DEF Chain
    <3> QED BY <3>2, <2>1, <1>4
  <2> QED BY <2>2, <2>3
<1>11. ASSUME NEW i \in 1 .. n, NEW j \in 1 .. n, i < j PROVE End(t[i]) <= t[j].pos
  <2>1. j \in 2 .. n BY <1>1, <1>11
  <2> QED BY <2>1, <1>3, <1>5, <1>11 DEF Chain
<1>12. Chain(t, p.pos, to) BY <1>1, <1>3, <1>7, <1>8, <1>9, <1>10, <1>11 DEF Chain
<1> QED BY <1>12 DEF t

(* In a chain, at most one access holds a position. *)
LEMMA EndsAre ==
  ASSUME NEW q \in Seq(Notice), NEW from \in Int, NEW to \in Int, Chain(q, from, to), NEW p \in Int, NEW b, Ends(q, p, b)
  PROVE  /\ from <= p /\ p < b /\ b <= to /\ b \in Nat
         /\ \A i \in 1 .. Len(q) : q[i].pos <= p /\ p < End(q[i]) => Within(q[i], p, b)
<1>1. Len(q) \in Nat /\ \A i \in 1 .. Len(q) : q[i] \in Notice /\ q[i].pos \in Int /\ End(q[i]) \in Int BY NoticesAreParts
<1>2. PICK i \in 1 .. Len(q) : Within(q[i], p, b) BY DEF Ends
<1>3. b \in Nat /\ q[i].pos <= p /\ p < b /\ b <= End(q[i]) BY <1>1, <1>2, WithinIs
<1>4. from <= q[i].pos /\ End(q[i]) <= to BY DEF Chain
<1>5. from <= p /\ b <= to BY <1>1, <1>3, <1>4
<1>6. ASSUME NEW j \in 1 .. Len(q), q[j].pos <= p, p < End(q[j]) PROVE j = i
  <2>1. ~(i < j) /\ ~(j < i)
    <3>1. i < j => End(q[i]) <= q[j].pos BY DEF Chain
    <3>2. j < i => End(q[j]) <= q[i].pos BY DEF Chain
    <3>3. PICK x, y, u, v : x = q[i].pos /\ y = End(q[i]) /\ u = q[j].pos /\ v = End(q[j]) OBVIOUS
    <3>4. {x, y, u, v} \subseteq Int BY <3>3, <1>1
    <3>5. x <= p /\ p < y /\ u <= p /\ p < v
      <4>1. b \in Int /\ p < b /\ b <= y /\ x <= p BY <3>3, <1>3
      <4>2. u <= p /\ p < v BY <3>3, <1>6
      <4> QED BY <4>1, <4>2, <3>4
    <3>6. ~(y <= u) /\ ~(v <= x) BY <3>4, <3>5
    <3> QED BY <3>1, <3>2, <3>3, <3>6
  <2> QED BY <2>1
<1> QED BY <1>2, <1>3, <1>5, <1>6

LEMMA EndsAppend ==
  ASSUME NEW q \in Seq(Notice), NEW x \in Notice, NEW p, NEW b, Ends(q, p, b) \/ Within(x, p, b)
  PROVE  Ends(Append(q, x), p, b)
<1> DEFINE u == Append(q, x)
<1>1. Len(q) \in Nat /\ Len(u) = Len(q) + 1 /\ u[Len(q) + 1] = x /\ \A k \in 1 .. Len(q) : u[k] = q[k] BY AppendIs
<1> HIDE DEF u
<1>2. CASE Ends(q, p, b)
  <2>1. PICK i \in 1 .. Len(q) : Within(q[i], p, b) BY <1>2 DEF Ends
  <2>2. i \in 1 .. Len(u) /\ Within(u[i], p, b) BY <2>1, <1>1
  <2> QED BY <2>2 DEF Ends, u
<1>3. CASE Within(x, p, b)
  <2>2. Len(q) + 1 \in 1 .. Len(u) /\ Within(u[Len(q) + 1], p, b) BY <1>1, <1>3
  <2> QED BY <2>2 DEF Ends, u
<1> QED BY <1>2, <1>3

LEMMA EndsTail ==
  ASSUME NEW q \in Seq(Notice), q # <<>>, NEW p \in Int, End(q[1]) <= p, NEW b, Ends(q, p, b)
  PROVE  Ends(Tail(q), p, b)
<1>1. Len(q) \in Nat /\ Len(Tail(q)) = Len(q) - 1 /\ \A k \in 1 .. Len(q) - 1 : Tail(q)[k] = q[k + 1] BY TailIs
<1>2. PICK i \in 1 .. Len(q) : Within(q[i], p, b) BY DEF Ends
<1>3. q[i] \in Notice /\ End(q[i]) \in Int BY NoticesAreParts
<1>4. i # 1 BY <1>2, <1>3 DEF Within
<1>5. i - 1 \in 1 .. Len(q) - 1 /\ (i - 1) + 1 = i BY <1>1, <1>4
<1>6. Tail(q)[i - 1] = q[i] BY <1>1, <1>5
<1> QED BY <1>1, <1>2, <1>5, <1>6 DEF Ends

----------------------------------------------------------------------------
TellTypes ==
  /\ {freed, told, requested, failures} \subseteq Nat /\ notices \in Seq(Notice)
  /\ tashState \in Seq(BOOLEAN) /\ wrStatus \in Seq(BOOLEAN) /\ doubleAccess \in Seq(BOOLEAN)
  /\ memory \in [0 .. B - 1 -> Int]

(* Positions that do not pass each other. *)
Ordered ==
  /\ freed <= requested /\ requested <= told
  /\ ~ended => written <= freed + (B - 1)
  /\ ended => side = "rx"

(* The writes to do follow one another; one that is dropped takes no place. *)
Extent(w) == IF w.drop THEN 0 ELSE w.len
Queued(from) ==
  LET n == Len(pushMeta) IN
  /\ from <= written
  /\ IF n = 0 THEN from = written ELSE pushMeta[1].pos = from /\ pushMeta[n].pos + Extent(pushMeta[n]) = written
  /\ \A i \in 1 .. n - 1 : pushMeta[i + 1].pos = pushMeta[i].pos + Extent(pushMeta[i])
  /\ \A i \in 1 .. n : from <= pushMeta[i].pos /\ pushMeta[i].pos + Extent(pushMeta[i]) <= written
  /\ \A i, j \in 1 .. n : i < j => pushMeta[i].pos + Extent(pushMeta[i]) <= pushMeta[j].pos
IsNotice(w) == \E j \in 1 .. Len(notices) : notices[j] = [pos |-> w.pos, len |-> w.len]

(* The second access of the write in work is still to be commanded. *)
Splits == wrState = "evalSecond" \/ (wrState = "first" /\ ~dropping /\ breakdown)

(* The accesses in work: those of cp, from d to c, the first of which began at s; then perhaps a   *)
(* second one, to m; then the writes to do.                                                        *)
InWork(cp, q, s, d, c, m) ==
  /\ Chain(cp, d, c)
  /\ IF Len(cp) = 0 THEN s = d ELSE s <= d /\ Ends(notices, s, End(cp[1]))
  /\ \A i \in 2 .. Len(cp) : Ends(notices, cp[i].pos, End(cp[i]))
  /\ IF Splits THEN m = c + wrCmd.len /\ Ends(notices, c, m) ELSE m = c
  /\ wrState = "evalSecond" => q = c
  /\ Queued(m)
  /\ \A i \in 1 .. Len(pushMeta) : ~pushMeta[i].drop => IsNotice(pushMeta[i])

(* The accesses that are done and not yet made known: ap, from told to s, each with its status. *)
Reported(ap, s) ==
  /\ ap \in Seq(Part) /\ Chain(ap, told, s)
  /\ \A i \in 1 .. Len(ap) : Ends(notices, ap[i].pos, End(ap[i]))
  /\ Len(ap) = Len(tashState) + Len(wrStatus)
  /\ \A i \in 1 .. Len(wrStatus) : wrStatus[i]
  /\ tashState # <<>> => tashState = <<TRUE>> /\ notices # <<>> /\ Passes(notices[1])
  /\ Chain(notices, told, written)

(* doubleAccess is about the first notices, the others are still in pushMeta. *)
Counted ==
  side = "rx" =>
    /\ Len(notices) = Len(doubleAccess) + Len(pushMeta)
    /\ \A i \in 1 .. Len(doubleAccess) : doubleAccess[i] = Passes(notices[i])
    /\ \A i \in 1 .. Len(pushMeta) :
         ~pushMeta[i].drop /\ notices[Len(doubleAccess) + i] = [pos |-> pushMeta[i].pos, len |-> pushMeta[i].len]

(* What is written, up to d: in its place where it is not free and less than a lap behind what is  *)
(* accepted, and perhaps with bytes of a later lap elsewhere.                                      *)
Later(byte, pos) == byte >= pos /\ Addr(byte) = Addr(pos)
InMemory(start, d) ==
  /\ start \in Nat /\ start <= freed
  /\ \A pos \in freed .. d - 1 : written <= pos + B => memory[Addr(pos)] = pos
  /\ \A pos \in start .. d - 1 : Later(memory[Addr(pos)], pos)

Placed(cp, q, ap, s, d, c, m, start) ==
  /\ s \in Int /\ d \in Int /\ c \in Int /\ m \in Int
  /\ Ordered /\ InWork(cp, q, s, d, c, m) /\ Reported(ap, s) /\ Counted /\ InMemory(start, d)

LEMMA InWorkSame ==
  ASSUME NEW cp, NEW q, NEW s, NEW d, NEW c, NEW m, InWork(cp, q, s, d, c, m),
         UNCHANGED <<wrState, dropping, breakdown, wrCmd, pushMeta, notices, written>>
  PROVE  InWork(cp, q, s, d, c, m)'
<1>1. Splits' <=> Splits BY DEF Splits
<1>2. Queued(m)' BY DEF Queued, InWork, Extent
<1>3. \A i \in 1 .. Len(pushMeta') : ~pushMeta'[i].drop => IsNotice(pushMeta[i])' BY DEF InWork, IsNotice
<1> QED BY <1>1, <1>2, <1>3 DEF InWork, Ends, Chain, Within, Passes, PassesEnd, Wrap, Addr

LEMMA ReportedSame ==
  ASSUME NEW ap, NEW s, Reported(ap, s), UNCHANGED <<told, tashState, wrStatus, notices, written>>
  PROVE  Reported(ap, s)'
BY DEF Reported, Ends, Chain, Within, Passes, PassesEnd, Wrap, Addr

LEMMA CountedSame ==
  ASSUME Counted, UNCHANGED <<side, notices, doubleAccess, pushMeta>>
  PROVE  Counted'
BY DEF Counted, Passes, PassesEnd, Addr

LEMMA InMemorySame ==
  ASSUME NEW start, NEW d, InMemory(start, d), UNCHANGED <<freed, memory>>,
         written \in Nat, written' \in Nat, written <= written', freed \in Nat, d \in Int
  PROVE  InMemory(start, d)'
<1>1. ASSUME NEW pos \in freed .. d - 1, written' <= pos + B PROVE memory[Addr(pos)] = pos
  <2>1. pos \in Int /\ B \in Nat BY RingAssumption
  <2>2. written <= pos + B BY <1>1, <2>1
  <2> QED BY <2>2 DEF InMemory
<1> QED BY <1>1 DEF InMemory, Later, Addr

(* The positions in their order. *)
LEMMA PlacesInOrder ==
  ASSUME TellTypes, written \in Nat, NEW cp \in Seq(Part), NEW q, NEW ap, NEW s, NEW d, NEW c, NEW m, NEW start, Placed(cp, q, ap, s, d, c, m, start)
  PROVE  /\ freed <= requested /\ requested <= told /\ told <= s /\ s <= d /\ d <= c /\ c <= m /\ m <= written
         /\ cp # <<>> => End(cp[1]) <= written
<1>1. told \in Int /\ s \in Int /\ d \in Int /\ c \in Int /\ m \in Int /\ written \in Int /\ notices \in Seq(Notice) /\ Chain(notices, told, written)
  BY DEF TellTypes, Placed, Reported
<1>2. freed <= requested /\ requested <= told BY DEF Placed, Ordered
<1>3. told <= s /\ d <= c BY DEF Placed, Reported, InWork, Chain
<1>4. s <= d BY <1>1 DEF Placed, InWork
<1>5. c <= m
  <2>1. CASE Splits
    <3>1. Ends(notices, c, m) BY <2>1 DEF Placed, InWork
    <3>2. c < m BY ONLY <3>1, <1>1, EndsAre
    <3> QED BY ONLY <3>2, <1>1
  <2>2. CASE ~Splits
    <3>1. m = c BY <2>2 DEF Placed, InWork
    <3> QED BY ONLY <3>1, <1>1
  <2> QED BY <2>1, <2>2
<1>6. m <= written BY DEF Placed, InWork, Queued
<1>7. ASSUME cp # <<>> PROVE End(cp[1]) <= written
  <2>1. Len(cp) # 0 BY <1>7, EmptyIs
  <2>2. Ends(notices, s, End(cp[1])) BY <2>1 DEF Placed, InWork
  <2> QED BY <2>2, <1>1, EndsAre
<1> QED BY <1>2, <1>3, <1>4, <1>5, <1>6, <1>7

LEMMA MetaIs ==
  ASSUME NEW q \in Seq(Meta)
  PROVE  /\ Len(q) \in Nat
         /\ \A i \in 1 .. Len(q) : /\ q[i] \in Meta /\ q[i].pos \in Int /\ q[i].len \in Nat /\ q[i].len >= 1
                                   /\ Extent(q[i]) \in Nat /\ q[i].pos + Extent(q[i]) \in Int
<1>1. Len(q) \in Nat /\ \A i \in 1 .. Len(q) : q[i] \in Meta BY EmptyIs, ElementIs
<1>2. \A w \in Meta : w.pos \in Int /\ w.len \in Nat /\ w.len >= 1 BY RingAssumption DEF Meta
<1>3. \A w \in Meta : Extent(w) \in Nat BY <1>2 DEF Extent
<1> QED BY <1>1, <1>2, <1>3

LEMMA QueuedTail ==
  ASSUME pushMeta \in Seq(Meta), pushMeta # <<>>, NEW from \in Int, written \in Int, Queued(from), NEW w, w = pushMeta[1],
         pushMeta' = Tail(pushMeta), UNCHANGED written
  PROVE  w \in Meta /\ w.pos = from /\ from + Extent(w) \in Int /\ Queued(from + Extent(w))'
<1> DEFINE n == Len(pushMeta)
           t == Tail(pushMeta)
           E(i) == pushMeta[i].pos + Extent(pushMeta[i])
<1>1. n \in Nat /\ n >= 1 /\ Len(t) = n - 1 /\ \A k \in 1 .. n - 1 : t[k] = pushMeta[k + 1] BY TailIs
<1>2. \A i \in 1 .. n : pushMeta[i] \in Meta /\ pushMeta[i].pos \in Int /\ E(i) \in Int BY MetaIs
<1>3. 1 \in 1 .. n BY <1>1
<1>4. w \in Meta /\ w.pos = from /\ E(1) = from + Extent(w) /\ E(1) <= written BY <1>1, <1>2, <1>3 DEF Queued
<1>5. PICK f : f = from + Extent(w) OBVIOUS
<1> HIDE DEF t
<1>6. IF Len(t) = 0 THEN f = written ELSE t[1].pos = f /\ t[Len(t)].pos + Extent(t[Len(t)]) = written
  <2>1. CASE n = 1 BY <2>1, <1>1, <1>4, <1>5 DEF Queued
  <2>2. CASE n # 1
    <3>1. 1 \in 1 .. n - 1 /\ n - 1 \in 1 .. n - 1 BY <2>2, <1>1
    <3>2. t[1] = pushMeta[2] /\ t[n - 1] = pushMeta[n] BY <3>1, <1>1
    <3>3. pushMeta[2].pos = E(1) BY <3>1 DEF Queued
    <3> QED BY <3>2, <3>3, <2>2, <1>1, <1>4, <1>5 DEF Queued
  <2> QED BY <2>1, <2>2
<1>7. ASSUME NEW i \in 1 .. Len(t) - 1 PROVE t[i + 1].pos = t[i].pos + Extent(t[i])
  <2>1. i + 1 \in 1 .. n - 1 /\ i \in 1 .. n - 1 BY <1>1
  <2> QED BY <2>1, <1>1 DEF Queued
<1>8. ASSUME NEW i \in 1 .. Len(t) PROVE f <= t[i].pos /\ t[i].pos + Extent(t[i]) <= written
  <2>1. i + 1 \in 1 .. n /\ i \in 1 .. n - 1 /\ 1 < i + 1 BY <1>1
  <2>2. E(1) <= pushMeta[i + 1].pos BY <2>1, <1>3 DEF Queued
  <2> QED BY <2>1, <2>2, <1>1, <1>4, <1>5 DEF Queued
<1>9. ASSUME NEW i \in 1 .. Len(t), NEW j \in 1 .. Len(t), i < j PROVE t[i].pos + Extent(t[i]) <= t[j].pos
  <2>1. i + 1 \in 1 .. n /\ j + 1 \in 1 .. n /\ i \in 1 .. n - 1 /\ j \in 1 .. n - 1 /\ i + 1 < j + 1 BY <1>1, <1>9
  <2> QED BY <2>1, <1>1 DEF Queued
<1>10. f <= written /\ f \in Int BY <1>2, <1>3, <1>4, <1>5
<1>11. pushMeta' = t /\ written' = written BY DEF t
<1>12. Queued(f)' BY <1>6, <1>7, <1>8, <1>9, <1>10, <1>11 DEF Queued, Extent
<1> QED BY <1>4, <1>5, <1>10, <1>12

LEMMA QueuedAppend ==
  ASSUME pushMeta \in Seq(Meta), NEW from \in Int, written \in Int, Queued(from), NEW w \in Meta, w.pos = written,
         pushMeta' = Append(pushMeta, w), written' = written + Extent(w)
  PROVE  Queued(from)'
<1> DEFINE n == Len(pushMeta)
           u == Append(pushMeta, w)
           E(i) == pushMeta[i].pos + Extent(pushMeta[i])
<1>1. n \in Nat /\ Len(u) = n + 1 /\ u[n + 1] = w /\ \A k \in 1 .. n : u[k] = pushMeta[k] BY AppendIs
<1>2. \A i \in 1 .. n : pushMeta[i] \in Meta /\ pushMeta[i].pos \in Int /\ E(i) \in Int BY MetaIs
<1>3. Extent(w) \in Nat BY RingAssumption DEF Meta, Extent
<1>4. PICK x : x = written + Extent(w) OBVIOUS
<1>5. from <= written /\ written <= x /\ x \in Int BY <1>3, <1>4 DEF Queued
<1> HIDE DEF u
<1>6. IF Len(u) = 0 THEN from = x ELSE u[1].pos = from /\ u[Len(u)].pos + Extent(u[Len(u)]) = x
  <2>1. CASE n = 0 BY <2>1, <1>1, <1>4 DEF Queued
  <2>2. CASE n # 0
    <3>1. 1 \in 1 .. n BY <2>2, <1>1
    <3> QED BY <3>1, <2>2, <1>1, <1>4 DEF Queued
  <2> QED BY <2>1, <2>2
<1>7. ASSUME NEW i \in 1 .. Len(u) - 1 PROVE u[i + 1].pos = u[i].pos + Extent(u[i])
  <2>1. i \in 1 .. n BY <1>1
  <2>2. CASE i = n BY <2>1, <2>2, <1>1 DEF Queued
  <2>3. CASE i # n
    <3>1. i \in 1 .. n - 1 /\ i + 1 \in 1 .. n BY <2>1, <2>3, <1>1
    <3> QED BY <3>1, <2>1, <1>1 DEF Queued
  <2> QED BY <2>2, <2>3
<1>8. ASSUME NEW i \in 1 .. Len(u) PROVE from <= u[i].pos /\ u[i].pos + Extent(u[i]) <= x
  <2>1. CASE i = n + 1 BY <2>1, <1>1, <1>4, <1>5
  <2>2. CASE i # n + 1
    <3>1. i \in 1 .. n BY <2>2, <1>1
    <3>2. from <= pushMeta[i].pos /\ E(i) <= written /\ u[i] = pushMeta[i] BY <3>1, <1>1 DEF Queued
    <3> QED BY <3>1, <3>2, <1>2, <1>5
  <2> QED BY <2>1, <2>2
<1>9. ASSUME NEW i \in 1 .. Len(u), NEW j \in 1 .. Len(u), i < j PROVE u[i].pos + Extent(u[i]) <= u[j].pos
  <2>1. i \in 1 .. n BY <1>1, <1>9
  <2>2. u[i] = pushMeta[i] /\ E(i) <= written BY <2>1, <1>1 DEF Queued
  <2>3. CASE j = n + 1 BY <2>2, <2>3, <1>1
  <2>4. CASE j # n + 1
    <3>1. j \in 1 .. n BY <2>4, <1>1
    <3> QED BY <3>1, <2>1, <2>2, <1>1, <1>9 DEF Queued
  <2> QED BY <2>3, <2>4
<1>10. from <= x BY <1>5
<1>11. pushMeta' = u /\ written' = x BY <1>4 DEF u
<1> QED BY <1>6, <1>7, <1>8, <1>9, <1>10, <1>11 DEF Queued, Extent

(* A write is taken: its first access, or the only one, is commanded. *)
LEMMA IdlePlaced ==
  ASSUME WriterTypes, TellTypes, NEW cp \in Seq(Part), NEW q, NEW s \in Int, NEW d \in Int, NEW c \in Int, NEW m \in Int, InWork(cp, q, s, d, c, m),
         WriteIdle, ~Head(pushMeta).drop, UNCHANGED <<written, notices>>, Chain(notices, told, written),
         NEW p \in Part, p = [pos |-> Head(pushMeta).pos, len |-> IF PassesEnd(Addr(Head(pushMeta).pos), Head(pushMeta).len)
                                                         THEN B - Addr(Head(pushMeta).pos) ELSE Head(pushMeta).len]
  PROVE  \E e \in Int, f \in Int : InWork(Append(cp, p), q, s, d, e, f)'
<1> DEFINE ap == Append(cp, p)
<1>1. PICK x : x = pushMeta[1] OBVIOUS
<1>2. x = Head(pushMeta) /\ pushMeta # <<>> /\ pushMeta \in Seq(Meta) /\ Len(pushMeta) \in Nat /\ Len(pushMeta) >= 1
      /\ Len(Tail(pushMeta)) = Len(pushMeta) - 1 /\ \A k \in 1 .. Len(pushMeta) - 1 : Tail(pushMeta)[k] = pushMeta[k + 1]
  BY <1>1, TailIs DEF WriteIdle, WriterTypes
<1>3. pushMeta' = Tail(pushMeta) /\ wrState = "idle" /\ wrState' = "first" /\ dropping' = FALSE BY DEF WriteIdle
<1>4. breakdown' = Passes(x) /\ wrCmd' = [addr |-> Addr(x.pos), len |-> IF Passes(x) THEN x.len - (B - Addr(x.pos)) ELSE x.len]
  BY <1>2 DEF WriteIdle, Passes
<1>5. m = c /\ Queued(m) BY <1>3 DEF InWork, Splits
<1>6. x \in Meta /\ x.pos = m /\ m + Extent(x) \in Int /\ Queued(m + Extent(x))'
  <2>1. m \in Int /\ written \in Int /\ Queued(m) BY <1>5 DEF WriterTypes
  <2>2. pushMeta \in Seq(Meta) /\ pushMeta # <<>> /\ pushMeta' = Tail(pushMeta) BY <1>2, <1>3
  <2> QED BY <2>1, <2>2, <1>1, QueuedTail
<1>7. Extent(x) = x.len BY <1>2 DEF Extent
<1>8. PICK j \in 1 .. Len(notices) : notices[j] = [pos |-> x.pos, len |-> x.len]
  <2>1. 1 \in 1 .. Len(pushMeta) BY <1>2
  <2> QED BY <2>1, <1>1, <1>2 DEF InWork, IsNotice
<1>9. PICK w : w = notices[j] OBVIOUS
<1>10. w \in Notice /\ w.pos = x.pos /\ w.len = x.len
  <2>1. notices \in Seq(Notice) BY DEF TellTypes
  <2> QED BY <2>1, <1>8, <1>9, NoticesAreParts
<1>11. (Passes(x) <=> Passes(w)) /\ Wrap(w) = x.pos + (B - Addr(x.pos)) /\ End(w) = x.pos + x.len BY <1>10 DEF Passes, Wrap, End
<1>12. p.pos = c /\ End(p) = IF Passes(w) THEN Wrap(w) ELSE End(w)
  <2>1. p.pos = x.pos /\ p.len = IF Passes(x) THEN B - Addr(x.pos) ELSE x.len BY <1>2 DEF Passes
  <2> QED BY <2>1, <1>5, <1>6, <1>11 DEF End
<1>13. Within(w, c, End(p)) /\ (Passes(w) => Within(w, Wrap(w), End(w)))
  <2>1. w.pos = c BY <1>5, <1>6, <1>10
  <2>2. /\ w.pos \in Nat /\ End(w) \in Nat /\ Wrap(w) \in Nat /\ w.pos < Wrap(w) /\ Passes(w) \in BOOLEAN
        /\ (Passes(w) <=> Wrap(w) < End(w)) /\ w.pos < End(w)
    <3>1. w \in Notice BY <1>10
    <3>2. w.pos \in Nat /\ w.len \in Nat /\ w.len >= 1 /\ End(w) = w.pos + w.len BY <3>1, NoticeIs
    <3>3. w.pos < End(w) BY <3>2
    <3> QED BY <3>1, <3>3, NoticeIs
  <2>3. Within(w, c, End(p)) BY <2>1, <2>2, <1>12 DEF Within
  <2>4. Passes(w) => Within(w, Wrap(w), End(w)) BY <2>2 DEF Within
  <2> QED BY <2>3, <2>4
<1>14. Chain(ap, d, End(p)) /\ End(p) \in Int BY <1>12, ChainAppend DEF InWork
<1>15. PICK e : e = End(p) OBVIOUS
<1>16. PICK f : f = m + Extent(x) OBVIOUS
<1>17. Ends(notices, c, e) /\ (Passes(w) => Ends(notices, e, f))
  <2>1. f = End(w) BY <1>6, <1>7, <1>11, <1>16
  <2> QED BY <2>1, <1>9, <1>12, <1>13, <1>15 DEF Ends
<1>18. Len(cp) \in Nat /\ Len(ap) = Len(cp) + 1 /\ ap[Len(cp) + 1] = p /\ \A k \in 1 .. Len(cp) : ap[k] = cp[k] BY AppendIs
<1> HIDE DEF ap
<1>19. IF Len(ap) = 0 THEN s = d ELSE s <= d /\ Ends(notices, s, End(ap[1]))
  <2>1. CASE Len(cp) = 0
    <3>1. s = d /\ d = c BY <2>1 DEF InWork, Chain
    <3> QED BY <3>1, <2>1, <1>15, <1>17, <1>18
  <2>2. CASE Len(cp) # 0
    <3>1. 1 \in 1 .. Len(cp) BY <2>2, <1>18
    <3> QED BY <3>1, <2>2, <1>18 DEF InWork
  <2> QED BY <2>1, <2>2
<1>20. ASSUME NEW i \in 2 .. Len(ap) PROVE Ends(notices, ap[i].pos, End(ap[i]))
  <2>1. CASE i = Len(cp) + 1 BY <2>1, <1>12, <1>15, <1>17, <1>18
  <2>2. CASE i # Len(cp) + 1
    <3>1. i \in 2 .. Len(cp) /\ i \in 1 .. Len(cp) BY <2>2, <1>18
    <3> QED BY <3>1, <1>18 DEF InWork
  <2> QED BY <2>1, <2>2
<1>21. IF Passes(x) THEN f = e + wrCmd'.len ELSE f = e
  <2>1. wrCmd'.len = IF Passes(x) THEN x.len - (B - Addr(x.pos)) ELSE x.len BY <1>4
  <2>5. x.pos \in Int /\ x.len \in Int BY <1>10, NoticeIs
  <2>6. \A pos \in Int : Addr(pos) \in Int /\ B \in Int BY AddrIs
  <2>2. x.len \in Int /\ Addr(x.pos) \in Int /\ B \in Int /\ x.pos \in Int BY <2>5, <2>6
  <2>3. e = IF Passes(x) THEN x.pos + (B - Addr(x.pos)) ELSE x.pos + x.len BY <1>11, <1>12, <1>15
  <2>4. f = x.pos + x.len BY <1>6, <1>7, <1>16
  <2>7. \A u, v, l, o \in Int : u + v = (u + (o - l)) + (v - (o - l)) OBVIOUS
  <2>8. x.pos + x.len = (x.pos + (B - Addr(x.pos))) + (x.len - (B - Addr(x.pos))) BY <2>2, <2>7
  <2>9. CASE Passes(x) BY <2>1, <2>3, <2>4, <2>8, <2>9
  <2>10. CASE ~Passes(x) BY <2>3, <2>4, <2>10
  <2> QED BY <2>9, <2>10
<1>22. Splits' <=> Passes(x) BY <1>3, <1>4 DEF Splits
<1>23. ASSUME NEW i \in 1 .. Len(pushMeta'), ~pushMeta'[i].drop PROVE IsNotice(pushMeta[i])'
  <2>1. i + 1 \in 1 .. Len(pushMeta) /\ pushMeta'[i] = pushMeta[i + 1] BY <1>2, <1>3
  <2> QED BY <2>1, <1>23 DEF InWork, IsNotice
<1>24. Chain(ap, d, e) /\ e \in Int /\ f \in Int BY <1>6, <1>14, <1>15, <1>16
<1>25. IF Splits' THEN f = e + wrCmd'.len /\ Ends(notices, e, f) ELSE f = e BY <1>11, <1>17, <1>21, <1>22
<1>26. Queued(f)' BY <1>6, <1>16
<1>27. wrState' # "evalSecond" BY <1>3
<1>28. notices' = notices OBVIOUS
<1>29. InWork(ap, q, s, d, e, f)' BY <1>19, <1>20, <1>23, <1>24, <1>25, <1>26, <1>27, <1>28 DEF InWork, Ends, Chain, Within, Passes, PassesEnd, Wrap, Addr
<1> QED BY <1>24, <1>29 DEF ap

(* A write is dropped. *)
LEMMA DropPlaced ==
  ASSUME WriterTypes, NEW cp, NEW q, NEW s, NEW d, NEW c, NEW m \in Int, InWork(cp, q, s, d, c, m),
         WriteIdle, Head(pushMeta).drop, UNCHANGED <<written, notices>>
  PROVE  InWork(cp, q, s, d, c, m)'
<1>1. PICK x : x = pushMeta[1] OBVIOUS
<1>2. x = Head(pushMeta) /\ pushMeta # <<>> /\ pushMeta \in Seq(Meta) /\ Len(pushMeta) \in Nat /\ Len(pushMeta) >= 1
      /\ Len(Tail(pushMeta)) = Len(pushMeta) - 1 /\ \A k \in 1 .. Len(pushMeta) - 1 : Tail(pushMeta)[k] = pushMeta[k + 1]
  BY <1>1, TailIs DEF WriteIdle, WriterTypes
<1>3. pushMeta' = Tail(pushMeta) /\ wrState = "idle" /\ wrState' = "first" /\ dropping' = TRUE BY DEF WriteIdle
<1>5. m = c /\ Queued(m) BY <1>3 DEF InWork, Splits
<1>6. Queued(m + Extent(x))' BY <1>1, <1>2, <1>3, <1>5, QueuedTail DEF WriterTypes
<1>7. m + Extent(x) = m BY <1>2 DEF Extent
<1>8. Queued(m)' BY <1>6, <1>7 DEF Queued, Extent
<1>22. ~Splits' BY <1>3 DEF Splits
<1>23. ASSUME NEW i \in 1 .. Len(pushMeta'), ~pushMeta'[i].drop PROVE IsNotice(pushMeta[i])'
  <2>1. i + 1 \in 1 .. Len(pushMeta) /\ pushMeta'[i] = pushMeta[i + 1] BY <1>2, <1>3
  <2> QED BY <2>1, <1>23 DEF InWork, IsNotice
<1>27. wrState' # "evalSecond" BY <1>3
<1>28. notices' = notices OBVIOUS
<1> QED BY <1>5, <1>8, <1>22, <1>23, <1>27, <1>28 DEF InWork, Ends, Chain, Within, Passes, PassesEnd, Wrap, Addr

(* What does not command an access leaves them in place. *)
LEMMA MovesPlaced ==
  ASSUME NEW cp, NEW q, NEW s, NEW d, NEW c, NEW m, InWork(cp, q, s, d, c, m), NEW r,
         Splits' <=> Splits, wrState' = "evalSecond" => r = c, UNCHANGED <<wrCmd, pushMeta, written, notices>>
  PROVE  InWork(cp, r, s, d, c, m)'
<1>2. Queued(m)' BY DEF Queued, InWork, Extent
<1>3. \A i \in 1 .. Len(pushMeta') : ~pushMeta'[i].drop => IsNotice(pushMeta[i])' BY DEF InWork, IsNotice
<1> QED BY <1>2, <1>3 DEF InWork, Ends, Chain, Within, Passes, PassesEnd, Wrap, Addr

LEMMA FirstPlaced ==
  ASSUME NEW cp, NEW q, NEW s, NEW d, NEW c, NEW m, InWork(cp, q, s, d, c, m), cp # <<>>, cp \in Seq(Part),
         WriteFirst, breakdown \in BOOLEAN, UNCHANGED <<written, notices>>, NEW r, r = LastEnd(cp)
  PROVE  InWork(cp, r, s, d, c, m)'
<1>1. wrState = "first" /\ ~dropping /\ UNCHANGED <<wrCmd, pushMeta, breakdown, dropping>> BY DEF WriteFirst
<1>2. wrState' = IF ~(breakTemp <= W) THEN "first" ELSE IF breakdown THEN "evalSecond" ELSE "idle" BY DEF WriteFirst
<1>3. Splits' <=> Splits BY <1>1, <1>2 DEF Splits
<1>4. r = c BY EmptyIs DEF InWork, Chain, LastEnd
<1> QED BY <1>1, <1>3, <1>4, MovesPlaced

(* The second access is commanded. *)
LEMMA EvalPlaced ==
  ASSUME TellTypes, NEW cp \in Seq(Part), NEW q, NEW s, NEW d \in Int, NEW c \in Int, NEW m \in Int, InWork(cp, q, s, d, c, m),
         EvalSecond, UNCHANGED <<written, notices>>, NEW p \in Part, p = [pos |-> q, len |-> wrCmd.len]
  PROVE  InWork(Append(cp, p), q, s, d, m, m)'
<1> DEFINE ap == Append(cp, p)
<1>1. wrState = "evalSecond" /\ wrState' # "evalSecond" /\ wrState' # "first" /\ pushMeta' = pushMeta BY DEF EvalSecond
<1>2. q = c /\ m = c + wrCmd.len /\ Ends(notices, c, m) BY <1>1 DEF InWork, Splits
<1>3. p.pos = c /\ End(p) = m BY <1>2 DEF End
<1>4. Chain(ap, d, m) BY <1>3, ChainAppend DEF InWork
<1>18. Len(cp) \in Nat /\ Len(ap) = Len(cp) + 1 /\ ap[Len(cp) + 1] = p /\ \A k \in 1 .. Len(cp) : ap[k] = cp[k] BY AppendIs
<1> HIDE DEF ap
<1>19. IF Len(ap) = 0 THEN s = d ELSE s <= d /\ Ends(notices, s, End(ap[1]))
  <2>1. CASE Len(cp) = 0
    <3>1. s = d /\ d = c BY <2>1 DEF InWork, Chain
    <3> QED BY <3>1, <2>1, <1>2, <1>3, <1>18
  <2>2. CASE Len(cp) # 0
    <3>1. 1 \in 1 .. Len(cp) BY <2>2, <1>18
    <3> QED BY <3>1, <2>2, <1>18 DEF InWork
  <2> QED BY <2>1, <2>2
<1>20. ASSUME NEW i \in 2 .. Len(ap) PROVE Ends(notices, ap[i].pos, End(ap[i]))
  <2>1. CASE i = Len(cp) + 1 BY <2>1, <1>2, <1>3, <1>18
  <2>2. CASE i # Len(cp) + 1
    <3>1. i \in 2 .. Len(cp) /\ i \in 1 .. Len(cp) BY <2>2, <1>18
    <3> QED BY <3>1, <1>18 DEF InWork
  <2> QED BY <2>1, <2>2
<1>21. ~Splits' BY <1>1 DEF Splits
<1>22. Queued(m)' BY <1>1 DEF Queued, InWork, Extent
<1>23. \A i \in 1 .. Len(pushMeta') : ~pushMeta'[i].drop => IsNotice(pushMeta[i])' BY <1>1 DEF InWork, IsNotice
<1>28. notices' = notices OBVIOUS
<1>29. InWork(ap, q, s, d, m, m)'
  BY <1>1, <1>4, <1>19, <1>20, <1>21, <1>22, <1>23, <1>28 DEF InWork, Ends, Chain, Within, Passes, PassesEnd, Wrap, Addr
<1> QED BY <1>29 DEF ap

(* doubleAccess when a write is taken. *)
LEMMA IdleCounted ==
  ASSUME WriterTypes, TellTypes, Counted, WriteIdle, UNCHANGED <<side, notices>>
  PROVE  (side = "rx" => ~Head(pushMeta).drop) /\ Counted' /\ doubleAccess' \in Seq(BOOLEAN)
<1>2. pushMeta # <<>> /\ pushMeta \in Seq(Meta) /\ Len(pushMeta) \in Nat /\ Len(pushMeta) >= 1 /\ Head(pushMeta) = pushMeta[1]
      /\ Len(Tail(pushMeta)) = Len(pushMeta) - 1 /\ \A k \in 1 .. Len(pushMeta) - 1 : Tail(pushMeta)[k] = pushMeta[k + 1]
  BY TailIs DEF WriteIdle, WriterTypes
<1>3. pushMeta' = Tail(pushMeta) BY DEF WriteIdle
<1>4. CASE side # "rx"
  <2>1. doubleAccess' = doubleAccess BY <1>4 DEF WriteIdle
  <2> QED BY <2>1, <1>4 DEF Counted, TellTypes
<1>5. CASE side = "rx"
  <2>1. 1 \in 1 .. Len(pushMeta) BY <1>2
  <2>2. ~Head(pushMeta).drop BY <2>1, <1>2, <1>5 DEF Counted
  <2>3. PICK b : b = PassesEnd(Addr(Head(pushMeta).pos), Head(pushMeta).len) OBVIOUS
  <2>4. b \in BOOLEAN BY <2>3 DEF PassesEnd
  <2>5. doubleAccess' = Append(doubleAccess, b) BY <2>2, <2>3, <1>5 DEF WriteIdle
  <2> DEFINE k == Len(doubleAccess)
             u == Append(doubleAccess, b)
  <2>6. k \in Nat /\ u \in Seq(BOOLEAN) /\ Len(u) = k + 1 /\ u[k + 1] = b /\ \A i \in 1 .. k : u[i] = doubleAccess[i]
    BY <2>4, AppendIs DEF TellTypes
  <2> HIDE DEF u
  <2>7. notices[k + 1] = [pos |-> pushMeta[1].pos, len |-> pushMeta[1].len] BY <2>1, <1>5 DEF Counted
  <2>8. b = Passes(notices[k + 1]) BY <2>3, <2>7, <1>2 DEF Passes
  <2>14. Len(notices) = k + Len(pushMeta) BY <1>5 DEF Counted
  <2>9. Len(notices) = Len(u) + Len(Tail(pushMeta)) BY <2>6, <2>14, <1>2
  <2>10. \A i \in 1 .. Len(u) : u[i] = Passes(notices[i])
    <3> TAKE i \in 1 .. Len(u)
    <3>1. i = k + 1 \/ i \in 1 .. k BY <2>6
    <3> QED BY <3>1, <2>6, <2>8, <1>5 DEF Counted
  <2>11. \A i \in 1 .. Len(Tail(pushMeta)) :
           ~Tail(pushMeta)[i].drop /\ notices[Len(u) + i] = [pos |-> Tail(pushMeta)[i].pos, len |-> Tail(pushMeta)[i].len]
    <3> TAKE i \in 1 .. Len(Tail(pushMeta))
    <3>1. i + 1 \in 1 .. Len(pushMeta) /\ i \in 1 .. Len(pushMeta) - 1 BY <1>2
    <3>2. Len(u) + i = k + (i + 1) BY <2>6, <3>1, <1>2
    <3>3. ~pushMeta[i + 1].drop /\ notices[k + (i + 1)] = [pos |-> pushMeta[i + 1].pos, len |-> pushMeta[i + 1].len]
      BY <3>1, <1>5 DEF Counted
    <3> QED BY <3>1, <3>2, <3>3, <1>2
  <2>12. doubleAccess' = u BY <2>5 DEF u
  <2>13. Counted' BY <2>9, <2>10, <2>11, <2>12, <1>3 DEF Counted, Passes, PassesEnd, Addr
  <2> QED BY <2>2, <2>6, <2>12, <2>13
<1> QED BY <1>4, <1>5

(* The memory takes a word: cp gets shorter, and the access may be done. *)
LEMMA TakesPlaced ==
  ASSUME TellTypes, NEW cp \in Seq(Part), cp # <<>>, NEW q, NEW s \in Int, NEW d \in Int, NEW c \in Int, NEW m, InWork(cp, q, s, d, c, m),
         NEW w \in Word, w.keep >= 1, w.keep <= cp[1].len, w.last <=> w.keep = cp[1].len,
         UNCHANGED <<fsmVars, pushMeta, written, notices>>, NEW e, e = d + w.keep
  PROVE  /\ InWork(Took(cp, w), q, IF w.last THEN e ELSE s, e, c, m)' /\ e \in Int /\ d = cp[1].pos /\ d < e /\ s < e
         /\ IF w.last THEN e = End(cp[1]) /\ Ends(notices, s, e) ELSE e < End(cp[1])
<1> DEFINE tk == Took(cp, w)
           t == IF w.last THEN e ELSE s
<1>1. UNCHANGED <<wrState, dropping, breakdown, wrCmd, pushMeta, written, notices>> BY DEF fsmVars
<1>2. Len(cp) \in Nat /\ Len(cp) >= 1 /\ 1 \in 1 .. Len(cp) BY EmptyIs
<1>3. cp[1] \in Part /\ cp[1].pos = d /\ Chain(Tail(cp), End(cp[1]), c) /\ End(cp[1]) \in Int BY ChainTail DEF InWork
<1>4. cp[1].len \in Nat /\ w.keep \in Nat /\ End(cp[1]) = d + cp[1].len BY <1>3, WordIs DEF Part, End
<1>5. tk \in Seq(Part)
      /\ (w.last => Len(tk) = Len(cp) - 1 /\ \A i \in 1 .. Len(cp) - 1 : tk[i] = cp[i + 1])
      /\ (~w.last => /\ Len(tk) = Len(cp)
                     /\ tk[1] = [pos |-> cp[1].pos + w.keep, len |-> cp[1].len - w.keep]
                     /\ End(tk[1]) = End(cp[1])
                     /\ \A i \in 2 .. Len(cp) : tk[i] = cp[i])
  BY <1>3, <1>4, TookIs
<1>6. s <= d /\ Ends(notices, s, End(cp[1])) /\ \A i \in 2 .. Len(cp) : Ends(notices, cp[i].pos, End(cp[i])) BY <1>2 DEF InWork
<1>7. e \in Int /\ d < e /\ s < e BY <1>4, <1>6
<1>8. IF w.last THEN e = End(cp[1]) /\ Ends(notices, s, e) ELSE e < End(cp[1])
  <2>1. CASE w.last BY <2>1, <1>4, <1>6
  <2>2. CASE ~w.last
    <3>1. w.keep # cp[1].len BY <2>2
    <3> QED BY <3>1, <2>2, <1>4
  <2> QED BY <2>1, <2>2
<1>9. Chain(tk, e, c)
  <2>1. CASE w.last
    <3>1. tk = Tail(cp) BY <2>1 DEF Took
    <3> QED BY <3>1, <2>1, <1>3, <1>8
  <2>2. CASE ~w.last
    <3>1. PICK p : p = [pos |-> cp[1].pos + w.keep, len |-> cp[1].len - w.keep] OBVIOUS
    <3>2. tk = [cp EXCEPT ![1] = p] BY <2>2, <3>1 DEF Took
    <3>3. p.pos = e /\ p = tk[1] BY <3>1, <2>2, <1>3, <1>5
    <3>4. p \in Part
      <4>1. 1 \in 1 .. Len(tk) BY <2>2, <1>2, <1>5
      <4> QED BY <4>1, <3>3, <1>5, ElementIs
    <3>5. d <= p.pos /\ End(p) = End(cp[1]) BY <3>3, <2>2, <1>5, <1>7
    <3>6. Chain([cp EXCEPT ![1] = p], p.pos, c) BY <3>4, <3>5, ChainShort DEF InWork
    <3> QED BY <3>2, <3>3, <3>6
  <2> QED BY <2>1, <2>2
<1> HIDE DEF tk
<1>10. IF Len(tk) = 0 THEN t = e ELSE t <= e /\ Ends(notices, t, End(tk[1]))
  <2>1. CASE w.last
    <3>1. CASE Len(cp) = 1 BY <3>1, <2>1, <1>5
    <3>2. CASE Len(cp) # 1
      <4>1. 2 \in 2 .. Len(cp) /\ 1 \in 1 .. Len(cp) - 1 /\ Len(tk) # 0 BY <3>2, <2>1, <1>2, <1>5
      <4>2. tk[1] = cp[2] BY <4>1, <2>1, <1>5
      <4>3. cp[2].pos = e
        <5>1. cp[1 + 1].pos = End(cp[1]) BY <4>1 DEF InWork, Chain
        <5> QED BY <5>1, <2>1, <1>8
      <4> QED BY <4>1, <4>2, <4>3, <2>1, <1>6, <1>7
    <3> QED BY <3>1, <3>2
  <2>2. CASE ~w.last BY <2>2, <1>2, <1>5, <1>6, <1>7
  <2> QED BY <2>1, <2>2
<1>11. ASSUME NEW i \in 2 .. Len(tk) PROVE Ends(notices, tk[i].pos, End(tk[i]))
  <2>1. CASE w.last
    <3>1. i \in 1 .. Len(cp) - 1 /\ i + 1 \in 2 .. Len(cp) BY <2>1, <1>2, <1>5
    <3> QED BY <3>1, <2>1, <1>5, <1>6
  <2>2. CASE ~w.last BY <2>2, <1>5, <1>6
  <2> QED BY <2>1, <2>2
<1>12. PICK v : v = t OBVIOUS
<1> HIDE DEF t
<1>13. InWork(tk, q, v, e, c, m)
  BY <1>9, <1>10, <1>11, <1>12 DEF InWork
<1>14. InWork(tk, q, v, e, c, m)' BY <1>1, <1>13, InWorkSame
<1> QED BY <1>3, <1>7, <1>8, <1>12, <1>14 DEF tk, t

(* An access is done, and reports it. *)
LEMMA ReportPlaced ==
  ASSUME TellTypes, NEW ap, NEW s \in Int, Reported(ap, s), NEW e \in Int, s < e, Ends(notices, s, e),
         wrStatus' = Append(wrStatus, TRUE), UNCHANGED <<told, tashState, notices, written>>, NEW p, p = [pos |-> s, len |-> e - s]
  PROVE  Reported(Append(ap, p), e)'
<1> DEFINE u == Append(ap, p)
           x == Append(wrStatus, TRUE)
<1>1. ap \in Seq(Part) /\ Chain(ap, told, s) /\ told \in Int BY DEF Reported, TellTypes
<1>2. e - s \in Nat \ {0} /\ s + (e - s) = e OBVIOUS
<1>3. p \in Part /\ p.pos = s /\ End(p) = e BY <1>2 DEF Part, End
<1>4. Chain(u, told, e) BY <1>1, <1>3, ChainAppend
<1>5. Len(ap) \in Nat /\ u \in Seq(Part) /\ Len(u) = Len(ap) + 1 /\ u[Len(ap) + 1] = p /\ \A k \in 1 .. Len(ap) : u[k] = ap[k] BY <1>1, <1>3, AppendIs
<1>6. Len(wrStatus) \in Nat /\ Len(x) = Len(wrStatus) + 1 /\ x[Len(wrStatus) + 1] = TRUE /\ \A k \in 1 .. Len(wrStatus) : x[k] = wrStatus[k]
  BY AppendIs DEF TellTypes
<1>7. Len(tashState) \in Nat BY EmptyIs DEF TellTypes
<1> HIDE DEF u, x
<1>8. ASSUME NEW i \in 1 .. Len(u) PROVE Ends(notices, u[i].pos, End(u[i]))
  <2>1. CASE i = Len(ap) + 1 BY <2>1, <1>3, <1>5
  <2>2. CASE i # Len(ap) + 1
    <3>1. i \in 1 .. Len(ap) BY <2>2, <1>5
    <3> QED BY <3>1, <1>5 DEF Reported
  <2> QED BY <2>1, <2>2
<1>9. Len(u) = Len(tashState) + Len(x) BY <1>5, <1>6, <1>7 DEF Reported
<1>10. ASSUME NEW i \in 1 .. Len(x) PROVE x[i]
  <2>1. CASE i = Len(wrStatus) + 1 BY <2>1, <1>6
  <2>2. CASE i # Len(wrStatus) + 1
    <3>1. i \in 1 .. Len(wrStatus) BY <2>2, <1>6
    <3> QED BY <3>1, <1>6 DEF Reported
  <2> QED BY <2>1, <2>2
<1>11. wrStatus' = x BY DEF x
<1>12. (tashState # <<>> => tashState = <<TRUE>> /\ notices # <<>> /\ Passes(notices[1])) /\ Chain(notices, told, written) BY DEF Reported
<1>13. Reported(u, e)' BY <1>4, <1>5, <1>8, <1>9, <1>10, <1>11, <1>12 DEF Reported, Ends, Chain, Within, Passes, PassesEnd, Wrap, Addr
<1> QED BY <1>13 DEF u

(* And the bytes are in place. *)
LEMMA AddrMoves ==
  ASSUME NEW pos \in Int, NEW b \in Nat, Addr(pos) + b < B
  PROVE  Addr(pos + b) = Addr(pos) + b
<1>1. Addr(pos) \in 0 .. B - 1 /\ B \in Nat \ {0} BY AddrIs, RingAssumption
<1>2. (pos % B) + b \in 0 .. B - 1 BY <1>1 DEF Addr
<1>3. (pos + b) % B = (pos % B) + b BY <1>1, <1>2, RemainderMoves
<1> QED BY <1>3 DEF Addr

LEMMA AddrDiffers ==
  ASSUME NEW pos \in Int, NEW x \in Int, pos < x, x < pos + B
  PROVE  Addr(x) # Addr(pos)
<1>1. B \in Nat \ {0} BY RingAssumption
<1>2. PICK k : k = x - pos OBVIOUS
<1>3. k \in Int /\ 0 < k /\ k < B /\ pos + k = x BY <1>1, <1>2
<1>4. (pos + k) % B # pos % B BY <1>1, <1>3, RemainderDiffers
<1> QED BY <1>3, <1>4 DEF Addr

LEMMA WritePlaced ==
  ASSUME TellTypes, NEW start, NEW d \in Int, InMemory(start, d), NEW c \in Cmd, Addr(d) = c.addr, c.addr + c.len <= B, freed <= d,
         NEW w \in Word, w.keep >= 1, w.keep <= c.len, \A b \in 0 .. w.keep - 1 : w.data[b] = d + b,
         memory' = [a \in DOMAIN memory |-> IF a \in c.addr .. c.addr + w.keep - 1 THEN w.data[a - c.addr] ELSE memory[a]],
         written \in Nat, d + w.keep <= written, UNCHANGED <<freed, written>>, NEW e, e = d + w.keep
  PROVE  InMemory(start, e)' /\ memory' \in [0 .. B - 1 -> Int]
<1>1. B \in Nat /\ B >= 1 /\ freed \in Nat /\ memory \in [0 .. B - 1 -> Int] /\ start \in Nat /\ start <= freed
  BY RingAssumption DEF TellTypes, InMemory
<1>2. c.addr \in 0 .. B - 1 /\ c.len \in 1 .. B /\ w.keep \in Nat /\ c.addr \in Int /\ c.len \in Int BY <1>1, WordIs DEF Cmd
<1>3. e \in Int /\ d < e BY <1>2
<1>9. PICK x : x = c.addr OBVIOUS
<1>10. PICK k : k = w.keep OBVIOUS
<1>11. x \in Nat /\ k \in Nat /\ x + k <= B
  <2>1. c.addr \in Nat /\ c.len \in Nat /\ w.keep \in Nat BY <1>1, <1>2
  <2>2. ASSUME NEW u \in Nat, NEW v \in Nat, NEW l \in Nat, v <= l, u + l <= B PROVE u + v <= B BY <2>2, <1>1
  <2>3. c.addr + w.keep <= B BY <2>1, <2>2
  <2> QED BY <2>1, <2>3, <1>9, <1>10
<1>12. \A a \in Int : a \in x .. x + k - 1 <=> a >= x /\ a - x \in 0 .. k - 1 BY <1>11
<1>4. ASSUME NEW b \in 0 .. w.keep - 1 PROVE Addr(d + b) = c.addr + b /\ c.addr + b \in 0 .. B - 1 /\ memory'[Addr(d + b)] = d + b
  <2>4. b \in Nat /\ x + b < B /\ x + b \in 0 .. B - 1 /\ x + b \in x .. x + k - 1 /\ (x + b) - x = b
    <3>1. b \in 0 .. k - 1 BY <1>10
    <3>2. ASSUME NEW v \in 0 .. k - 1 PROVE v \in Nat /\ x + v < B /\ x + v \in 0 .. B - 1 /\ x + v \in x .. x + k - 1 /\ (x + v) - x = v
      BY <1>1, <1>11
    <3> QED BY <3>1, <3>2
  <2>1. b \in Nat /\ Addr(d) + b < B BY <2>4, <1>9
  <2>2. Addr(d + b) = c.addr + b BY <2>1, AddrMoves
  <2>3. c.addr + b \in 0 .. B - 1 /\ c.addr + b \in c.addr .. c.addr + w.keep - 1 /\ (c.addr + b) - c.addr = b BY <2>4, <1>9, <1>10
  <2> QED BY <2>2, <2>3, <1>1
<1>5. ASSUME NEW pos \in Int, pos < d PROVE Addr(pos) \in 0 .. B - 1
        /\ \/ memory'[Addr(pos)] = memory[Addr(pos)]
           \/ \E b \in 0 .. w.keep - 1 : Addr(pos) = Addr(d + b) /\ memory'[Addr(pos)] = d + b
  <2>1. Addr(pos) \in 0 .. B - 1 BY AddrIs
  <2>2. CASE Addr(pos) \in c.addr .. c.addr + w.keep - 1
    <3>1. PICK b : b = Addr(pos) - c.addr OBVIOUS
    <3>2. b \in 0 .. w.keep - 1 /\ Addr(pos) = c.addr + b 
      <4>1. Addr(pos) \in Int BY AddrIs
      <4>2. Addr(pos) >= x /\ Addr(pos) - x \in 0 .. k - 1 BY <4>1, <2>2, <1>9, <1>10, <1>12
      <4> QED BY <4>1, <4>2, <3>1, <1>9, <1>10, <1>11
    <3> QED BY <3>2, <2>1, <1>4
  <2>3. CASE ~(Addr(pos) \in c.addr .. c.addr + w.keep - 1) BY <2>1, <2>3, <1>1
  <2> QED BY <2>1, <2>2, <2>3
<1>6. ASSUME NEW pos \in freed .. e - 1, written <= pos + B \/ d <= pos PROVE memory'[Addr(pos)] = pos
  <2>1. pos \in Int BY <1>1, <1>3
  <2>2. CASE d <= pos
    <3>1. PICK b : b = pos - d OBVIOUS
    <3>2. b \in 0 .. w.keep - 1 /\ pos = d + b BY <3>1, <2>1, <2>2, <1>2, <1>3
    <3> QED BY <3>2, <1>4
  <2>3. CASE pos < d
    <3>1. pos \in freed .. d - 1 /\ written <= pos + B BY <2>1, <2>3, <1>1, <1>6
    <3>2. memory[Addr(pos)] = pos BY <3>1 DEF InMemory
    <3>3. ASSUME NEW b \in 0 .. w.keep - 1, Addr(pos) = Addr(d + b) PROVE FALSE
      <4>1. b \in Int /\ 0 <= b /\ b < k BY <1>10, <1>11
      <4>2. written <= pos + B /\ d + k <= written BY <3>1, <1>10
      <4>3. \A v, x1, y1, z1, l, t \in Int :
              v < x1 /\ 0 <= y1 /\ y1 < z1 /\ x1 + z1 <= t /\ t <= v + l => x1 + y1 \in Int /\ v < x1 + y1 /\ x1 + y1 < v + l
        OBVIOUS
      <4>4. written \in Int /\ B \in Int /\ k \in Int BY <1>1, <1>11
      <4>5. d + b \in Int /\ pos < d + b /\ d + b < pos + B BY <4>1, <4>2, <4>3, <4>4, <2>1, <2>3
      <4> QED BY <4>5, <3>3, <2>1, AddrDiffers
    <3> QED BY <3>2, <3>3, <2>1, <2>3, <1>5
  <2> QED BY <2>1, <2>2, <2>3
<1>7. ASSUME NEW pos \in start .. e - 1 PROVE memory'[Addr(pos)] >= pos /\ Addr(memory'[Addr(pos)]) = Addr(pos)
  <2>1. pos \in Int BY <1>1, <1>3
  <2>2. CASE d <= pos
    <3>1. pos \in freed .. e - 1 BY <2>1, <2>2, <1>1, <1>3
    <3>2. memory'[Addr(pos)] = pos BY <3>1, <2>2, <1>6
    <3> QED BY <3>2, <2>1
  <2>3. CASE pos < d
    <3>1. pos \in start .. d - 1 BY <2>1, <2>3, <1>1
    <3>2. memory[Addr(pos)] >= pos /\ Addr(memory[Addr(pos)]) = Addr(pos) BY <3>1 DEF InMemory, Later
    <3>3. CASE memory'[Addr(pos)] = memory[Addr(pos)] BY <3>2, <3>3
    <3>4. ASSUME NEW b \in 0 .. w.keep - 1, Addr(pos) = Addr(d + b), memory'[Addr(pos)] = d + b
          PROVE  memory'[Addr(pos)] >= pos /\ Addr(memory'[Addr(pos)]) = Addr(pos)
      <4>1. d + b >= pos BY <2>1, <2>3, <1>2
      <4> QED BY <4>1, <3>4
    <3> QED BY <3>3, <3>4, <2>1, <2>3, <1>5
  <2> QED BY <2>1, <2>2, <2>3
<1>8. memory' \in [0 .. B - 1 -> Int]
  <2>1. ASSUME NEW a \in 0 .. B - 1 PROVE (IF a \in c.addr .. c.addr + w.keep - 1 THEN w.data[a - c.addr] ELSE memory[a]) \in Int
    <3>1. CASE a \in c.addr .. c.addr + w.keep - 1
      <4>1. a - c.addr \in 0 .. w.keep - 1 BY <3>1, <1>9, <1>10, <1>12
      <4>2. w.data[a - c.addr] = d + (a - c.addr) BY <4>1
      <4>3. d + (a - c.addr) \in Int
        <5>1. a \in Int /\ c.addr \in Int BY <1>2
        <5> QED BY <5>1
      <4> QED BY <4>2, <4>3, <3>1
    <3> QED BY <3>1, <1>1
  <2>2. DOMAIN memory = 0 .. B - 1 BY <1>1
  <2> QED BY <2>1, <2>2
<1> QED BY <1>1, <1>6, <1>7, <1>8 DEF InMemory, Later, Addr

----------------------------------------------------------------------------
(* What the application and the other engine do.                           *)

(* The notices may change in front of what is in work, and behind it. *)
LEMMA InWorkOther ==
  ASSUME NEW cp \in Seq(Part), NEW q, NEW s \in Int, NEW d \in Int, NEW c \in Int, NEW m, InWork(cp, q, s, d, c, m),
         \A p \in Int : \A b : s <= p /\ Ends(notices, p, b) => Ends(notices', p, b),
         UNCHANGED <<wrState, dropping, breakdown, wrCmd>>, Queued(m)',
         \A i \in 1 .. Len(pushMeta') : ~pushMeta'[i].drop => IsNotice(pushMeta[i])'
  PROVE  InWork(cp, q, s, d, c, m)'
<1>1. Len(cp) \in Nat /\ \A i \in 1 .. Len(cp) : cp[i].pos \in Int BY PartIs
<1>2. s <= d /\ d <= c BY DEF InWork, Chain
<1>3. Chain(cp, d, c) BY DEF InWork
<1>4. IF Len(cp) = 0 THEN s = d ELSE s <= d /\ Ends(notices', s, End(cp[1]))
  <2>1. CASE Len(cp) = 0 BY <2>1 DEF InWork
  <2>2. CASE Len(cp) # 0 BY <2>2 DEF InWork
  <2> QED BY <2>1, <2>2
<1>5. ASSUME NEW i \in 2 .. Len(cp) PROVE Ends(notices', cp[i].pos, End(cp[i]))
  <2>1. i \in 1 .. Len(cp) BY <1>1
  <2>2. d <= cp[i].pos /\ cp[i].pos \in Int BY <2>1, <1>1 DEF InWork, Chain
  <2>3. s <= cp[i].pos BY <2>2, <1>2
  <2> QED BY <2>2, <2>3 DEF InWork
<1>6. Splits' <=> Splits BY DEF Splits
<1>7. IF Splits THEN m = c + wrCmd.len /\ Ends(notices', c, m) ELSE m = c
  <2>1. s <= c BY <1>2
  <2> QED BY <2>1 DEF InWork
<1>8. wrState = "evalSecond" => q = c BY DEF InWork
<1> QED BY <1>3, <1>4, <1>5, <1>6, <1>7, <1>8 DEF InWork, Ends, Chain, Within, Passes, PassesEnd, Wrap, Addr

LEMMA SpaceIs ==
  ASSUME freed \in Nat, written \in Nat, freed <= written, written <= freed + (B - 1), NEW n \in 1 .. B, Accepts(n)
  PROVE  written + n <= freed + (B - 1)
<1>1. B \in Nat \ {0} /\ n \in Nat BY RingAssumption
<1> DEFINE x == freed - written - 1
<1>2. x \in Int /\ -1 \in Int OBVIOUS
<1>3. x + B \in 0 .. B - 1 BY <1>1
<1>4. B * (-1) = -B BY <1>1
<1>5. x = B * (-1) + (x + B) BY <1>1, <1>4
<1> HIDE DEF x
<1>6. x % B = x + B BY <1>1, <1>2, <1>3, <1>5, RemainderIs
<1>7. FreeSpace(written) = x + B BY <1>6 DEF FreeSpace, x
<1>8. n <= x + B BY <1>7, <1>1, <1>2 DEF Accepts
<1> QED BY <1>8, <1>1 DEF x

LEMMA AcceptPlaced ==
  ASSUME WriterTypes, TellTypes, NEW cp \in Seq(Part), NEW q, NEW ap, NEW s, NEW d, NEW c, NEW m, NEW start, Placed(cp, q, ap, s, d, c, m, start),
         NEW n \in 1 .. B, Accept(n) \/ AcceptFin(n)
  PROVE  Placed(cp, q, ap, s, d, c, m, start)' /\ TellTypes'
<1> DEFINE w == [pos |-> written, len |-> n, drop |-> FALSE]
           x == [pos |-> written, len |-> n]
<1>1. /\ pushMeta' = Append(pushMeta, w) /\ notices' = Append(notices, x) /\ written' = written + n
      /\ ~ended /\ (~ended' => Accepts(n)) /\ (ended' => side = "rx")
      /\ UNCHANGED <<side, freed, told, requested, tashState, wrState, dropping, breakdown, wrCmd, memory, wrStatus, doubleAccess, failures>>
  BY DEF Accept, AcceptFin, Take, fsmVars
<1>2. s \in Int /\ d \in Int /\ c \in Int /\ m \in Int /\ Ordered /\ InWork(cp, q, s, d, c, m) /\ Reported(ap, s) /\ Counted /\ InMemory(start, d) BY DEF Placed
<1>3. pushMeta \in Seq(Meta) /\ written \in Nat /\ n \in Nat /\ n >= 1 /\ B \in Nat /\ written \in Int BY RingAssumption DEF WriterTypes
<1>4. notices \in Seq(Notice) /\ freed \in Nat /\ told \in Nat /\ requested \in Nat BY DEF TellTypes
<1>5. w \in Meta /\ x \in Notice /\ Extent(w) = n /\ w.pos = written /\ w.len = n /\ w.drop = FALSE BY <1>3 DEF Meta, Notice, Extent
<1>6. x.pos = written /\ x.len = n /\ x = [pos |-> w.pos, len |-> w.len] /\ End(x) = written + n /\ x \in Part BY <1>5, NoticeIs DEF End
<1> HIDE DEF w, x
<1>7. Queued(m)' BY <1>1, <1>2, <1>3, <1>5, QueuedAppend DEF InWork
<1>8. ASSUME NEW p, NEW b, Ends(notices, p, b) PROVE Ends(notices', p, b) BY <1>1, <1>4, <1>5, <1>8, EndsAppend
<1>9. Len(notices) \in Nat /\ Len(notices') = Len(notices) + 1 /\ notices'[Len(notices) + 1] = x /\ notices' \in Seq(Notice)
      /\ \A k \in 1 .. Len(notices) : notices'[k] = notices[k]
  BY <1>1, <1>4, <1>5, AppendIs
<1>10. Len(pushMeta) \in Nat /\ Len(pushMeta') = Len(pushMeta) + 1 /\ pushMeta'[Len(pushMeta) + 1] = w
       /\ \A k \in 1 .. Len(pushMeta) : pushMeta'[k] = pushMeta[k]
  BY <1>1, <1>3, <1>5, AppendIs
<1>11. ASSUME NEW i \in 1 .. Len(pushMeta'), ~pushMeta'[i].drop PROVE IsNotice(pushMeta[i])'
  <2>1. CASE i = Len(pushMeta) + 1
    <3>1. Len(notices) + 1 \in 1 .. Len(notices') BY <1>9
    <3>2. notices'[Len(notices) + 1] = [pos |-> pushMeta'[i].pos, len |-> pushMeta'[i].len] BY <2>1, <1>6, <1>9, <1>10
    <3> QED BY <3>1, <3>2 DEF IsNotice
  <2>2. CASE i # Len(pushMeta) + 1
    <3>1. i \in 1 .. Len(pushMeta) /\ pushMeta'[i] = pushMeta[i] BY <2>2, <1>10
    <3>2. IsNotice(pushMeta[i]) BY <3>1, <1>2, <1>11 DEF InWork
    <3>3. PICK j \in 1 .. Len(notices) : notices[j] = [pos |-> pushMeta[i].pos, len |-> pushMeta[i].len] BY <3>2 DEF IsNotice
    <3>4. j \in 1 .. Len(notices') /\ notices'[j] = notices[j] BY <1>9
    <3> QED BY <3>1, <3>3, <3>4 DEF IsNotice
  <2> QED BY <2>1, <2>2
<1>12. InWork(cp, q, s, d, c, m)' BY <1>1, <1>2, <1>7, <1>8, <1>11, InWorkOther
<1>13. freed <= written /\ written <= freed + (B - 1)
  <2>1. freed <= requested /\ requested <= told /\ told <= s /\ s <= d /\ d <= c /\ c <= m /\ m <= written BY <1>3, PlacesInOrder
  <2>2. written <= freed + (B - 1) BY <1>1, <1>2 DEF Ordered
  <2> QED BY <2>1, <2>2, <1>2, <1>3, <1>4
<1>14. Ordered'
  <2>1. ~ended' => written' <= freed' + (B - 1) BY <1>1, <1>3, <1>4, <1>13, SpaceIs
  <2>2. freed' <= requested' /\ requested' <= told' /\ (ended' => side' = "rx") BY <1>1, <1>2 DEF Ordered
  <2> QED BY <2>1, <2>2 DEF Ordered
<1>15. Chain(notices', told, written + n)
  <2>1. Chain(notices, told, written) /\ notices \in Seq(Part) /\ told \in Int BY <1>2, <1>4, NoticesAreParts DEF Reported
  <2> QED BY <2>1, <1>1, <1>3, <1>6, ChainAppend
<1>16. Reported(ap, s)'
  <2>1. \A i \in 1 .. Len(ap) : Ends(notices', ap[i].pos, End(ap[i])) BY <1>2, <1>8 DEF Reported
  <2>2. tashState # <<>> => tashState = <<TRUE>> /\ notices' # <<>> /\ Passes(notices'[1])
    <3>1. SUFFICES ASSUME tashState # <<>> PROVE tashState = <<TRUE>> /\ notices' # <<>> /\ Passes(notices'[1]) OBVIOUS
    <3>2. tashState = <<TRUE>> /\ notices # <<>> /\ Passes(notices[1]) BY <3>1, <1>2 DEF Reported
    <3>3. 1 \in 1 .. Len(notices) BY <3>2, <1>4, <1>9, EmptyIs
    <3>4. notices' # <<>> BY <1>9, EmptyIs
    <3> QED BY <3>2, <3>3, <3>4, <1>9
  <2>3. ap \in Seq(Part) /\ Chain(ap, told, s) /\ Len(ap) = Len(tashState) + Len(wrStatus) /\ \A i \in 1 .. Len(wrStatus) : wrStatus[i]
    BY <1>2 DEF Reported
  <2>4. Chain(notices', told', written') /\ Len(ap) = Len(tashState') + Len(wrStatus') /\ (\A i \in 1 .. Len(wrStatus') : wrStatus'[i])
        /\ Chain(ap, told', s) /\ (tashState' # <<>> => tashState' = <<TRUE>> /\ notices' # <<>> /\ Passes(notices'[1]))
    BY <2>2, <2>3, <1>1, <1>15
  <2> QED BY <2>1, <2>3, <2>4 DEF Reported, Ends, Chain, Within, Passes, PassesEnd, Wrap, Addr
<1>17. Counted'
  <2>1. CASE side # "rx" BY <2>1, <1>1 DEF Counted
  <2>2. CASE side = "rx"
    <3> DEFINE k == Len(doubleAccess)
    <3>0. k \in Nat BY EmptyIs DEF TellTypes
    <3>1. Len(notices) = k + Len(pushMeta) BY <2>2, <1>2 DEF Counted
    <3>2. Len(notices') = k + Len(pushMeta') BY <3>0, <3>1, <1>9, <1>10
    <3>3. \A i \in 1 .. k : doubleAccess[i] = Passes(notices'[i])
      <4> TAKE i \in 1 .. k
      <4>1. i \in 1 .. Len(notices) BY <3>0, <3>1, <1>10
      <4> QED BY <4>1, <2>2, <1>2, <1>9 DEF Counted
    <3>4. ASSUME NEW i \in 1 .. Len(pushMeta')
          PROVE  ~pushMeta'[i].drop /\ notices'[k + i] = [pos |-> pushMeta'[i].pos, len |-> pushMeta'[i].len]
      <4>1. CASE i = Len(pushMeta) + 1
        <5>1. k + i = Len(notices) + 1 BY <4>1, <3>0, <3>1, <1>10
        <5> QED BY <5>1, <4>1, <1>5, <1>6, <1>9, <1>10
      <4>2. CASE i # Len(pushMeta) + 1
        <5>1. i \in 1 .. Len(pushMeta) /\ k + i \in 1 .. Len(notices) BY <4>2, <3>0, <3>1, <1>10
        <5>2. ~pushMeta[i].drop /\ notices[k + i] = [pos |-> pushMeta[i].pos, len |-> pushMeta[i].len] BY <5>1, <2>2, <1>2 DEF Counted
        <5> QED BY <5>1, <5>2, <1>9, <1>10
      <4> QED BY <4>1, <4>2
    <3> QED BY <3>2, <3>3, <3>4, <1>1 DEF Counted, Passes, PassesEnd, Addr
  <2> QED BY <2>1, <2>2
<1>18. InMemory(start, d)'
  <2>1. written' \in Nat /\ written <= written' BY <1>1, <1>3
  <2> QED BY <2>1, <1>1, <1>2, <1>3, <1>4, InMemorySame
<1>19. Placed(cp, q, ap, s, d, c, m, start)' BY <1>2, <1>12, <1>14, <1>16, <1>17, <1>18 DEF Placed
<1>20. TellTypes'
  <2>1. {freed', told', requested', failures'} \subseteq Nat BY <1>1 DEF TellTypes
  <2>2. tashState' \in Seq(BOOLEAN) /\ wrStatus' \in Seq(BOOLEAN) /\ doubleAccess' \in Seq(BOOLEAN) /\ memory' \in [0 .. B - 1 -> Int]
    <3>1. UNCHANGED <<tashState, wrStatus, doubleAccess, memory>> BY <1>1
    <3> QED BY <3>1, Zenon DEF TellTypes
  <2>3. notices' \in Seq(Notice) BY <1>9
  <2> QED BY <2>1, <2>2, <2>3 DEF TellTypes, Notice
<1> QED BY <1>19, <1>20

LEMMA RefusePlaced ==
  ASSUME WriterTypes, TellTypes, NEW cp \in Seq(Part), NEW q, NEW ap, NEW s, NEW d, NEW c, NEW m, NEW start, Placed(cp, q, ap, s, d, c, m, start),
         NEW n \in 1 .. B, Refuse(n)
  PROVE  Placed(cp, q, ap, s, d, c, m, start)' /\ TellTypes'
<1> DEFINE w == [pos |-> written, len |-> n, drop |-> TRUE]
<1>1. /\ pushMeta' = Append(pushMeta, w) /\ side = "tx"
      /\ UNCHANGED <<side, written, ended, notices, freed, told, requested, tashState, wrState, dropping, breakdown, wrCmd, memory, wrStatus, doubleAccess, failures>>
  BY DEF Refuse, fsmVars
<1>2. s \in Int /\ d \in Int /\ c \in Int /\ m \in Int /\ Ordered /\ InWork(cp, q, s, d, c, m) /\ Reported(ap, s) /\ Counted /\ InMemory(start, d) BY DEF Placed
<1>3. pushMeta \in Seq(Meta) /\ written \in Nat /\ n \in Nat /\ n >= 1 /\ B \in Nat /\ written \in Int BY RingAssumption DEF WriterTypes
<1>5. w \in Meta /\ Extent(w) = 0 /\ w.pos = written /\ w.drop = TRUE BY <1>3 DEF Meta, Extent
<1> HIDE DEF w
<1>6. written' = written + Extent(w) BY <1>1, <1>3, <1>5
<1>7. Queued(m)' BY <1>1, <1>2, <1>3, <1>5, <1>6, QueuedAppend DEF InWork
<1>10. Len(pushMeta) \in Nat /\ Len(pushMeta') = Len(pushMeta) + 1 /\ pushMeta'[Len(pushMeta) + 1] = w
       /\ \A k \in 1 .. Len(pushMeta) : pushMeta'[k] = pushMeta[k]
  BY <1>1, <1>3, <1>5, AppendIs
<1>11. ASSUME NEW i \in 1 .. Len(pushMeta'), ~pushMeta'[i].drop PROVE IsNotice(pushMeta[i])'
  <2>1. i # Len(pushMeta) + 1 BY <1>5, <1>10, <1>11
  <2>2. i \in 1 .. Len(pushMeta) /\ pushMeta'[i] = pushMeta[i] BY <2>1, <1>10
  <2>3. IsNotice(pushMeta[i]) BY <2>2, <1>2, <1>11 DEF InWork
  <2> QED BY <2>2, <2>3, <1>1 DEF IsNotice
<1>12. InWork(cp, q, s, d, c, m)' BY <1>1, <1>2, <1>7, <1>11, InWorkOther
<1>14. Ordered' BY <1>1, <1>2 DEF Ordered
<1>16. Reported(ap, s)' BY <1>1, <1>2, ReportedSame
<1>17. Counted' BY <1>1 DEF Counted
<1>18. InMemory(start, d)'
  <2>1. written' \in Nat /\ written <= written' /\ freed \in Nat BY <1>1, <1>3 DEF TellTypes
  <2> QED BY <2>1, <1>1, <1>2, <1>3, InMemorySame
<1>19. Placed(cp, q, ap, s, d, c, m, start)' BY <1>2, <1>12, <1>14, <1>16, <1>17, <1>18 DEF Placed
<1> QED BY <1>1, <1>19 DEF TellTypes

LEMMA TwoAre ==
  ASSUME TellTypes, Counted, notices # <<>>, side = "rx" => doubleAccess # <<>>
  PROVE  TwoAccesses <=> Passes(notices[1])
<1>1. Head(notices) = notices[1] /\ Len(notices) >= 1 BY TailIs DEF TellTypes
<1>2. CASE side # "rx" BY <1>1, <1>2 DEF TwoAccesses, Passes, PassesEnd
<1>3. CASE side = "rx"
  <2>1. doubleAccess # <<>> /\ doubleAccess \in Seq(BOOLEAN) BY <1>3 DEF TellTypes
  <2>2. Head(doubleAccess) = doubleAccess[1] /\ Len(doubleAccess) \in Nat /\ Len(doubleAccess) > 0 BY <2>1, TailIs
  <2>3. 1 \in 1 .. Len(doubleAccess) BY <2>2
  <2>4. doubleAccess[1] = Passes(notices[1]) BY <2>3, <1>3 DEF Counted
  <2> QED BY <2>2, <2>4, <1>3 DEF TwoAccesses
<1> QED BY <1>2, <1>3

LEMMA OkayIs ==
  ASSUME TellTypes, NEW ap, NEW s, Reported(ap, s), wrStatus # <<>>
  PROVE  Head(wrStatus) = TRUE /\ AllOkay
<1>1. wrStatus \in Seq(BOOLEAN) BY DEF TellTypes
<1>2. Head(wrStatus) = wrStatus[1] /\ Len(wrStatus) \in Nat /\ Len(wrStatus) > 0 /\ Head(wrStatus) \in BOOLEAN BY <1>1, TailIs
<1>3. 1 \in 1 .. Len(wrStatus) BY <1>2
<1>4. wrStatus[1] BY <1>3 DEF Reported
<1>5. Head(wrStatus) = TRUE BY <1>2, <1>4
<1>6. ASSUME tashState # <<>> PROVE Head(tashState)
  <2>1. tashState = <<TRUE>> /\ tashState \in Seq(BOOLEAN) BY <1>6 DEF Reported, TellTypes
  <2>2. Head(tashState) = tashState[1] BY <2>1, <1>6, TailIs
  <2>3. tashState[1] = TRUE BY <2>1
  <2> QED BY <2>2, <2>3
<1> QED BY <1>5, <1>6 DEF AllOkay

LEMMA FirstOfTwoPlaced ==
  ASSUME TellTypes, written \in Nat, NEW cp, NEW q, NEW ap, NEW s, NEW d, NEW c, NEW m, NEW start, Placed(cp, q, ap, s, d, c, m, start), FirstOfTwo
  PROVE  Placed(cp, q, ap, s, d, c, m, start)' /\ TellTypes'
<1>1. /\ notices # <<>> /\ wrStatus # <<>> /\ tashState = <<>> /\ (side = "rx" => doubleAccess # <<>>) /\ TwoAccesses
      /\ tashState' = <<Head(wrStatus)>> /\ wrStatus' = Tail(wrStatus)
      /\ UNCHANGED <<side, written, ended, freed, told, requested, notices, pushMeta, wrState, dropping, breakdown, wrCmd, memory, doubleAccess, failures>>
  BY DEF FirstOfTwo, fsmVars
<1>2. s \in Int /\ d \in Int /\ c \in Int /\ m \in Int /\ Ordered /\ InWork(cp, q, s, d, c, m) /\ Reported(ap, s) /\ Counted /\ InMemory(start, d) BY DEF Placed
<1>3. Passes(notices[1]) BY <1>1, <1>2, TwoAre
<1>4. Head(wrStatus) = TRUE BY <1>1, <1>2, OkayIs
<1>5. /\ Tail(wrStatus) \in Seq(BOOLEAN) /\ Len(wrStatus) \in Nat /\ Len(wrStatus) > 0 /\ Len(Tail(wrStatus)) = Len(wrStatus) - 1
      /\ \A k \in 1 .. Len(wrStatus) - 1 : Tail(wrStatus)[k] = wrStatus[k + 1]
  BY <1>1, TailIs DEF TellTypes
<1>6. tashState' = <<TRUE>> /\ Len(tashState') = 1 /\ Len(tashState) = 0 BY <1>1, <1>4
<1>7. \A i \in 1 .. Len(wrStatus') : wrStatus'[i]
  <2> TAKE i \in 1 .. Len(wrStatus')
  <2>1. i + 1 \in 1 .. Len(wrStatus) /\ i \in 1 .. Len(wrStatus) - 1 BY <1>1, <1>5
  <2>2. wrStatus'[i] = wrStatus[i + 1] BY <2>1, <1>1, <1>5
  <2>3. \A j \in 1 .. Len(wrStatus) : wrStatus[j] BY <1>2 DEF Reported
  <2> QED BY <2>1, <2>2, <2>3, Zenon
<1>8. Reported(ap, s)'
  <2>1. ap \in Seq(Part) /\ Chain(ap, told, s) /\ Chain(notices, told, written) /\ Len(ap) = Len(tashState) + Len(wrStatus)
        /\ \A i \in 1 .. Len(ap) : Ends(notices, ap[i].pos, End(ap[i]))
    BY <1>2 DEF Reported
  <2>2. Len(ap) = Len(tashState') + Len(wrStatus') BY <2>1, <1>1, <1>5, <1>6
  <2>3. Chain(ap, told, s)' /\ Chain(notices, told, written)' BY <2>1, <1>1 DEF Chain, End
  <2>4. \A p, b : Ends(notices, p, b) => Ends(notices, p, b)' BY <1>1 DEF Ends, Within, Passes, PassesEnd, Wrap, Addr, End
  <2>5. \A i \in 1 .. Len(ap) : Ends(notices', ap[i].pos, End(ap[i])) BY <2>1, <2>4
  <2>6. tashState' # <<>> => tashState' = <<TRUE>> /\ notices' # <<>> /\ Passes(notices'[1]) BY <1>1, <1>3, <1>6
  <2> QED BY <2>1, <2>2, <2>3, <2>5, <2>6, <1>7 DEF Reported
<1>9. InWork(cp, q, s, d, c, m)' BY <1>1, <1>2, InWorkSame
<1>10. Counted' BY <1>1, <1>2, CountedSame
<1>11. InMemory(start, d)'
  <2>1. written' \in Nat /\ written <= written' /\ freed \in Nat BY <1>1 DEF TellTypes
  <2> QED BY <2>1, <1>1, <1>2, InMemorySame
<1>12. Ordered' BY <1>1, <1>2 DEF Ordered
<1>13. Placed(cp, q, ap, s, d, c, m, start)' BY <1>2, <1>8, <1>9, <1>10, <1>11, <1>12 DEF Placed
<1>14. TellTypes'
  <2>1. {freed', told', requested', failures'} \subseteq Nat BY <1>1 DEF TellTypes
  <2>2. wrStatus' \in Seq(BOOLEAN) BY <1>1, <1>5
  <2>3. tashState' \in Seq(BOOLEAN) BY <1>6
  <2>4. doubleAccess' \in Seq(BOOLEAN) /\ memory' \in [0 .. B - 1 -> Int] /\ notices' \in Seq(Notice)
    <3>1. UNCHANGED <<doubleAccess, memory, notices>> BY <1>1
    <3> QED BY <3>1 DEF TellTypes
  <2> QED BY <2>1, <2>2, <2>3, <2>4 DEF TellTypes, Notice
<1> QED BY <1>13, <1>14

(* The reports of the first notice, one or two, are at the head of ap: up to its end, and then on. *)
LEMMA FirstNoticeEnds ==
  ASSUME TellTypes, written \in Nat, NEW ap, NEW s \in Int, Reported(ap, s), notices # <<>>, wrStatus # <<>>, Counted,
         side = "rx" => doubleAccess # <<>>, tashState # <<>> \/ ~TwoAccesses, NEW e, e = End(notices[1])
  PROVE  \E rest \in Seq(Part) :
           /\ e \in Nat /\ told < e /\ Chain(rest, e, s)
           /\ Len(rest) = Len(wrStatus) - 1
           /\ \A i \in 1 .. Len(rest) : \E j \in 1 .. Len(ap) : rest[i] = ap[j]
<1>1. ap \in Seq(Part) /\ Chain(ap, told, s) /\ Chain(notices, told, written) /\ Len(ap) = Len(tashState) + Len(wrStatus)
      /\ (\A i \in 1 .. Len(ap) : Ends(notices, ap[i].pos, End(ap[i])))
      /\ (tashState # <<>> => tashState = <<TRUE>> /\ notices # <<>> /\ Passes(notices[1]))
  BY DEF Reported
<1>2. notices \in Seq(Notice) /\ notices \in Seq(Part) /\ told \in Int /\ written \in Int /\ Len(notices) \in Nat /\ Len(notices) >= 1
  BY NoticesAreParts, EmptyIs DEF TellTypes
<1>3. PICK x : x = notices[1] OBVIOUS
<1>4. x \in Notice /\ x.pos = told /\ told < e /\ e \in Nat /\ e = End(x)
  <2>1. 1 \in 1 .. Len(notices) BY <1>2
  <2>2. x \in Notice BY <2>1, <1>2, <1>3, ElementIs
  <2>3. x.pos = told /\ told < End(x) BY <1>1, <1>2, <1>3, ChainTail
  <2> QED BY <2>2, <2>3, <1>3, NoticeIs
<1>5. Passes(x) <=> tashState # <<>> BY <1>1, <1>3, TwoAre
<1>6. Len(wrStatus) \in Nat /\ Len(wrStatus) >= 1 BY EmptyIs DEF TellTypes
<1>7. Len(tashState) = IF tashState = <<>> THEN 0 ELSE 1
  <2>1. CASE tashState = <<>> BY <2>1
  <2>2. CASE tashState # <<>>
    <3>1. tashState = <<TRUE>> BY <2>2, <1>1
    <3>2. Len(tashState) = 1 BY <3>1
    <3> QED BY <3>2, <2>2
  <2> QED BY <2>1, <2>2
<1>8. Len(ap) \in Nat /\ Len(ap) >= 1 /\ ap # <<>> /\ \A i \in 1 .. Len(ap) : ap[i] \in Part /\ ap[i].pos \in Int
  <2>1. Len(ap) >= 1 BY <1>1, <1>6, <1>7
  <2>2. Len(ap) \in Nat /\ ap # <<>> BY <2>1, <1>1, EmptyIs
  <2> QED BY <2>1, <2>2, <1>1, PartIs
<1>9. 1 \in 1 .. Len(ap) BY <1>8
<1>10. /\ Len(Tail(ap)) = Len(ap) - 1 /\ Tail(ap) \in Seq(Part) /\ (\A k \in 1 .. Len(ap) - 1 : Tail(ap)[k] = ap[k + 1])
       /\ ap[1].pos = told /\ End(ap[1]) \in Int /\ Chain(Tail(ap), End(ap[1]), s)
  BY <1>1, <1>2, <1>8, TailIs, ChainTail
<1>11. ASSUME NEW p \in Int, NEW b, Ends(notices, p, b), x.pos <= p, p < End(x) PROVE Within(x, p, b)
  <2>1. 1 \in 1 .. Len(notices) BY <1>2
  <2> QED BY <2>1, <1>1, <1>2, <1>3, <1>11, EndsAre
<1>12. Within(x, told, End(ap[1])) BY <1>1, <1>2, <1>4, <1>9, <1>10, <1>11
<1>13. End(ap[1]) = IF Passes(x) THEN Wrap(x) ELSE End(x) BY <1>2, <1>4, <1>12, WithinIs
<1>14. CASE tashState = <<>>
  <2>1. Chain(Tail(ap), e, s) BY <1>4, <1>5, <1>10, <1>13, <1>14
  <2>2. Len(Tail(ap)) = Len(wrStatus) - 1 BY <1>1, <1>6, <1>7, <1>10, <1>14
  <2>3. \A i \in 1 .. Len(Tail(ap)) : i + 1 \in 1 .. Len(ap) /\ Tail(ap)[i] = ap[i + 1] BY <1>8, <1>10
  <2> QED BY <2>1, <2>2, <2>3, <1>4, <1>10
<1>15. CASE tashState # <<>>
  <2> DEFINE t == Tail(ap)
             u == Tail(t)
  <2>1. Len(ap) >= 2 /\ t # <<>> /\ t \in Seq(Part) /\ Len(t) = Len(ap) - 1 /\ Chain(t, End(ap[1]), s) /\ t[1] = ap[2]
        /\ \A k \in 1 .. Len(t) : t[k] = ap[k + 1]
    <3>1. Len(ap) >= 2 BY <1>1, <1>6, <1>7, <1>15
    <3>2. 1 \in 1 .. Len(ap) - 1 BY <3>1, <1>8
    <3>3. t \in Seq(Part) /\ Len(t) = Len(ap) - 1 /\ Chain(t, End(ap[1]), s) /\ \A k \in 1 .. Len(t) : t[k] = ap[k + 1] BY <1>10
    <3>4. t[1] = ap[2] BY <3>2, <3>3
    <3>5. t # <<>>
      <4>1. Len(t) # 0 BY <3>1, <3>3, <1>8
      <4> QED BY <4>1, <3>3, EmptyIs
    <3> QED BY <3>1, <3>3, <3>4, <3>5
  <2> HIDE DEF t
  <2>2. Len(u) = Len(t) - 1 /\ u \in Seq(Part) /\ (\A k \in 1 .. Len(t) - 1 : u[k] = t[k + 1])
        /\ t[1].pos = End(ap[1]) /\ End(t[1]) \in Int /\ Chain(u, End(t[1]), s)
    BY <2>1, <1>10, TailIs, ChainTail
  <2> HIDE DEF u
  <2>3. 2 \in 1 .. Len(ap) BY <2>1, <1>8
  <2>4. Ends(notices, t[1].pos, End(t[1])) BY <2>1, <2>3, <1>1
  <2>5. t[1].pos = Wrap(x) /\ Passes(x) BY <2>2, <1>5, <1>13, <1>15
  <2>6. x.pos <= Wrap(x) /\ Wrap(x) < End(x) /\ Wrap(x) \in Int BY <2>5, <1>4, NoticeIs
  <2>7. Within(x, Wrap(x), End(t[1])) BY <2>4, <2>5, <2>6, <1>11
  <2>8. End(t[1]) = e BY <2>6, <2>7, <1>4 DEF Within
  <2>9. Len(u) = Len(wrStatus) - 1 BY <2>1, <2>2, <1>1, <1>6, <1>7, <1>8, <1>15
  <2>10. \A i \in 1 .. Len(u) : i + 2 \in 1 .. Len(ap) /\ u[i] = ap[i + 2]
    <3> TAKE i \in 1 .. Len(u)
    <3>2. \A g, j \in Int : j \in 1 .. g - 2 => j \in 1 .. (g - 1) - 1 /\ j + 1 \in 1 .. g - 1 /\ j + 2 \in 1 .. g /\ (j + 1) + 1 = j + 2
      OBVIOUS
    <3>3. Len(ap) \in Int /\ Len(t) = Len(ap) - 1 /\ Len(u) = Len(t) - 1 BY <2>1, <2>2, <1>8
    <3>4. i \in Int /\ i \in 1 .. Len(ap) - 2 BY <3>3
    <3>1. i \in 1 .. Len(t) - 1 /\ i + 1 \in 1 .. Len(t) /\ i + 2 \in 1 .. Len(ap) /\ (i + 1) + 1 = i + 2 BY <3>2, <3>3, <3>4
    <3> QED BY <3>1, <2>1, <2>2
  <2> QED BY <2>2, <2>8, <2>9, <2>10, <1>4
<1> QED BY <1>14, <1>15

(* A write is made known. *)
LEMMA MakeKnownCounted ==
  ASSUME TellTypes, pushMeta \in Seq(Meta), Counted, MakeKnown
  PROVE  Counted' /\ doubleAccess' \in Seq(BOOLEAN)
<1>1. /\ notices # <<>> /\ (side = "rx" => doubleAccess # <<>>) /\ notices' = Tail(notices)
      /\ doubleAccess' = (IF side = "rx" THEN Tail(doubleAccess) ELSE doubleAccess) /\ UNCHANGED <<side, pushMeta>>
  BY DEF MakeKnown
<1>2. CASE side # "rx"
  <2>1. doubleAccess' = doubleAccess BY <1>1, <1>2
  <2> QED BY <2>1, <1>1, <1>2 DEF Counted, TellTypes
<1>3. CASE side = "rx"
  <2>1. /\ Len(notices) \in Nat /\ Len(notices) > 0 /\ Len(notices') = Len(notices) - 1
        /\ \A k \in 1 .. Len(notices) - 1 : notices'[k] = notices[k + 1]
    BY <1>1, TailIs DEF TellTypes
  <2>2. doubleAccess # <<>> /\ doubleAccess' = Tail(doubleAccess) BY <1>1, <1>3
  <2>3. /\ Len(doubleAccess) \in Nat /\ Len(doubleAccess) > 0 /\ Len(doubleAccess') = Len(doubleAccess) - 1 /\ doubleAccess' \in Seq(BOOLEAN)
        /\ \A k \in 1 .. Len(doubleAccess) - 1 : doubleAccess'[k] = doubleAccess[k + 1]
    BY <2>2, TailIs DEF TellTypes
  <2>4. Len(pushMeta) \in Nat BY EmptyIs
  <2>5. Len(notices) = Len(doubleAccess) + Len(pushMeta) BY <1>3 DEF Counted
  <2>6. Len(notices') = Len(doubleAccess') + Len(pushMeta') BY <2>1, <2>3, <2>5, <2>4, <1>1
  <2>7. \A i \in 1 .. Len(doubleAccess') : doubleAccess'[i] = Passes(notices'[i])
    <3> TAKE i \in 1 .. Len(doubleAccess')
    <3>1. i + 1 \in 1 .. Len(doubleAccess) /\ i \in 1 .. Len(doubleAccess) - 1 /\ i \in 1 .. Len(notices) - 1 BY <2>1, <2>3, <2>4, <2>5
    <3>2. doubleAccess[i + 1] = Passes(notices[i + 1]) BY <3>1, <1>3 DEF Counted
    <3> QED BY <3>1, <3>2, <2>1, <2>3
  <2>8. \A i \in 1 .. Len(pushMeta') :
          ~pushMeta'[i].drop /\ notices'[Len(doubleAccess') + i] = [pos |-> pushMeta'[i].pos, len |-> pushMeta'[i].len]
    <3> TAKE i \in 1 .. Len(pushMeta')
    <3>1. PICK k : k = Len(doubleAccess') + i OBVIOUS
    <3>2. k \in 1 .. Len(notices) - 1 /\ k + 1 = Len(doubleAccess) + i /\ i \in 1 .. Len(pushMeta) BY <3>1, <2>1, <2>3, <2>4, <2>5, <1>1
    <3>3. notices'[k] = notices[k + 1] BY <3>2, <2>1
    <3>4. ~pushMeta[i].drop /\ notices[Len(doubleAccess) + i] = [pos |-> pushMeta[i].pos, len |-> pushMeta[i].len] BY <3>2, <1>3 DEF Counted
    <3> QED BY <3>1, <3>2, <3>3, <3>4, <1>1
  <2> QED BY <2>3, <2>6, <2>7, <2>8 DEF Counted, Passes, PassesEnd, Addr
<1> QED BY <1>2, <1>3

LEMMA MakeKnownPlaced ==
  ASSUME WriterTypes, TellTypes, NEW cp \in Seq(Part), NEW q, NEW ap, NEW s, NEW d, NEW c, NEW m, NEW start,
         Placed(cp, q, ap, s, d, c, m, start), MakeKnown
  PROVE  (\E rest : Placed(cp, q, rest, s, d, c, m, start)') /\ TellTypes'
<1>1. /\ notices # <<>> /\ wrStatus # <<>> /\ (side = "rx" => doubleAccess # <<>>) /\ (tashState # <<>> \/ ~TwoAccesses)
      /\ notices' = Tail(notices) /\ wrStatus' = Tail(wrStatus) /\ tashState' = <<>>
      /\ told' = (IF ~AllOkay THEN told ELSE IF side = "rx" THEN told + Head(notices).len ELSE Head(notices).pos + Head(notices).len)
      /\ UNCHANGED <<side, written, ended, freed, requested, pushMeta, wrState, dropping, breakdown, wrCmd, memory, failures>>
  BY DEF MakeKnown, fsmVars
<1>2. s \in Int /\ d \in Int /\ c \in Int /\ m \in Int /\ Ordered /\ InWork(cp, q, s, d, c, m) /\ Reported(ap, s) /\ Counted /\ InMemory(start, d) BY DEF Placed
<1>3. written \in Nat /\ pushMeta \in Seq(Meta) BY DEF WriterTypes
<1>4. PICK e : e = End(notices[1]) OBVIOUS
<1>5. PICK rest \in Seq(Part) : /\ e \in Nat /\ told < e /\ Chain(rest, e, s)
                                /\ Len(rest) = Len(wrStatus) - 1
                                /\ \A i \in 1 .. Len(rest) : \E j \in 1 .. Len(ap) : rest[i] = ap[j]
  BY <1>1, <1>2, <1>3, <1>4, FirstNoticeEnds
<1>6. /\ notices \in Seq(Notice) /\ notices \in Seq(Part) /\ Len(notices) \in Nat /\ Len(notices) > 0 /\ Head(notices) = notices[1]
      /\ notices' \in Seq(Notice) /\ Len(notices') = Len(notices) - 1
      /\ \A k \in 1 .. Len(notices) - 1 : notices'[k] = notices[k + 1]
  BY <1>1, TailIs, NoticesAreParts DEF TellTypes
<1>7. /\ wrStatus' \in Seq(BOOLEAN) /\ Len(wrStatus) \in Nat /\ Len(wrStatus) > 0 /\ Len(wrStatus') = Len(wrStatus) - 1
      /\ \A k \in 1 .. Len(wrStatus) - 1 : wrStatus'[k] = wrStatus[k + 1]
  BY <1>1, TailIs DEF TellTypes
<1>8. told \in Nat /\ told \in Int /\ written \in Int /\ freed \in Nat /\ requested \in Nat BY <1>3 DEF TellTypes
<1>9. Chain(notices, told, written) BY <1>2 DEF Reported
<1>10. notices[1].pos = told /\ Chain(notices', e, written) /\ notices[1] \in Part BY <1>1, <1>4, <1>6, <1>8, <1>9, ChainTail
<1>11. told' = e
  <2>1. AllOkay BY <1>1, <1>2, OkayIs
  <2> QED BY <2>1, <1>1, <1>4, <1>6, <1>10 DEF End
<1>12. freed <= requested /\ requested <= told /\ told <= s /\ s <= d /\ d <= c /\ c <= m /\ m <= written
  BY <1>3, PlacesInOrder
<1>13. e <= s BY <1>5 DEF Chain
<1>14. ASSUME NEW p \in Int, NEW b, e <= p, Ends(notices, p, b) PROVE Ends(notices', p, b)
  BY <1>1, <1>4, <1>6, <1>14, EndsTail
<1>15. ASSUME NEW i \in 1 .. Len(pushMeta'), ~pushMeta'[i].drop PROVE IsNotice(pushMeta[i])'
  <2>1. i \in 1 .. Len(pushMeta) /\ pushMeta'[i] = pushMeta[i] BY <1>1
  <2>2. IsNotice(pushMeta[i]) BY <2>1, <1>2, <1>15 DEF InWork
  <2>3. PICK j \in 1 .. Len(notices) : notices[j] = [pos |-> pushMeta[i].pos, len |-> pushMeta[i].len] BY <2>2 DEF IsNotice
  <2>4. m <= pushMeta[i].pos /\ pushMeta[i].pos \in Int BY <2>1, <1>2, <1>3, MetaIs DEF InWork, Queued
  <2>5. told < pushMeta[i].pos
    <3>1. s \in Int /\ d \in Int /\ c \in Int /\ m \in Int /\ e \in Int BY <1>2, <1>5
    <3>2. e <= s /\ s <= d /\ d <= c /\ c <= m BY <1>12, <1>13
    <3>3. e <= m BY <3>1, <3>2
    <3>4. told \in Int /\ told < e BY <1>5, <1>8
    <3> QED BY <3>1, <3>3, <3>4, <2>4
  <2>6. notices[j].pos = pushMeta[i].pos BY <2>3
  <2>7. j # 1 BY <2>4, <2>5, <2>6, <1>8, <1>10
  <2>8. j - 1 \in 1 .. Len(notices) - 1 /\ (j - 1) + 1 = j BY <2>7, <1>6
  <2>9. notices'[j - 1] = notices[j] BY <2>8, <1>6
  <2>10. j - 1 \in 1 .. Len(notices') BY <2>8, <1>6
  <2> QED BY <2>1, <2>3, <2>9, <2>10 DEF IsNotice
<1>16. InWork(cp, q, s, d, c, m)'
  <2>1. Queued(m)' BY <1>1, <1>2 DEF InWork, Queued, Extent
  <2>2. \A p \in Int : \A b : s <= p /\ Ends(notices, p, b) => Ends(notices', p, b)
    <3> SUFFICES ASSUME NEW p \in Int, NEW b, s <= p, Ends(notices, p, b) PROVE Ends(notices', p, b) OBVIOUS
    <3>1. e <= p BY <1>2, <1>5, <1>13
    <3> QED BY <3>1, <1>14
  <2> QED BY <2>1, <2>2, <1>1, <1>2, <1>15, InWorkOther
<1>17. Reported(rest, s)'
  <2>1. \A i \in 1 .. Len(rest) : Ends(notices', rest[i].pos, End(rest[i]))
    <3> TAKE i \in 1 .. Len(rest)
    <3>1. PICK j \in 1 .. Len(ap) : rest[i] = ap[j] BY <1>5
    <3>2. Ends(notices, rest[i].pos, End(rest[i])) BY <3>1, <1>2 DEF Reported
    <3>3. e <= rest[i].pos /\ rest[i].pos \in Int BY <1>5, PartIs DEF Chain
    <3> QED BY <3>2, <3>3, <1>14
  <2>2. \A i \in 1 .. Len(wrStatus') : wrStatus'[i]
    <3> TAKE i \in 1 .. Len(wrStatus')
    <3>1. i \in 1 .. Len(wrStatus) - 1 /\ i + 1 \in 1 .. Len(wrStatus) BY <1>7
    <3> QED BY <3>1, <1>2, <1>7 DEF Reported
  <2>3. Len(rest) = Len(tashState') + Len(wrStatus')
    <3>1. Len(tashState') = 0 BY <1>1
    <3> QED BY <3>1, <1>5, <1>7
  <2> QED BY <2>1, <2>2, <2>3, <1>1, <1>5, <1>10, <1>11 DEF Reported, Ends, Chain, Within, Passes, PassesEnd, Wrap, Addr
<1>18. Counted' /\ doubleAccess' \in Seq(BOOLEAN) BY <1>2, <1>3, MakeKnownCounted
<1>19. InMemory(start, d)'
  <2>1. written' \in Nat /\ written <= written' BY <1>1, <1>3
  <2> QED BY <2>1, <1>1, <1>2, <1>3, <1>8, InMemorySame
<1>20. Ordered' BY <1>1, <1>2, <1>5, <1>8, <1>11, <1>12 DEF Ordered
<1>21. Placed(cp, q, rest, s, d, c, m, start)' BY <1>2, <1>16, <1>17, <1>18, <1>19, <1>20 DEF Placed
<1>22. TellTypes'
  <2>1. {freed', told', requested', failures'} \subseteq Nat BY <1>1, <1>5, <1>11 DEF TellTypes
  <2>2. tashState' \in Seq(BOOLEAN) BY <1>1
  <2>3. memory' \in [0 .. B - 1 -> Int] BY <1>1 DEF TellTypes
  <2> QED BY <2>1, <2>2, <2>3, <1>6, <1>7, <1>18 DEF TellTypes, Notice
<1> QED BY <1>21, <1>22

(* A step of the writer. *)
LEMMA LastFits ==
  ASSUME WriterTypes, NEW cp, NEW left, Commanded(cp, left)
  PROVE  cp \in Seq(Part) /\ Len(cp) \in Nat /\ (left # 0 => cp # <<>>)
<1>1. PICK e : e = (IF left = 0 THEN <<Len(cp) + 1, 0>> ELSE <<Len(cp), left>>) OBVIOUS
<1>2. RunTo(wrData, cp, e) BY <1>1 DEF Commanded
<1>3. cp \in Seq(Part) /\ Len(cp) \in Nat BY <1>2, PartIs DEF RunTo
<1>4. ASSUME left # 0 PROVE cp # <<>>
  <2>1. Place(cp, e) BY <1>2, RunPlace
  <2>2. e[1] = Len(cp) /\ e[1] \in Nat BY <1>1, <1>3, <1>4
  <2>3. e[1] \in 1 .. Len(cp) + 1 BY <2>1 DEF Place
  <2>4. Len(cp) # 0 BY <2>2, <2>3
  <2> QED BY <2>4
<1> QED BY <1>3, <1>4

LEMMA MemoryPlaced ==
  ASSUME WriterTypes, CommandsFit, TellTypes, NEW cp, NEW pk, NEW n, NEW q, NEW ap, NEW s, NEW d, NEW c, NEW m, NEW start,
         WriterOk(cp, pk, n, q), Placed(cp, q, ap, s, d, c, m, start), MemoryWrites(TRUE), UNCHANGED <<side, ringVars>>,
         NEW w, w = Head(wrData)
  PROVE  (\E a2, s2, d2 : Placed(Took(cp, w), q, a2, s2, d2, c, m, start)') /\ TellTypes'
<1>1. UNCHANGED <<side, written, ended, freed, told, requested, notices, tashState>> BY DEF ringVars
<1>2. PICK k : k = Head(wrMemCmd) OBVIOUS
<1>3. /\ memory' = [a \in DOMAIN memory |-> IF a \in k.addr .. k.addr + w.keep - 1 THEN w.data[a - k.addr] ELSE memory[a]]
      /\ failures' = failures /\ wrStatus' = (IF w.last THEN Append(wrStatus, TRUE) ELSE wrStatus)
      /\ UNCHANGED <<pushMeta, fsmVars, doubleAccess>>
  BY <1>2 DEF MemoryWrites
<1>4. /\ cp \in Seq(Part) /\ cp # <<>> /\ cp[1] \in Part /\ k \in Cmd /\ Addr(cp[1].pos) = k.addr /\ cp[1].len = k.len
      /\ w \in Word /\ (w.last <=> w.keep = k.len) /\ w.keep >= 1 /\ w.keep <= k.len
      /\ \A b \in 0 .. w.keep - 1 : w.data[b] = cp[1].pos + b
  <2>1. WriterTypes /\ CommandsFit /\ WriterOk(cp, pk, n, q) /\ MemoryWrites(TRUE) /\ UNCHANGED <<side, written>> /\ w = Head(wrData) BY <1>1
  <2>2. Taken(cp, k, w) BY <2>1, <1>2, MemoryKeeps
  <2> QED BY <2>2 DEF Taken
<1>5. s \in Int /\ d \in Int /\ c \in Int /\ m \in Int /\ Ordered /\ InWork(cp, q, s, d, c, m) /\ Reported(ap, s) /\ Counted /\ InMemory(start, d) BY DEF Placed
<1>6. PICK e : e = d + w.keep OBVIOUS
<1>7. /\ InWork(Took(cp, w), q, IF w.last THEN e ELSE s, e, c, m)' /\ e \in Int /\ d = cp[1].pos /\ d < e /\ s < e
      /\ IF w.last THEN e = End(cp[1]) /\ Ends(notices, s, e) ELSE e < End(cp[1])
  <2>1. UNCHANGED <<fsmVars, pushMeta, written, notices>> BY <1>1, <1>3
  <2>2. w.keep <= cp[1].len /\ (w.last <=> w.keep = cp[1].len) BY <1>4
  <2> QED BY <2>1, <2>2, <1>4, <1>5, <1>6, TakesPlaced
<1>8. written \in Nat /\ freed \in Nat /\ requested \in Nat /\ told \in Nat /\ B \in Nat BY RingAssumption DEF WriterTypes, TellTypes
<1>9. /\ freed <= requested /\ requested <= told /\ told <= s /\ s <= d /\ d <= c /\ c <= m /\ m <= written
      /\ End(cp[1]) <= written
  BY <1>4, <1>8, PlacesInOrder
<1>10. End(cp[1]) \in Int
  <2>1. Len(cp) \in Nat /\ Len(cp) # 0 BY <1>4, EmptyIs
  <2>2. 1 \in 1 .. Len(cp) BY <2>1
  <2> QED BY <2>2, <1>4, PartIs
<1>11. freed <= d /\ e <= written
  <2>1. freed <= d BY <1>5, <1>8, <1>9
  <2>2. e <= End(cp[1]) BY <1>7, <1>10
  <2> QED BY <2>1, <2>2, <1>7, <1>8, <1>9, <1>10
<1>12. k.addr + k.len <= B
  <2>1. wrMemCmd # <<>> /\ wrMemCmd \in Seq(Cmd) BY DEF MemoryWrites, WriterTypes
  <2>2. k = wrMemCmd[1] /\ Len(wrMemCmd) \in Nat /\ Len(wrMemCmd) > 0 BY <2>1, <1>2, TailIs
  <2>3. 1 \in 1 .. Len(wrMemCmd) BY <2>2
  <2> QED BY <2>2, <2>3 DEF CommandsFit
<1>13. InMemory(start, e)' /\ memory' \in [0 .. B - 1 -> Int]
  <2>1. Addr(d) = k.addr /\ \A b \in 0 .. w.keep - 1 : w.data[b] = d + b BY <1>4, <1>7
  <2>2. d + w.keep <= written /\ written \in Nat BY <1>6, <1>8, <1>11
  <2>3. k \in Cmd /\ w \in Word /\ w.keep >= 1 /\ w.keep <= k.len BY <1>4
  <2>4. memory' = [a \in DOMAIN memory |-> IF a \in k.addr .. k.addr + w.keep - 1 THEN w.data[a - k.addr] ELSE memory[a]] BY <1>3
  <2>5. d \in Int /\ InMemory(start, d) /\ freed <= d /\ UNCHANGED <<freed, written>> BY <1>1, <1>5, <1>11
  <2> QED BY <2>1, <2>2, <2>3, <2>4, <2>5, <1>6, <1>12, WritePlaced
<1>14. Counted' BY <1>1, <1>3, <1>5, CountedSame
<1>15. Ordered' BY <1>1, <1>5 DEF Ordered
<1>16. \E a2, s2 : s2 \in Int /\ Reported(a2, s2)' /\ InWork(Took(cp, w), q, s2, e, c, m)'
  <2>1. CASE w.last
    <3>1. PICK p : p = [pos |-> s, len |-> e - s] OBVIOUS
    <3>2. Reported(Append(ap, p), e)' BY <3>1, <2>1, <1>1, <1>3, <1>5, <1>7, ReportPlaced
    <3>3. InWork(Took(cp, w), q, e, e, c, m)' BY <2>1, <1>7
    <3> QED BY <3>2, <3>3, <1>7
  <2>2. CASE ~w.last
    <3>1. Reported(ap, s)' BY <2>2, <1>1, <1>3, <1>5, ReportedSame
    <3>2. InWork(Took(cp, w), q, s, e, c, m)' BY <2>2, <1>7
    <3> QED BY <3>1, <3>2, <1>5
  <2> QED BY <2>1, <2>2
<1>17. PICK a2, s2 : s2 \in Int /\ Reported(a2, s2)' /\ InWork(Took(cp, w), q, s2, e, c, m)' BY <1>16
<1>18. Placed(Took(cp, w), q, a2, s2, e, c, m, start)' BY <1>5, <1>7, <1>13, <1>14, <1>15, <1>17 DEF Placed
<1>19. TellTypes'
  <2>1. {freed', told', requested', failures'} \subseteq Nat BY <1>1, <1>3 DEF TellTypes
  <2>2. tashState' \in Seq(BOOLEAN) /\ doubleAccess' \in Seq(BOOLEAN) /\ notices' \in Seq(Notice)
    <3>1. UNCHANGED <<tashState, doubleAccess, notices>> BY <1>1, <1>3
    <3> QED BY <3>1 DEF TellTypes
  <2>3. wrStatus' \in Seq(BOOLEAN)
    <3>1. wrStatus \in Seq(BOOLEAN) BY DEF TellTypes
    <3>2. Append(wrStatus, TRUE) \in Seq(BOOLEAN) BY <3>1, AppendIs
    <3> QED BY <3>1, <3>2, <1>3
  <2> QED BY <2>1, <2>2, <2>3, <1>13 DEF TellTypes, Notice
<1> QED BY <1>18, <1>19

(* The writer's part of the invariant; start is the position at which the stream started. *)
BytesWritten(start) ==
  /\ WriterTypes /\ CommandsFit /\ TellTypes
  /\ \E cp, pk, n, q, ap, s, d, c, m : WriterOk(cp, pk, n, q) /\ Placed(cp, q, ap, s, d, c, m, start)

LEMMA PlacedFrom ==
  ASSUME TellTypes, written \in Nat, NEW cp, NEW q, NEW ap, NEW s, NEW d, NEW c, NEW m, NEW start, Placed(cp, q, ap, s, d, c, m, start),
         UNCHANGED <<side, ringVars, memory, wrStatus, failures>>, Counted', doubleAccess' \in Seq(BOOLEAN),
         NEW cpp, NEW qq, NEW cc \in Int, NEW mm \in Int, InWork(cpp, qq, s, d, cc, mm)'
  PROVE  Placed(cpp, qq, ap, s, d, cc, mm, start)' /\ TellTypes'
<1>1. UNCHANGED <<side, written, ended, freed, told, requested, notices, tashState, memory, wrStatus, failures>> BY DEF ringVars
<1>2. s \in Int /\ d \in Int /\ Ordered /\ Reported(ap, s) /\ InMemory(start, d) BY DEF Placed
<1>3. Reported(ap, s)' BY <1>1, <1>2, ReportedSame
<1>4. InMemory(start, d)'
  <2>1. written' \in Nat /\ written <= written' /\ freed \in Nat BY <1>1 DEF TellTypes
  <2> QED BY <2>1, <1>1, <1>2, InMemorySame
<1>5. Ordered' BY <1>1, <1>2 DEF Ordered
<1>6. Placed(cpp, qq, ap, s, d, cc, mm, start)' BY <1>2, <1>3, <1>4, <1>5 DEF Placed
<1>7. TellTypes'
  <2>1. {freed', told', requested', failures'} \subseteq Nat BY <1>1 DEF TellTypes
  <2>2. tashState' \in Seq(BOOLEAN) /\ wrStatus' \in Seq(BOOLEAN) /\ memory' \in [0 .. B - 1 -> Int] /\ notices' \in Seq(Notice)
    <3>1. UNCHANGED <<tashState, wrStatus, memory, notices>> BY <1>1
    <3> QED BY <3>1 DEF TellTypes
  <2> QED BY <2>1, <2>2 DEF TellTypes, Notice
<1> QED BY <1>6, <1>7

LEMMA WriterPlaced ==
  ASSUME NEW start, BytesWritten(start), WriterStep, UNCHANGED <<side, ringVars>>
  PROVE  BytesWritten(start)'
<1>1. WriterTypes /\ CommandsFit /\ TellTypes /\ written \in Nat BY DEF BytesWritten, WriterTypes
<1>2. PICK cp, pk, n, q, ap, s, d, c, m : WriterOk(cp, pk, n, q) /\ Placed(cp, q, ap, s, d, c, m, start) BY DEF BytesWritten
<1>3. UNCHANGED <<side, written, notices>> BY DEF ringVars
<1>4. s \in Int /\ d \in Int /\ c \in Int /\ m \in Int /\ InWork(cp, q, s, d, c, m) /\ Counted /\ Chain(notices, told, written)
  BY <1>2 DEF Placed, Reported
<1>5. q \in Int /\ Commanded(cp, Missing(pk)) BY <1>2 DEF WriterOk
<1>6. PICK left : left = Missing(pk) OBVIOUS
<1>7. cp \in Seq(Part) /\ Len(cp) \in Nat /\ (left # 0 => cp # <<>>) BY <1>1, <1>5, <1>6, LastFits
<1>8. PICK w : w = Head(pkgBuffer) OBVIOUS
<1>9. ASSUME UNCHANGED <<memory, wrStatus, failures, doubleAccess, pushMeta>>,
             NEW qp, NEW k, NEW r, NEW cc \in Int, NEW cpp, (WriterTypes /\ CommandsFit /\ WriterOk(cpp, qp, k, r))',
             InWork(cpp, r, s, d, cc, m)'
      PROVE  BytesWritten(start)'
  <2>1. Counted' BY <1>3, <1>4, <1>9, CountedSame
  <2>2. doubleAccess' \in Seq(BOOLEAN)
    <3>1. doubleAccess' = doubleAccess BY <1>9
    <3> QED BY <3>1, <1>1 DEF TellTypes
  <2>3. Placed(cpp, r, ap, s, d, cc, m, start)' /\ TellTypes' BY <2>1, <2>2, <1>1, <1>2, <1>4, <1>9, PlacedFrom
  <2> QED BY <2>3, <1>9 DEF BytesWritten
<1>10. CASE WriteIdle
  <2>1. UNCHANGED <<memory, wrStatus, failures>> BY <1>10 DEF WriteIdle
  <2>2. Counted' /\ doubleAccess' \in Seq(BOOLEAN) BY <1>1, <1>3, <1>4, <1>10, IdleCounted
  <2>3. CASE Head(pushMeta).drop
    <3>1. (WriterTypes /\ CommandsFit /\ WriterOk(cp, pk, 1, q))' BY <2>3, <1>1, <1>2, <1>3, <1>10, IdleDrops
    <3>2. InWork(cp, q, s, d, c, m)' BY <2>3, <1>1, <1>3, <1>4, <1>10, DropPlaced
    <3>3. Placed(cp, q, ap, s, d, c, m, start)' /\ TellTypes' BY <3>2, <2>1, <2>2, <1>1, <1>2, <1>4, PlacedFrom
    <3> QED BY <3>1, <3>3 DEF BytesWritten
  <2>4. CASE ~Head(pushMeta).drop
    <3>1. PICK p : p = [pos |-> Head(pushMeta).pos, len |-> IF PassesEnd(Addr(Head(pushMeta).pos), Head(pushMeta).len)
                                                            THEN B - Addr(Head(pushMeta).pos) ELSE Head(pushMeta).len]
      OBVIOUS
    <3>2. (WriterTypes /\ CommandsFit /\ WriterOk(Append(cp, p), pk, 1, q))' /\ p \in Part BY <3>1, <2>4, <1>1, <1>2, <1>3, <1>10, IdleStarts
    <3>3. PICK e \in Int, f \in Int : InWork(Append(cp, p), q, s, d, e, f)' BY <3>1, <3>2, <2>4, <1>1, <1>3, <1>4, <1>7, <1>10, IdlePlaced
    <3>4. Placed(Append(cp, p), q, ap, s, d, e, f, start)' /\ TellTypes' BY <3>3, <2>1, <2>2, <1>1, <1>2, PlacedFrom
    <3> QED BY <3>2, <3>4 DEF BytesWritten
  <2> QED BY <2>3, <2>4
<1>11. CASE WriteDropped
  <2>1. (WriterTypes /\ CommandsFit /\ WriterOk(cp, Took(pk, w), IF w.last THEN 0 ELSE 1, q))' BY <1>1, <1>2, <1>3, <1>8, <1>11, DroppedKeeps
  <2>2. UNCHANGED <<memory, wrStatus, failures, doubleAccess, pushMeta, wrCmd>> BY <1>11 DEF WriteDropped
  <2>3. ~Splits /\ ~Splits' /\ wrState' # "evalSecond" BY <1>11 DEF WriteDropped, Splits
  <2>4. InWork(cp, q, s, d, c, m)' BY <2>2, <2>3, <1>3, <1>4, MovesPlaced
  <2> QED BY <2>1, <2>2, <2>4, <1>4, <1>9
<1>12. CASE WriteFirst
  <2>1. PICK r : r = LastEnd(cp) OBVIOUS
  <2>2. (WriterTypes /\ CommandsFit /\ WriterOk(cp, Took(pk, w), IF w.last THEN 0 ELSE 1, r))' BY <2>1, <1>1, <1>2, <1>3, <1>8, <1>12, FirstKeeps
  <2>3. UNCHANGED <<memory, wrStatus, failures, doubleAccess, pushMeta>> BY <1>12 DEF WriteFirst
  <2>4. breakdown \in BOOLEAN BY <1>1 DEF WriterTypes
  <2>5. cp # <<>>
    <3>1. wrState = "first" /\ ~dropping BY <1>12 DEF WriteFirst
    <3>2. breakTemp >= 1 /\ left = breakTemp BY <3>1, <1>2, <1>6 DEF WriterOk, InFirst, Missing
    <3> QED BY <3>2, <1>7
  <2>6. InWork(cp, r, s, d, c, m)' BY <2>1, <2>4, <2>5, <1>3, <1>4, <1>7, <1>12, FirstPlaced
  <2> QED BY <2>2, <2>3, <2>6, <1>4, <1>9
<1>13. CASE EvalSecond
  <2>1. PICK p : p = [pos |-> q, len |-> wrCmd.len] OBVIOUS
  <2>2. (WriterTypes /\ CommandsFit /\ WriterOk(Append(cp, p), pk, n, q))' /\ p \in Part BY <2>1, <1>1, <1>2, <1>3, <1>13, EvalKeeps
  <2>3. UNCHANGED <<memory, wrStatus, failures, doubleAccess, pushMeta>> BY <1>13 DEF EvalSecond
  <2>4. InWork(Append(cp, p), q, s, d, m, m)' BY <2>1, <2>2, <1>1, <1>3, <1>4, <1>7, <1>13, EvalPlaced
  <2> QED BY <2>2, <2>3, <2>4, <1>4, <1>9
<1>14. CASE WriteAligned
  <2>1. (WriterTypes /\ CommandsFit /\ WriterOk(cp, Took(pk, w), IF w.last THEN 0 ELSE 1, q))' BY <1>1, <1>2, <1>3, <1>8, <1>14, AlignedKeeps
  <2>2. UNCHANGED <<memory, wrStatus, failures, doubleAccess, pushMeta, wrCmd>> BY <1>14 DEF WriteAligned
  <2>3. ~Splits /\ ~Splits' /\ wrState' # "evalSecond" BY <1>14 DEF WriteAligned, Splits
  <2>4. InWork(cp, q, s, d, c, m)' BY <2>2, <2>3, <1>3, <1>4, MovesPlaced
  <2> QED BY <2>1, <2>2, <2>4, <1>4, <1>9
<1>15. CASE WriteSecond
  <2>0. PICK r : r = q + W OBVIOUS
  <2>1. (WriterTypes /\ CommandsFit /\ WriterOk(cp, Took(pk, w), IF w.last THEN 0 ELSE 1, r))' BY <2>0, <1>1, <1>2, <1>3, <1>8, <1>15, SecondKeeps
  <2>2. UNCHANGED <<memory, wrStatus, failures, doubleAccess, pushMeta, wrCmd>> BY <1>15 DEF WriteSecond
  <2>3. ~Splits /\ ~Splits' /\ wrState' # "evalSecond" BY <1>15 DEF WriteSecond, Splits
  <2>4. InWork(cp, r, s, d, c, m)' BY <2>2, <2>3, <1>3, <1>4, MovesPlaced
  <2> QED BY <2>1, <2>2, <2>4, <1>4, <1>9
<1>16. CASE WriteResidue
  <2>1. (WriterTypes /\ CommandsFit /\ WriterOk(cp, pk, n, q))' BY <1>1, <1>2, <1>3, <1>16, ResidueKeeps
  <2>2. UNCHANGED <<memory, wrStatus, failures, doubleAccess, pushMeta, wrCmd>> BY <1>16 DEF WriteResidue
  <2>3. ~Splits /\ ~Splits' /\ wrState' # "evalSecond" BY <1>16 DEF WriteResidue, Splits
  <2>4. InWork(cp, q, s, d, c, m)' BY <2>2, <2>3, <1>3, <1>4, MovesPlaced
  <2> QED BY <2>1, <2>2, <2>4, <1>4, <1>9
<1>17. CASE MemoryWrites(TRUE)
  <2>1. PICK v : v = Head(wrData) OBVIOUS
  <2>2. PICK k : k = Head(wrMemCmd) OBVIOUS
  <2>3. (WriterTypes /\ CommandsFit /\ WriterOk(Took(cp, v), pk, n, q))' BY <2>1, <2>2, <1>1, <1>2, <1>3, <1>17, MemoryKeeps
  <2>4. (\E a2, s2, d2 : Placed(Took(cp, v), q, a2, s2, d2, c, m, start)') /\ TellTypes' BY <2>1, <1>1, <1>2, <1>17, MemoryPlaced
  <2> QED BY <2>3, <2>4 DEF BytesWritten
<1> QED BY <1>10, <1>11, <1>12, <1>13, <1>14, <1>15, <1>16, <1>17 DEF WriterStep

LEMMA WrittenStarts ==
  ASSUME Init, NEW start, start = written PROVE BytesWritten(start)
<1>1. WriterTypes /\ CommandsFit BY WriterStarts DEF WriterInv
<1>2. PICK cp, pk, n, q : WriterOk(cp, pk, n, q) BY WriterStarts DEF WriterInv
<1>3. written \in Nat /\ B \in Nat /\ B >= 1 BY <1>1, RingAssumption DEF WriterTypes
<1>4. /\ freed = written /\ told = written /\ requested = written /\ notices = <<>> /\ tashState = <<>> /\ pushMeta = <<>>
      /\ wrMemCmd = <<>> /\ wrState = "idle" /\ memory = [a \in 0 .. B - 1 |-> -1] /\ wrStatus = <<>> /\ doubleAccess = <<>> /\ failures = 0
      /\ ended = FALSE
  BY DEF Init, WriterInit
<1>5. TellTypes BY <1>3, <1>4 DEF TellTypes
<1>6. cp = <<>>
  <2>1. PICK left : left = Missing(pk) OBVIOUS
  <2>2. Commanded(cp, left) BY <2>1, <1>2 DEF WriterOk
  <2>3. cp \in Seq(Part) BY <2>2, <1>1, LastFits
  <2>4. Len(cp) = 0 BY <2>2, <1>4 DEF Commanded
  <2> QED BY <2>3, <2>4, EmptyIs
<1>7. Chain(<<>>, written, written) BY <1>3, ChainEmpty
<1>8. InWork(cp, q, written, written, written, written)
  <2>1. ~Splits /\ wrState # "evalSecond" BY <1>4 DEF Splits
  <2>2. Queued(written) BY <1>3, <1>4 DEF Queued
  <2>3. Len(cp) = 0 /\ Len(pushMeta) = 0 BY <1>4, <1>6
  <2> QED BY <2>1, <2>2, <2>3, <1>3, <1>6, <1>7 DEF InWork
<1>9. Reported(<<>>, written)
  <2>1. <<>> \in Seq(Part) /\ Len(<<>>) = 0 OBVIOUS
  <2> QED BY <2>1, <1>4, <1>7 DEF Reported
<1>10. Counted BY <1>4 DEF Counted
<1>11. InMemory(start, written) BY <1>3, <1>4 DEF InMemory
<1>12. Placed(cp, q, <<>>, written, written, written, written, start) BY <1>3, <1>4, <1>8, <1>9, <1>10, <1>11 DEF Placed, Ordered
<1> QED BY <1>1, <1>2, <1>5, <1>12 DEF BytesWritten

(* What is read and freed changes nothing of what is written and not yet freed. *)
LEMMA FreedKeeps ==
  ASSUME NEW start, BytesWritten(start), UNCHANGED <<side, written, ended, told, notices, tashState, writerVars>>,
         freed' \in Nat, requested' \in Nat, freed <= freed', freed' <= requested', requested' <= told
  PROVE  BytesWritten(start)'
<1>1. WriterTypes /\ CommandsFit /\ TellTypes BY DEF BytesWritten
<1>2. PICK cp, pk, n, q, ap, s, d, c, m : WriterOk(cp, pk, n, q) /\ Placed(cp, q, ap, s, d, c, m, start) BY DEF BytesWritten
<1>3. UNCHANGED <<side, written, ended, told, notices, tashState, pushMeta, pkgBuffer, fsmVars, wrMemCmd, wrData, memory, wrStatus, doubleAccess, failures>>
  BY DEF writerVars
<1>4. s \in Int /\ d \in Int /\ c \in Int /\ m \in Int /\ Ordered /\ InWork(cp, q, s, d, c, m) /\ Reported(ap, s) /\ Counted /\ InMemory(start, d)
  BY <1>2 DEF Placed
<1>5. (WriterTypes /\ CommandsFit /\ WriterOk(cp, pk, n, q))' BY <1>1, <1>2, <1>3, WriterOkSame
<1>6. InWork(cp, q, s, d, c, m)' BY <1>3, <1>4, InWorkSame DEF fsmVars
<1>7. Reported(ap, s)' BY <1>3, <1>4, ReportedSame
<1>8. Counted' BY <1>3, <1>4, CountedSame
<1>9. written \in Nat /\ freed \in Nat /\ told \in Nat /\ B \in Nat BY <1>1, RingAssumption DEF WriterTypes, TellTypes
<1>10. Ordered'
  <2>1. ASSUME ~ended PROVE written <= freed' + (B - 1)
    <3>1. written <= freed + (B - 1) BY <2>1, <1>4 DEF Ordered
    <3>2. ASSUME NEW a \in Nat, NEW b \in Nat, a <= b, written <= a + (B - 1) PROVE written <= b + (B - 1) BY <3>2, <1>9
    <3> QED BY <3>1, <3>2, <1>9
  <2>2. ended => side = "rx" BY <1>4 DEF Ordered
  <2> QED BY <2>1, <2>2, <1>3 DEF Ordered
<1>11. InMemory(start, d)'
  <2>1. start \in Nat /\ start <= freed' BY <1>4, <1>9 DEF InMemory
  <2>2. \A pos \in freed' .. d - 1 : written' <= pos + B => memory'[Addr(pos)] = pos
    <3> TAKE pos \in freed' .. d - 1
    <3>1. pos \in freed .. d - 1 BY <1>4, <1>9
    <3> QED BY <3>1, <1>3, <1>4 DEF InMemory
  <2>3. \A pos \in start .. d - 1 : Later(memory'[Addr(pos)], pos) BY <1>3, <1>4 DEF InMemory
  <2> QED BY <2>1, <2>2, <2>3 DEF InMemory, Later, Addr
<1>12. Placed(cp, q, ap, s, d, c, m, start)' BY <1>4, <1>6, <1>7, <1>8, <1>10, <1>11 DEF Placed
<1>13. TellTypes'
  <2>1. {freed', told', requested', failures'} \subseteq Nat BY <1>1, <1>3 DEF TellTypes
  <2>2. tashState' \in Seq(BOOLEAN) /\ wrStatus' \in Seq(BOOLEAN) /\ doubleAccess' \in Seq(BOOLEAN) /\ memory' \in [0 .. B - 1 -> Int] /\ notices' \in Seq(Notice)
    <3>1. UNCHANGED <<tashState, wrStatus, doubleAccess, memory, notices>> BY <1>3
    <3> QED BY <3>1, <1>1 DEF TellTypes
  <2> QED BY <2>1, <2>2 DEF TellTypes, Notice
<1> QED BY <1>5, <1>12, <1>13 DEF BytesWritten

LEMMA AcceptWritten ==
  ASSUME NEW start, BytesWritten(start), NEW k \in 1 .. B, Accept(k) \/ AcceptFin(k) \/ Refuse(k)
  PROVE  BytesWritten(start)'
<1>1. WriterTypes /\ CommandsFit /\ TellTypes BY DEF BytesWritten
<1>2. PICK cp, pk, n, q, ap, s, d, c, m : WriterOk(cp, pk, n, q) /\ Placed(cp, q, ap, s, d, c, m, start) BY DEF BytesWritten
<1>3. written \in Nat /\ B \in Nat BY <1>1, RingAssumption DEF WriterTypes
<1>4. cp \in Seq(Part)
  <2>1. PICK left : left = Missing(pk) OBVIOUS
  <2>2. Commanded(cp, left) BY <2>1, <1>2 DEF WriterOk
  <2> QED BY <2>2, <1>1, LastFits
<1>5. CASE Accept(k) \/ AcceptFin(k)
  <2>1. PICK w : w = [pos |-> written, len |-> k, drop |-> FALSE] OBVIOUS
  <2>2. PICK pos : pos = written OBVIOUS
  <2>3. w \in Meta /\ w.len = k /\ PartOf(w).pos = pos /\ pos \in Int BY <2>1, <2>2, <1>3 DEF Meta, PartOf
  <2>4. pushMeta' = Append(pushMeta, w) /\ pkgBuffer' = pkgBuffer \o WordsOf(pos, w.len) /\ written' \in Nat
        /\ UNCHANGED <<side, fsmVars, wrMemCmd, wrData>>
    BY <2>1, <2>2, <2>3, <1>3, <1>5 DEF Accept, AcceptFin, Take
  <2>5. (WriterTypes /\ CommandsFit /\ WriterOk(cp, Append(pk, PartOf(w)), n, q))'
    BY <2>2, <2>3, <2>4, <1>1, <1>2, <1>3, PackageKeeps
  <2>6. Placed(cp, q, ap, s, d, c, m, start)' /\ TellTypes' BY <1>1, <1>2, <1>4, <1>5, AcceptPlaced
  <2> QED BY <2>5, <2>6 DEF BytesWritten
<1>6. CASE Refuse(k)
  <2>1. PICK w : w = [pos |-> written, len |-> k, drop |-> TRUE] OBVIOUS
  <2>2. PICK pos : pos = -1 - k OBVIOUS
  <2>3. w \in Meta /\ w.len = k /\ PartOf(w).pos = pos /\ pos \in Int BY <2>1, <2>2, <1>3 DEF Meta, PartOf
  <2>4. pushMeta' = Append(pushMeta, w) /\ pkgBuffer' = pkgBuffer \o WordsOf(pos, w.len) /\ written' \in Nat
        /\ UNCHANGED <<side, fsmVars, wrMemCmd, wrData>>
    BY <2>1, <2>2, <2>3, <1>3, <1>6 DEF Refuse
  <2>5. (WriterTypes /\ CommandsFit /\ WriterOk(cp, Append(pk, PartOf(w)), n, q))'
    BY <2>2, <2>3, <2>4, <1>1, <1>2, PackageKeeps
  <2>6. Placed(cp, q, ap, s, d, c, m, start)' /\ TellTypes' BY <1>1, <1>2, <1>4, <1>6, RefusePlaced
  <2> QED BY <2>5, <2>6 DEF BytesWritten
<1> QED BY <1>5, <1>6

LEMMA ToldWritten ==
  ASSUME NEW start, BytesWritten(start), FirstOfTwo \/ MakeKnown
  PROVE  BytesWritten(start)'
<1>1. WriterTypes /\ CommandsFit /\ TellTypes BY DEF BytesWritten
<1>2. PICK cp, pk, n, q, ap, s, d, c, m : WriterOk(cp, pk, n, q) /\ Placed(cp, q, ap, s, d, c, m, start) BY DEF BytesWritten
<1>3. cp \in Seq(Part)
  <2>1. PICK left : left = Missing(pk) OBVIOUS
  <2>2. Commanded(cp, left) BY <2>1, <1>2 DEF WriterOk
  <2> QED BY <2>2, <1>1, LastFits
<1>4. UNCHANGED <<side, written, pushMeta, pkgBuffer, fsmVars, wrMemCmd, wrData>> BY DEF FirstOfTwo, MakeKnown
<1>5. (WriterTypes /\ CommandsFit /\ WriterOk(cp, pk, n, q))' BY <1>1, <1>2, <1>4, WriterOkSame
<1>6. CASE FirstOfTwo
  <2>1. Placed(cp, q, ap, s, d, c, m, start)' /\ TellTypes' BY <1>1, <1>2, <1>6, FirstOfTwoPlaced DEF WriterTypes
  <2> QED BY <2>1, <1>5 DEF BytesWritten
<1>7. CASE MakeKnown
  <2>1. (\E rest : Placed(cp, q, rest, s, d, c, m, start)') /\ TellTypes' BY <1>1, <1>2, <1>3, <1>7, MakeKnownPlaced
  <2> QED BY <2>1, <1>5 DEF BytesWritten
<1> QED BY <1>6, <1>7

(* What the memory holds, as far as a reader needs to know. *)
LEMMA WrittenIs ==
  ASSUME NEW start, BytesWritten(start)
  PROVE  /\ WriterTypes /\ freed \in Nat /\ told \in Nat /\ requested \in Nat /\ failures \in Nat
         /\ freed <= requested /\ requested <= told /\ start \in Nat /\ start <= freed
         /\ memory \in [0 .. B - 1 -> Int]
         /\ written \in Nat /\ (~ended => written <= freed + (B - 1)) /\ (ended => side = "rx")
         /\ \A pos \in freed .. told - 1 : written <= pos + B => memory[Addr(pos)] = pos
         /\ \A pos \in start .. told - 1 : Later(memory[Addr(pos)], pos)
<1>1. WriterTypes /\ CommandsFit /\ TellTypes BY DEF BytesWritten
<1>2. PICK cp, pk, n, q, ap, s, d, c, m : WriterOk(cp, pk, n, q) /\ Placed(cp, q, ap, s, d, c, m, start) BY DEF BytesWritten
<1>3. cp \in Seq(Part)
  <2>1. PICK left : left = Missing(pk) OBVIOUS
  <2>2. Commanded(cp, left) BY <2>1, <1>2 DEF WriterOk
  <2> QED BY <2>2, <1>1, LastFits
<1>4. freed \in Nat /\ told \in Nat /\ requested \in Nat /\ failures \in Nat /\ memory \in [0 .. B - 1 -> Int] BY <1>1 DEF TellTypes
<1>5. written \in Nat BY <1>1 DEF WriterTypes
<1>6. freed <= requested /\ requested <= told /\ told <= s /\ s <= d BY <1>1, <1>2, <1>3, <1>5, PlacesInOrder
<1>7. s \in Int /\ d \in Int /\ InMemory(start, d) BY <1>2 DEF Placed
<1>8. start \in Nat /\ start <= freed BY <1>7 DEF InMemory
<1>9. \A pos \in freed .. told - 1 : pos \in freed .. d - 1 BY <1>4, <1>6, <1>7
<1>10. \A pos \in start .. told - 1 : pos \in start .. d - 1 BY <1>4, <1>6, <1>7, <1>8
<1>11. (~ended => written <= freed + (B - 1)) /\ (ended => side = "rx") BY <1>2 DEF Placed, Ordered
<1> QED BY <1>1, <1>4, <1>5, <1>6, <1>7, <1>8, <1>9, <1>10, <1>11 DEF InMemory

----------------------------------------------------------------------------
(* From the requests to the answers.                                       *)

(* The reads whose answer is not complete: the one being answered, and those asked for. *)
Reads == IF rdState = "idle" THEN rdAsked ELSE <<out.req>> \o rdAsked

ReaderTypes ==
  /\ rdRequests \in Seq(Notice) /\ rdAsked \in Seq(Notice) /\ rdDouble \in Seq(BOOLEAN)
  /\ rdSecond \in Seq(Cmd) /\ rdMemCmd \in Seq(Cmd) /\ rdData \in Seq(Word)
  /\ rdState \in {"idle", "stream", "join", "merged", "residue"} /\ rdFlag \in BOOLEAN /\ rdWord \in Word /\ rdOffset \in 0 .. W
  /\ out.req \in [pos : Nat, len : Nat] /\ out.words \in Seq(Word) /\ out = [req |-> out.req, words |-> out.words]
  /\ rdState # "idle" => out.req \in Notice

(* The bytes of a word from one on are those of the stream from a position on. *)
BytesAt(w, from, count, pos) == \A b \in 0 .. count - 1 : Brings(w.data[from + b], pos + b)

(* The word is the next one of the access that holds the position. *)
ComesAt(w, pos) ==
  \E b : /\ Ends(Reads, pos, b) /\ w.keep = Smaller(W, b - pos) /\ (w.last <=> pos + w.keep = b)
         /\ BytesAt(w, 0, w.keep, pos)

(* The words in rdData are those of ws, from u to v; the commands are for rp, up to x; the second  *)
(* access, for what is left up to y.                                                               *)
Arrived(u, v, ws) ==
  /\ ws \in Seq(Part) /\ Chain(ws, u, v) /\ Len(ws) = Len(rdData)
  /\ \A i \in 1 .. Len(ws) : ws[i].len = rdData[i].keep /\ ComesAt(rdData[i], ws[i].pos)
Asked(v, x, rp) ==
  /\ rp \in Seq(Part) /\ Chain(rp, v, x) /\ Len(rp) = Len(rdMemCmd)
  /\ \A i \in 1 .. Len(rp) : /\ rp[i].len = rdMemCmd[i].len /\ Addr(rp[i].pos) = rdMemCmd[i].addr
                             /\ rdMemCmd[i].addr + rdMemCmd[i].len <= B /\ Ends(Reads, rp[i].pos, End(rp[i]))
LeftOver(x, y) ==
  IF rdSecond = <<>> THEN x = y
  ELSE /\ Len(rdSecond) = 1 /\ rdSecond[1].addr = 0 /\ Addr(x) = 0 /\ y = x + rdSecond[1].len
       /\ Ends(Reads, x, y)
Doubles == Len(rdDouble) = Len(rdAsked) /\ \A i \in 1 .. Len(rdAsked) : rdDouble[i] = Passes(rdAsked[i])

(* The answer so far. *)
At == out.req.pos + Len(out.words) * W
Whole(i) == out.words[i].keep = W /\ ~out.words[i].last /\ BytesAt(out.words[i], 0, W, out.req.pos + (i - 1) * W)
Complete ==
  LET n == Len(out.words)
      w == out.words[n] IN
  n = 0 \/ /\ \A i \in 1 .. n - 1 : Whole(i)
           /\ BytesAt(w, 0, w.keep, out.req.pos + (n - 1) * W)
           /\ w.last /\ w.keep <= W /\ (n - 1) * W + w.keep = out.req.len

(* n bytes wait in rdWord, from one on, for the next word of the answer; rdData goes on at u. *)
Waits(from, n, u) == At + n = u /\ BytesAt(rdWord, from, n, At)
Answered(z, u) ==
  /\ rdState = "idle" => u = z /\ Complete
  /\ rdState # "idle" => (\A i \in 1 .. Len(out.words) : Whole(i)) /\ At <= u /\ u <= End(out.req)
  /\ rdState = "stream" => u = At /\ u < End(out.req) /\ (rdFlag <=> Passes(out.req) /\ u < Wrap(out.req))
  /\ rdState \in {"join", "merged", "residue"} => rdOffset >= 1 /\ rdOffset < W
  /\ rdState \in {"join", "merged"} => Passes(out.req) /\ Wrap(out.req) <= u /\ u < End(out.req)
  /\ rdState = "join" => u = Wrap(out.req) /\ Waits(0, rdOffset, u)
  /\ rdState = "merged" => Waits(W - rdOffset, rdOffset, u)
  /\ rdState = "residue" =>
       LET r == rdWord.keep - (W - rdOffset) IN
       r \in 0 .. rdOffset /\ u = End(out.req) /\ Waits(W - rdOffset, r, u)

ReaderOk(z, u, v, x, y, ws, rp, start) ==
  /\ z \in Int /\ u \in Int /\ v \in Int /\ x \in Int /\ y \in Int
  /\ start <= z /\ (side = "tx" => freed <= z)
  /\ Chain(Reads, z, y) /\ Chain(rdRequests, y, requested) /\ Doubles
  /\ Arrived(u, v, ws) /\ Asked(v, x, rp) /\ LeftOver(x, y) /\ Answered(z, u)

LEMMA WithinOn ==
  ASSUME NEW x \in Notice, NEW p \in Int, NEW b, Within(x, p, b), NEW e \in Int, p <= e, e < b
  PROVE  Within(x, e, b)
<1>1. x.pos \in Nat /\ Wrap(x) \in Nat /\ End(x) \in Nat /\ b \in Nat BY NoticeIs, WithinIs
<1>2. x.pos <= p /\ p < End(x) /\ b = IF Passes(x) /\ p < Wrap(x) THEN Wrap(x) ELSE End(x) BY DEF Within
<1>3. e < End(x)
  <2>1. b <= End(x) BY WithinIs
  <2> QED BY <2>1, <1>1
<1>4. x.pos <= e BY <1>1, <1>2
<1>5. b = IF Passes(x) /\ e < Wrap(x) THEN Wrap(x) ELSE End(x)
  <2>1. CASE Passes(x) /\ p < Wrap(x)
    <3>1. b = Wrap(x) BY <2>1, <1>2
    <3> QED BY <3>1, <2>1
  <2>2. CASE Passes(x) /\ ~(p < Wrap(x))
    <3>1. ~(e < Wrap(x)) BY <2>2, <1>1
    <3> QED BY <3>1, <2>2, <1>2
  <2>3. CASE ~Passes(x) BY <2>3, <1>2
  <2> QED BY <2>1, <2>2, <2>3
<1> QED BY <1>3, <1>4, <1>5 DEF Within

LEMMA EndsOn ==
  ASSUME NEW q \in Seq(Notice), NEW p \in Int, NEW b, Ends(q, p, b), NEW e \in Int, p <= e, e < b
  PROVE  Ends(q, e, b) /\ b \in Nat /\ p < b
<1>1. PICK i \in 1 .. Len(q) : Within(q[i], p, b) BY DEF Ends
<1>2. q[i] \in Notice BY NoticesAreParts
<1>3. Within(q[i], e, b) BY <1>1, <1>2, WithinOn
<1>4. b \in Nat /\ p < b BY <1>1, <1>2, WithinIs
<1> QED BY <1>3, <1>4 DEF Ends

LEMMA ReadsAre ==
  ASSUME ReaderTypes
  PROVE  /\ Reads \in Seq(Notice) /\ Len(Reads) \in Nat /\ Len(rdAsked) \in Nat
         /\ rdState = "idle" => Reads = rdAsked
         /\ rdState # "idle" => /\ out.req \in Notice /\ Len(Reads) = Len(rdAsked) + 1 /\ Reads # <<>> /\ Reads[1] = out.req
                                /\ Tail(Reads) = rdAsked
<1>1. rdAsked \in Seq(Notice) /\ Len(rdAsked) \in Nat BY EmptyIs DEF ReaderTypes
<1>2. CASE rdState = "idle" BY <1>1, <1>2 DEF Reads
<1>3. CASE rdState # "idle"
  <2>1. PICK r : r = out.req OBVIOUS
  <2>2. r \in Notice BY <2>1, <1>3 DEF ReaderTypes
  <2>3. Reads = <<r>> \o rdAsked BY <2>1, <1>3 DEF Reads
  <2>4. <<r>> \o rdAsked \in Seq(Notice) /\ Len(<<r>> \o rdAsked) = Len(rdAsked) + 1 /\ (<<r>> \o rdAsked)[1] = r /\ Tail(<<r>> \o rdAsked) = rdAsked
    BY <2>2, <1>1
  <2>5. Reads # <<>>
    <3>1. Reads \in Seq(Notice) /\ Len(Reads) # 0 BY <2>3, <2>4, <1>1
    <3> QED BY <3>1, EmptyIs
  <2>6. /\ Reads \in Seq(Notice) /\ Len(Reads) = Len(rdAsked) + 1 /\ Reads[1] = out.req /\ Tail(Reads) = rdAsked
    BY <2>1, <2>3, <2>4
  <2>7. Len(Reads) \in Nat BY <2>6, <1>1
  <2>8. out.req \in Notice BY <2>1, <2>2
  <2> QED BY <2>5, <2>6, <2>7, <2>8, <1>1, <1>3
<1> QED BY <1>2, <1>3

(* When the reads change in front or behind, what has arrived and has been asked for stays. *)
LEMMA BytesAtSame ==
  ASSUME NEW w, NEW from, NEW count, NEW pos, BytesAt(w, from, count, pos), UNCHANGED side
  PROVE  BytesAt(w, from, count, pos)'
BY DEF BytesAt, Brings, Addr

LEMMA ComesSame ==
  ASSUME NEW w, NEW pos \in Int, ComesAt(w, pos), \A b : Ends(Reads, pos, b) => Ends(Reads', pos, b), UNCHANGED side
  PROVE  ComesAt(w, pos)'
<1>1. PICK b : /\ Ends(Reads, pos, b) /\ w.keep = Smaller(W, b - pos) /\ (w.last <=> pos + w.keep = b)
               /\ BytesAt(w, 0, w.keep, pos)
  BY DEF ComesAt
<1>2. BytesAt(w, 0, w.keep, pos)' BY <1>1, BytesAtSame
<1>3. Ends(Reads', pos, b) BY <1>1
<1> QED BY <1>1, <1>2, <1>3 DEF ComesAt, Smaller, Ends, Within, Passes, PassesEnd, Wrap, End, Addr

LEMMA ArrivedSame ==
  ASSUME NEW u \in Int, NEW v \in Int, NEW ws, Arrived(u, v, ws), UNCHANGED <<side, rdData>>,
         \A p \in Int : \A b : u <= p /\ Ends(Reads, p, b) => Ends(Reads', p, b)
  PROVE  Arrived(u, v, ws)'
<1>1. ws \in Seq(Part) /\ Chain(ws, u, v) /\ Len(ws) = Len(rdData) BY DEF Arrived
<1>2. ASSUME NEW i \in 1 .. Len(ws) PROVE ws[i].len = rdData'[i].keep /\ ComesAt(rdData[i], ws[i].pos)'
  <2>1. ws[i].len = rdData[i].keep /\ ComesAt(rdData[i], ws[i].pos) BY DEF Arrived
  <2>2. u <= ws[i].pos /\ ws[i].pos \in Int BY <1>1, PartIs DEF Chain
  <2>3. PICK w : w = rdData[i] OBVIOUS
  <2>4. rdData'[i] = w /\ ComesAt(w, ws[i].pos) BY <2>1, <2>3
  <2>5. ComesAt(w, ws[i].pos)' BY <2>2, <2>4, ComesSame
  <2> QED BY <2>1, <2>3, <2>4, <2>5
<1> QED BY <1>1, <1>2 DEF Arrived, Chain, End

LEMMA AskedSame ==
  ASSUME NEW v \in Int, NEW x \in Int, NEW rp, Asked(v, x, rp), UNCHANGED rdMemCmd,
         \A p \in Int : \A b : v <= p /\ Ends(Reads, p, b) => Ends(Reads', p, b)
  PROVE  Asked(v, x, rp)'
<1>1. rp \in Seq(Part) /\ Chain(rp, v, x) /\ Len(rp) = Len(rdMemCmd) BY DEF Asked
<1>2. ASSUME NEW i \in 1 .. Len(rp)
      PROVE  /\ rp[i].len = rdMemCmd'[i].len /\ Addr(rp[i].pos) = rdMemCmd'[i].addr
             /\ rdMemCmd'[i].addr + rdMemCmd'[i].len <= B /\ Ends(Reads', rp[i].pos, End(rp[i]))
  <2>1. /\ rp[i].len = rdMemCmd[i].len /\ Addr(rp[i].pos) = rdMemCmd[i].addr
        /\ rdMemCmd[i].addr + rdMemCmd[i].len <= B /\ Ends(Reads, rp[i].pos, End(rp[i]))
    BY DEF Asked
  <2>2. v <= rp[i].pos /\ rp[i].pos \in Int BY <1>1, PartIs DEF Chain
  <2> QED BY <2>1, <2>2
<1> QED BY <1>1, <1>2 DEF Asked, Chain, End, Ends, Within, Passes, PassesEnd, Wrap, Addr

LEMMA LeftOverSame ==
  ASSUME NEW x \in Int, NEW y, LeftOver(x, y), UNCHANGED rdSecond,
         \A b : Ends(Reads, x, b) => Ends(Reads', x, b)
  PROVE  LeftOver(x, y)'
BY DEF LeftOver, End, Ends, Within, Passes, PassesEnd, Wrap, Addr

LEMMA AnsweredSame ==
  ASSUME NEW z, NEW u, Answered(z, u), UNCHANGED <<side, rdState, rdFlag, rdWord, rdOffset, out>>
  PROVE  Answered(z, u)'
BY DEF Answered, Complete, Whole, Waits, At, BytesAt, Brings, Passes, PassesEnd, Wrap, End, Addr

(* The reader's part of the invariant. *)
BytesRead(start) == ReaderTypes /\ \E z, u, v, x, y, ws, rp : ReaderOk(z, u, v, x, y, ws, rp, start)

LEMMA PositionsRead ==
  ASSUME ReaderTypes, requested \in Int, NEW z, NEW u, NEW v, NEW x, NEW y, NEW ws, NEW rp, NEW start,
         ReaderOk(z, u, v, x, y, ws, rp, start)
  PROVE  /\ z \in Int /\ u \in Int /\ v \in Int /\ x \in Int /\ y \in Int
         /\ z <= u /\ u <= v /\ v <= x /\ x <= y /\ y <= requested
<1>1. z \in Int /\ u \in Int /\ v \in Int /\ x \in Int /\ y \in Int BY DEF ReaderOk
<1>2. u <= v BY DEF ReaderOk, Arrived, Chain
<1>3. v <= x BY DEF ReaderOk, Asked, Chain
<1>4. y <= requested BY DEF ReaderOk, Chain
<1>5. x <= y
  <2>1. CASE rdSecond = <<>> BY <2>1, <1>1 DEF ReaderOk, LeftOver
  <2>2. CASE rdSecond # <<>>
    <3>1. Ends(Reads, x, y) /\ Chain(Reads, z, y) BY <2>2 DEF ReaderOk, LeftOver
    <3> QED BY <3>1, <1>1, ReadsAre, EndsAre
  <2> QED BY <2>1, <2>2
<1>6. z <= u
  <2>1. CASE rdState = "idle" BY <2>1, <1>1 DEF ReaderOk, Answered
  <2>2. CASE rdState # "idle"
    <3>1. out.req \in Notice /\ Reads # <<>> /\ Reads[1] = out.req /\ Reads \in Seq(Notice) BY <2>2, ReadsAre
    <3>2. out.req.pos = z BY <3>1, <1>1, ChainTail, NoticesAreParts DEF ReaderOk
    <3>3. At <= u BY <2>2 DEF ReaderOk, Answered
    <3>4. Len(out.words) \in Nat BY EmptyIs DEF ReaderTypes
    <3>5. PICK k : k = Len(out.words) * W OBVIOUS
    <3>6. k \in Nat BY <3>4, <3>5, BytesAre
    <3>7. At = z + k BY <3>2, <3>5 DEF At
    <3> QED BY <3>3, <3>6, <3>7, <1>1
  <2> QED BY <2>1, <2>2
<1> QED BY <1>1, <1>2, <1>3, <1>4, <1>5, <1>6

LEMMA DeliveredIs ==
  ASSUME ReaderTypes, requested \in Int, NEW z \in Int, NEW y \in Int, Chain(Reads, z, y), Chain(rdRequests, y, requested)
  PROVE  Delivered = z
<1>1. Reads \in Seq(Notice) /\ Reads \in Seq(Part) BY ReadsAre, NoticesAreParts
<1>2. CASE rdState # "idle"
  <2>1. Reads # <<>> /\ Reads[1] = out.req BY <1>2, ReadsAre
  <2>2. Reads[1].pos = z BY <2>1, <1>1, ChainTail
  <2> QED BY <2>1, <2>2, <1>2 DEF Delivered
<1>3. CASE rdState = "idle" /\ rdAsked # <<>>
  <2>1. Reads = rdAsked BY <1>3, ReadsAre
  <2>2. Reads[1].pos = z BY <2>1, <1>1, <1>3, ChainTail
  <2>3. Head(rdAsked) = Reads[1] BY <2>1, <1>1, <1>3, TailIs
  <2> QED BY <2>2, <2>3, <1>3 DEF Delivered
<1>4. CASE rdState = "idle" /\ rdAsked = <<>>
  <2>1. Reads = <<>> BY <1>4, ReadsAre
  <2>2. z = y BY <2>1 DEF Chain
  <2>3. rdRequests \in Seq(Notice) /\ rdRequests \in Seq(Part) BY NoticesAreParts DEF ReaderTypes
  <2>4. CASE rdRequests # <<>>
    <3>1. rdRequests[1].pos = y /\ Head(rdRequests) = rdRequests[1] BY <2>3, <2>4, ChainTail, TailIs
    <3> QED BY <3>1, <2>2, <2>4, <1>4 DEF Delivered
  <2>5. CASE rdRequests = <<>>
    <3>1. y = requested BY <2>5 DEF Chain
    <3> QED BY <3>1, <2>2, <2>5, <1>4 DEF Delivered
  <2> QED BY <2>4, <2>5
<1> QED BY <1>2, <1>3, <1>4

LEMMA ReadSame ==
  ASSUME NEW start, BytesRead(start), requested \in Int, UNCHANGED <<side, requested, readerVars>>,
         side = "tx" => freed' = freed \/ freed' = Delivered
  PROVE  BytesRead(start)'
<1>1. UNCHANGED <<rdRequests, rdSecond, rdMemCmd, rdDouble, rdAsked, rdData, rdState, rdFlag, rdWord, rdOffset, out>> BY DEF readerVars
<1>2. ReaderTypes BY DEF BytesRead
<1>3. PICK z, u, v, x, y, ws, rp : ReaderOk(z, u, v, x, y, ws, rp, start) BY DEF BytesRead
<1>4. /\ z \in Int /\ u \in Int /\ v \in Int /\ x \in Int /\ y \in Int
      /\ start <= z /\ (side = "tx" => freed <= z)
      /\ Chain(Reads, z, y) /\ Chain(rdRequests, y, requested) /\ Doubles
      /\ Arrived(u, v, ws) /\ Asked(v, x, rp) /\ LeftOver(x, y) /\ Answered(z, u)
  BY <1>3 DEF ReaderOk
<1>5. Reads' = Reads BY <1>1 DEF Reads
<1>6. Arrived(u, v, ws)' BY <1>1, <1>4, <1>5, ArrivedSame
<1>7. Asked(v, x, rp)' BY <1>1, <1>4, <1>5, AskedSame
<1>8. LeftOver(x, y)' BY <1>1, <1>4, <1>5, LeftOverSame
<1>9. Answered(z, u)' BY <1>1, <1>4, AnsweredSame
<1>10. Doubles' BY <1>1, <1>4 DEF Doubles, Passes, PassesEnd, Addr
<1>11. Chain(Reads, z, y)' /\ Chain(rdRequests, y, requested)' BY <1>1, <1>4, <1>5 DEF Chain, End
<1>12. side = "tx" => freed' <= z BY <1>2, <1>4, DeliveredIs
<1>13. ReaderOk(z, u, v, x, y, ws, rp, start)' BY <1>4, <1>6, <1>7, <1>8, <1>9, <1>10, <1>11, <1>12 DEF ReaderOk
<1>14. ReaderTypes' BY <1>1, <1>2 DEF ReaderTypes, Notice
<1> QED BY <1>13, <1>14 DEF BytesRead

LEMMA RequestRead ==
  ASSUME NEW start, BytesRead(start), requested \in Nat, NEW n \in 1 .. B, Request(n)
  PROVE  BytesRead(start)'
<1> DEFINE r == [pos |-> requested, len |-> n]
<1>1. /\ rdRequests' = Append(rdRequests, r) /\ requested' = requested + n /\ (side # "rx" => freed' = freed)
      /\ UNCHANGED <<side, rdSecond, rdMemCmd, rdDouble, rdAsked, rdData, rdState, rdFlag, rdWord, rdOffset, out>>
  BY DEF Request
<1>2. ReaderTypes BY DEF BytesRead
<1>3. PICK z, u, v, x, y, ws, rp : ReaderOk(z, u, v, x, y, ws, rp, start) BY DEF BytesRead
<1>4. /\ z \in Int /\ u \in Int /\ v \in Int /\ x \in Int /\ y \in Int
      /\ start <= z /\ (side = "tx" => freed <= z)
      /\ Chain(Reads, z, y) /\ Chain(rdRequests, y, requested) /\ Doubles
      /\ Arrived(u, v, ws) /\ Asked(v, x, rp) /\ LeftOver(x, y) /\ Answered(z, u)
  BY <1>3 DEF ReaderOk
<1>5. Reads' = Reads BY <1>1 DEF Reads
<1>6. Arrived(u, v, ws)' BY <1>1, <1>4, <1>5, ArrivedSame
<1>7. Asked(v, x, rp)' BY <1>1, <1>4, <1>5, AskedSame
<1>8. LeftOver(x, y)' BY <1>1, <1>4, <1>5, LeftOverSame
<1>9. Answered(z, u)' BY <1>1, <1>4, AnsweredSame
<1>10. Doubles' BY <1>1, <1>4 DEF Doubles, Passes, PassesEnd, Addr
<1>11. r \in Notice /\ r.pos = requested /\ End(r) = requested + n /\ r \in Part
  <2>1. r \in Notice BY DEF Notice
  <2> QED BY <2>1, NoticeIs DEF End
<1> HIDE DEF r
<1>12. rdRequests \in Seq(Notice) /\ rdRequests \in Seq(Part) BY <1>2, NoticesAreParts DEF ReaderTypes
<1>13. Chain(rdRequests', y, requested') BY <1>1, <1>4, <1>11, <1>12, ChainAppend
<1>14. rdRequests' \in Seq(Notice) BY <1>1, <1>11, <1>12, AppendIs
<1>15. Chain(Reads, z, y)' /\ Chain(rdRequests, y, requested)' BY <1>4, <1>5, <1>13 DEF Chain, End
<1>16. side = "tx" => freed' <= z BY <1>1, <1>4
<1>17. ReaderOk(z, u, v, x, y, ws, rp, start)' BY <1>1, <1>4, <1>6, <1>7, <1>8, <1>9, <1>10, <1>15, <1>16 DEF ReaderOk
<1>18. ReaderTypes' BY <1>1, <1>2, <1>14 DEF ReaderTypes, Notice
<1> QED BY <1>17, <1>18 DEF BytesRead

(* The commands grow by one access, the last of what is asked for. *)
LEMMA AskedMore ==
  ASSUME NEW v \in Int, NEW x \in Int, NEW rp, Asked(v, x, rp), rdMemCmd \in Seq(Cmd),
         \A p \in Int : \A b : v <= p /\ Ends(Reads, p, b) => Ends(Reads', p, b),
         NEW k \in Cmd, k.addr + k.len <= B, rdMemCmd' = Append(rdMemCmd, k), k.addr = Addr(x),
         NEW e \in Int, e = x + k.len, Ends(Reads', x, e)
  PROVE  (\E rq : Asked(v, e, rq)') /\ rdMemCmd' \in Seq(Cmd)
<1> DEFINE p == [pos |-> x, len |-> k.len]
           rq == Append(rp, p)
<1>1. rp \in Seq(Part) /\ Chain(rp, v, x) /\ Len(rp) = Len(rdMemCmd) BY DEF Asked
<1>2. p \in Part /\ p.pos = x /\ p.len = k.len /\ End(p) = e BY RingAssumption DEF Cmd, Part, End
<1> HIDE DEF p
<1>3. Chain(rq, v, e) BY <1>1, <1>2, ChainAppend
<1>4. rq \in Seq(Part) /\ Len(rp) \in Nat /\ Len(rq) = Len(rp) + 1 /\ rq[Len(rp) + 1] = p /\ \A i \in 1 .. Len(rp) : rq[i] = rp[i]
  BY <1>1, <1>2, AppendIs
<1>5. /\ rdMemCmd' \in Seq(Cmd) /\ Len(rdMemCmd') = Len(rdMemCmd) + 1 /\ rdMemCmd'[Len(rdMemCmd) + 1] = k
      /\ \A i \in 1 .. Len(rdMemCmd) : rdMemCmd'[i] = rdMemCmd[i]
  BY AppendIs
<1> HIDE DEF rq
<1>6. ASSUME NEW i \in 1 .. Len(rq)
      PROVE  /\ rq[i].len = rdMemCmd'[i].len /\ Addr(rq[i].pos) = rdMemCmd'[i].addr
             /\ rdMemCmd'[i].addr + rdMemCmd'[i].len <= B /\ Ends(Reads', rq[i].pos, End(rq[i]))
  <2>1. CASE i = Len(rp) + 1 BY <2>1, <1>1, <1>2, <1>4, <1>5
  <2>2. CASE i # Len(rp) + 1
    <3>1. i \in 1 .. Len(rp) BY <2>2, <1>4
    <3>2. rq[i] = rp[i] /\ rdMemCmd'[i] = rdMemCmd[i] BY <3>1, <1>1, <1>4, <1>5
    <3>3. v <= rp[i].pos /\ rp[i].pos \in Int BY <3>1, <1>1, PartIs DEF Chain
    <3>4. /\ rp[i].len = rdMemCmd[i].len /\ Addr(rp[i].pos) = rdMemCmd[i].addr
          /\ rdMemCmd[i].addr + rdMemCmd[i].len <= B /\ Ends(Reads, rp[i].pos, End(rp[i]))
      BY <3>1 DEF Asked
    <3> QED BY <3>2, <3>3, <3>4
  <2> QED BY <2>1, <2>2
<1>7. Len(rq) = Len(rdMemCmd') BY <1>1, <1>4, <1>5
<1>8. Asked(v, e, rq)' BY <1>3, <1>4, <1>6, <1>7 DEF Asked, Chain, End, Ends, Within, Passes, PassesEnd, Wrap, Addr
<1> QED BY <1>5, <1>8

LEMMA BreakSecondRead ==
  ASSUME NEW start, BytesRead(start), requested \in Int, UNCHANGED <<side, freed, requested>>, BreakSecond
  PROVE  BytesRead(start)'
<1>1. /\ rdSecond # <<>> /\ rdMemCmd' = rdMemCmd \o rdSecond /\ rdSecond' = <<>>
      /\ UNCHANGED <<rdRequests, rdDouble, rdAsked, rdData, rdState, rdFlag, rdWord, rdOffset, out>>
  BY DEF BreakSecond
<1>2. ReaderTypes BY DEF BytesRead
<1>3. PICK z, u, v, x, y, ws, rp : ReaderOk(z, u, v, x, y, ws, rp, start) BY DEF BytesRead
<1>4. /\ z \in Int /\ u \in Int /\ v \in Int /\ x \in Int /\ y \in Int
      /\ start <= z /\ (side = "tx" => freed <= z)
      /\ Chain(Reads, z, y) /\ Chain(rdRequests, y, requested) /\ Doubles
      /\ Arrived(u, v, ws) /\ Asked(v, x, rp) /\ LeftOver(x, y) /\ Answered(z, u)
  BY <1>3 DEF ReaderOk
<1>5. Reads' = Reads BY <1>1 DEF Reads
<1>6. Arrived(u, v, ws)' BY <1>1, <1>4, <1>5, ArrivedSame
<1>7. Answered(z, u)' BY <1>1, <1>4, AnsweredSame
<1>8. Doubles' BY <1>1, <1>4 DEF Doubles, Passes, PassesEnd, Addr
<1>9. Chain(Reads, z, y)' /\ Chain(rdRequests, y, requested)' BY <1>1, <1>4, <1>5 DEF Chain, End
<1>10. PICK k : k = rdSecond[1] OBVIOUS
<1>11. Len(rdSecond) = 1 /\ k.addr = 0 /\ Addr(x) = 0 /\ y = x + k.len /\ Ends(Reads, x, y) BY <1>1, <1>4, <1>10 DEF LeftOver
<1>12. rdSecond \in Seq(Cmd) /\ rdMemCmd \in Seq(Cmd) BY <1>2 DEF ReaderTypes
<1>13. k \in Cmd
  <2>1. 1 \in 1 .. Len(rdSecond) BY <1>11
  <2> QED BY <2>1, <1>10, <1>12, ElementIs
<1>14. rdMemCmd' = Append(rdMemCmd, k)
  <2>1. rdSecond = <<k>> BY <1>10, <1>11, <1>12
  <2> QED BY <2>1, <1>1, <1>12
<1>15. k.addr + k.len <= B BY <1>11, <1>13, RingAssumption DEF Cmd
<1>16. (\E rq : Asked(v, y, rq)') /\ rdMemCmd' \in Seq(Cmd)
  <2>1. Ends(Reads', x, y) /\ \A p \in Int : \A b : v <= p /\ Ends(Reads, p, b) => Ends(Reads', p, b) BY <1>5, <1>11
  <2> QED BY <2>1, <1>4, <1>11, <1>12, <1>13, <1>14, <1>15, AskedMore
<1>17. PICK rq : Asked(v, y, rq)' BY <1>16
<1>18. LeftOver(y, y)' BY <1>1 DEF LeftOver
<1>19. ReaderOk(z, u, v, y, y, ws, rq, start)' BY <1>4, <1>6, <1>7, <1>8, <1>9, <1>17, <1>18 DEF ReaderOk
<1>20. ReaderTypes' BY <1>1, <1>2, <1>16 DEF ReaderTypes, Notice, Cmd
<1> QED BY <1>19, <1>20 DEF BytesRead

LEMMA BreakFirstRead ==
  ASSUME NEW start, BytesRead(start), requested \in Int, UNCHANGED <<side, freed, requested>>, BreakFirst
  PROVE  BytesRead(start)'
<1>0. PICK r : r = Head(rdRequests) OBVIOUS
<1> DEFINE a == Addr(r.pos)
           first == IF PassesEnd(a, r.len) THEN B - a ELSE r.len
           k == [addr |-> a, len |-> first]
<1>1. /\ rdSecond = <<>> /\ rdRequests # <<>> /\ rdMemCmd' = Append(rdMemCmd, k)
      /\ rdSecond' = (IF PassesEnd(a, r.len) THEN <<[addr |-> 0, len |-> r.len - (B - a)]>> ELSE <<>>)
      /\ rdDouble' = Append(rdDouble, PassesEnd(a, r.len)) /\ rdAsked' = Append(rdAsked, r) /\ rdRequests' = Tail(rdRequests)
      /\ UNCHANGED <<rdData, rdState, rdFlag, rdWord, rdOffset, out>>
  BY <1>0 DEF BreakFirst
<1>2. ReaderTypes BY DEF BytesRead
<1>3. PICK z, u, v, x, y, ws, rp : ReaderOk(z, u, v, x, y, ws, rp, start) BY DEF BytesRead
<1>4. /\ z \in Int /\ u \in Int /\ v \in Int /\ x \in Int /\ y \in Int
      /\ start <= z /\ (side = "tx" => freed <= z)
      /\ Chain(Reads, z, y) /\ Chain(rdRequests, y, requested) /\ Doubles
      /\ Arrived(u, v, ws) /\ Asked(v, x, rp) /\ LeftOver(x, y) /\ Answered(z, u)
  BY <1>3 DEF ReaderOk
<1>5. rdRequests \in Seq(Notice) /\ rdRequests \in Seq(Part) /\ Tail(rdRequests) \in Seq(Notice) /\ r \in Notice /\ r = rdRequests[1]
  BY <1>0, <1>1, <1>2, TailIs, NoticesAreParts DEF ReaderTypes
<1>6. r \in Part /\ r.pos = y /\ Chain(Tail(rdRequests), End(r), requested) /\ End(r) \in Int /\ y < End(r)
  BY <1>1, <1>4, <1>5, ChainTail
<1>7. x = y BY <1>1, <1>4 DEF LeftOver
<1>8. /\ r.pos \in Nat /\ r.len \in Nat /\ r.len >= 1 /\ r.len <= B /\ End(r) = r.pos + r.len /\ a \in Nat /\ a < B /\ B \in Nat
      /\ Wrap(r) \in Nat /\ r.pos < Wrap(r) /\ Passes(r) \in BOOLEAN /\ (Passes(r) <=> Wrap(r) < End(r))
  BY <1>5, NoticeIs, RingAssumption
<1>9. Passes(r) = PassesEnd(a, r.len) BY DEF Passes
<1>10. Wrap(r) = r.pos + (B - a) BY DEF Wrap
<1>11. PICK e : e = (IF Passes(r) THEN Wrap(r) ELSE End(r)) OBVIOUS
<1> HIDE DEF a
<1>12. k \in Cmd /\ k.addr + k.len <= B /\ e = x + k.len /\ e \in Int /\ k.addr = Addr(x)
  <2>1. CASE Passes(r)
    <3>1. first = B - a BY <2>1, <1>9
    <3>2. B - a \in 1 .. B /\ a \in 0 .. B - 1 /\ a + (B - a) <= B BY <1>8
    <3> QED BY <3>1, <3>2, <2>1, <1>6, <1>7, <1>8, <1>10, <1>11 DEF Cmd, a
  <2>2. CASE ~Passes(r)
    <3>1. first = r.len BY <2>2, <1>9
    <3>2. a + r.len <= B
      <4>1. ~PassesEnd(a, r.len) BY <2>2, <1>9
      <4> QED BY <4>1, <1>8 DEF PassesEnd
    <3>3. r.len \in 1 .. B /\ a \in 0 .. B - 1 BY <1>8
    <3> QED BY <3>1, <3>2, <3>3, <2>2, <1>6, <1>7, <1>8, <1>11 DEF Cmd, a
  <2> QED BY <2>1, <2>2, <1>8
<1> HIDE DEF k
<1>13. rdAsked \in Seq(Notice) /\ rdDouble \in Seq(BOOLEAN) /\ rdMemCmd \in Seq(Cmd) BY <1>2 DEF ReaderTypes
<1>14. Reads \in Seq(Notice) /\ Reads \in Seq(Part) BY <1>2, ReadsAre, NoticesAreParts
<1>15. Reads' = Append(Reads, r)
  <2>1. CASE rdState = "idle" BY <2>1, <1>1 DEF Reads
  <2>2. CASE rdState # "idle"
    <3>1. PICK o : o = out.req OBVIOUS
    <3>2. o \in Notice BY <3>1, <2>2, <1>2 DEF ReaderTypes
    <3>3. Reads = <<o>> \o rdAsked /\ Reads' = <<o>> \o Append(rdAsked, r) BY <3>1, <2>2, <1>1 DEF Reads
    <3>4. <<o>> \o Append(rdAsked, r) = Append(<<o>> \o rdAsked, r) BY <3>2, <1>5, <1>13
    <3> QED BY <3>3, <3>4
  <2> QED BY <2>1, <2>2
<1>16. Chain(Reads', z, End(r)) BY <1>4, <1>6, <1>14, <1>15, ChainAppend
<1>17. ASSUME NEW p, NEW b, Ends(Reads, p, b) \/ Within(r, p, b) PROVE Ends(Reads', p, b) BY <1>5, <1>14, <1>15, <1>17, EndsAppend
<1>18. Ends(Reads', x, e)
  <2>1. Within(r, x, e) BY <1>6, <1>7, <1>8, <1>11 DEF Within
  <2> QED BY <2>1, <1>17
<1>19. (\E rq : Asked(v, e, rq)') /\ rdMemCmd' \in Seq(Cmd)
  <2>1. \A p \in Int : \A b : v <= p /\ Ends(Reads, p, b) => Ends(Reads', p, b) BY <1>17
  <2>2. v \in Int /\ x \in Int /\ Asked(v, x, rp) BY <1>4
  <2>3. rdMemCmd \in Seq(Cmd) BY <1>13
  <2>4. k \in Cmd /\ k.addr + k.len <= B /\ k.addr = Addr(x) /\ e \in Int /\ e = x + k.len BY <1>12
  <2>5. rdMemCmd' = Append(rdMemCmd, k) BY <1>1
  <2> QED BY <2>1, <2>2, <2>3, <2>4, <2>5, <1>18, AskedMore, Zenon
<1>20. PICK rq : Asked(v, e, rq)' BY <1>19
<1>21. LeftOver(e, End(r))' /\ rdSecond' \in Seq(Cmd)
  <2>1. CASE ~Passes(r)
    <3>1. rdSecond' = <<>> /\ e = End(r) BY <2>1, <1>1, <1>9, <1>11
    <3> QED BY <3>1 DEF LeftOver, End
  <2>2. CASE Passes(r)
    <3>1. PICK t : t = [addr |-> 0, len |-> r.len - (B - a)] OBVIOUS
    <3>2. rdSecond' = <<t>> /\ e = Wrap(r) BY <3>1, <2>2, <1>1, <1>9, <1>11
    <3>3. Addr(e) = 0 BY <3>2, <1>8, EndOfRing DEF Wrap
    <3>4. r.len - (B - a) \in 1 .. B /\ 0 \in 0 .. B - 1 /\ End(r) = e + (r.len - (B - a))
      BY <3>2, <2>2, <1>8, <1>10
    <3>5. t \in Cmd /\ t.addr = 0 /\ End(r) = e + t.len BY <3>1, <3>4 DEF Cmd
    <3>6. Within(r, e, End(r)) BY <3>2, <2>2, <1>8 DEF Within
    <3>7. Ends(Reads', e, End(r)) BY <3>6, <1>17
    <3>8. Len(rdSecond') = 1 /\ rdSecond'[1] = t /\ rdSecond' # <<>> /\ rdSecond' \in Seq(Cmd) BY <3>2, <3>5
    <3> QED BY <3>3, <3>5, <3>7, <3>8 DEF LeftOver, Ends, Within, Passes, PassesEnd, Wrap, End, Addr
  <2> QED BY <2>1, <2>2
<1>22. Doubles' /\ rdDouble' \in Seq(BOOLEAN) /\ rdAsked' \in Seq(Notice)
  <2>1. PICK t : t = PassesEnd(a, r.len) OBVIOUS
  <2>2. t \in BOOLEAN /\ rdDouble' = Append(rdDouble, t) /\ t = Passes(r) BY <2>1, <1>1, <1>9 DEF PassesEnd
  <2>3. /\ rdDouble' \in Seq(BOOLEAN) /\ Len(rdDouble) \in Nat /\ Len(rdDouble') = Len(rdDouble) + 1 /\ rdDouble'[Len(rdDouble) + 1] = t
        /\ \A i \in 1 .. Len(rdDouble) : rdDouble'[i] = rdDouble[i]
    BY <2>2, <1>13, AppendIs
  <2>4. /\ rdAsked' \in Seq(Notice) /\ Len(rdAsked') = Len(rdAsked) + 1 /\ rdAsked'[Len(rdAsked) + 1] = r
        /\ \A i \in 1 .. Len(rdAsked) : rdAsked'[i] = rdAsked[i]
    BY <1>1, <1>5, <1>13, AppendIs
  <2>5. Len(rdDouble) = Len(rdAsked) /\ \A i \in 1 .. Len(rdAsked) : rdDouble[i] = Passes(rdAsked[i]) BY <1>4 DEF Doubles
  <2>6. ASSUME NEW i \in 1 .. Len(rdAsked') PROVE rdDouble'[i] = Passes(rdAsked'[i])
    <3>1. CASE i = Len(rdAsked) + 1 BY <3>1, <2>2, <2>3, <2>4, <2>5
    <3>2. CASE i # Len(rdAsked) + 1
      <4>1. i \in 1 .. Len(rdAsked) BY <3>2, <2>3, <2>4, <2>5
      <4> QED BY <4>1, <2>3, <2>4, <2>5
    <3> QED BY <3>1, <3>2
  <2>7. Len(rdDouble') = Len(rdAsked') BY <2>3, <2>4, <2>5
  <2> QED BY <2>3, <2>4, <2>6, <2>7 DEF Doubles, Passes, PassesEnd, Addr
<1>23. Arrived(u, v, ws)'
  <2>1. \A p \in Int : \A b : u <= p /\ Ends(Reads, p, b) => Ends(Reads', p, b) BY <1>17
  <2> QED BY <2>1, <1>1, <1>4, ArrivedSame
<1>24. Answered(z, u)' BY <1>1, <1>4, AnsweredSame
<1>25. Chain(Reads, z, End(r))' /\ Chain(rdRequests, End(r), requested)'
  <2>1. rdRequests' = Tail(rdRequests) /\ requested' = requested BY <1>1
  <2> QED BY <2>1, <1>6, <1>16 DEF Chain, End
<1>26. ReaderOk(z, u, v, e, End(r), ws, rq, start)' BY <1>4, <1>6, <1>12, <1>20, <1>21, <1>22, <1>23, <1>24, <1>25 DEF ReaderOk, End
<1>27. ReaderTypes'
  <2>1. rdRequests' \in Seq(Notice) BY <1>1, <1>5
  <2> QED BY <2>1, <1>1, <1>2, <1>19, <1>21, <1>22 DEF ReaderTypes, Notice, Cmd
<1> QED BY <1>26, <1>27 DEF BytesRead

(* The memory brings the next word. *)
LEMMA MemoryBrings ==
  ASSUME NEW start, BytesWritten(start), NEW v \in Int, NEW e \in Int, start <= v, side = "tx" => freed <= v, e <= told,
         NEW a, a = Addr(v), a + (e - v) <= B, NEW pos \in Int, v <= pos, pos < e
  PROVE  Addr(pos) = a + (pos - v) /\ Brings(memory[a + (pos - v)], pos) /\ memory[a + (pos - v)] \in Int
<1>1. side \in Sides /\ freed \in Nat /\ told \in Nat /\ start \in Nat /\ memory \in [0 .. B - 1 -> Int] BY WrittenIs DEF WriterTypes
<1>2. a \in Nat /\ B \in Nat BY AddrIs
<1>3. PICK k : k = pos - v OBVIOUS
<1>4. k \in Nat /\ v + k = pos /\ a + k < B BY <1>2, <1>3
<1>5. Addr(pos) = a + k
  <2>1. Addr(v + k) = Addr(v) + k BY <1>4, AddrMoves
  <2> QED BY <2>1, <1>4
<1>6. a + k \in 0 .. B - 1 BY <1>2, <1>4
<1>7. memory[a + k] \in Int BY <1>1, <1>6
<1>8. Brings(memory[a + k], pos)
  <2>1. CASE side = "tx"
    <3>1. pos \in freed .. told - 1 BY <2>1, <1>1
    <3>2. ~ended /\ written \in Nat /\ written <= freed + (B - 1) BY <2>1, WrittenIs
    <3>3. written <= pos + B BY <3>1, <3>2, <1>1, <1>2
    <3>4. memory[Addr(pos)] = pos BY <3>1, <3>3, WrittenIs
    <3> QED BY <3>4, <1>5 DEF Brings
  <2>2. CASE side = "rx"
    <3>1. pos \in start .. told - 1 BY <1>1
    <3>2. Later(memory[Addr(pos)], pos) BY <3>1, WrittenIs
    <3> QED BY <3>2, <2>2, <1>5, <1>7 DEF Brings, Later
  <2> QED BY <2>1, <2>2, <1>1 DEF Sides
<1> QED BY <1>3, <1>5, <1>7, <1>8

LEMMA ArrivedMore ==
  ASSUME NEW u \in Int, NEW v \in Int, NEW ws, Arrived(u, v, ws), rdData \in Seq(Word), UNCHANGED <<side, rdState, rdAsked, out>>,
         NEW w \in Word, w.keep >= 1, ComesAt(w, v), rdData' = Append(rdData, w), NEW e, e = v + w.keep
  PROVE  (\E wq : Arrived(u, e, wq)') /\ e \in Int /\ rdData' \in Seq(Word)
<1> DEFINE p == [pos |-> v, len |-> w.keep]
           wq == Append(ws, p)
<1>1. ws \in Seq(Part) /\ Chain(ws, u, v) /\ Len(ws) = Len(rdData) BY DEF Arrived
<1>2. w.keep \in Nat \ {0} BY WordIs
<1>3. p \in Part /\ p.pos = v /\ p.len = w.keep /\ End(p) = e /\ e \in Int BY <1>2 DEF Part, End
<1> HIDE DEF p
<1>4. Chain(wq, u, e) BY <1>1, <1>3, ChainAppend
<1>5. wq \in Seq(Part) /\ Len(ws) \in Nat /\ Len(wq) = Len(ws) + 1 /\ wq[Len(ws) + 1] = p /\ \A i \in 1 .. Len(ws) : wq[i] = ws[i]
  BY <1>1, <1>3, AppendIs
<1>6. /\ rdData' \in Seq(Word) /\ Len(rdData') = Len(rdData) + 1 /\ rdData'[Len(rdData) + 1] = w
      /\ \A i \in 1 .. Len(rdData) : rdData'[i] = rdData[i]
  BY AppendIs
<1> HIDE DEF wq
<1>7. Reads' = Reads BY DEF Reads
<1>8. ASSUME NEW i \in 1 .. Len(wq) PROVE wq[i].len = rdData'[i].keep /\ ComesAt(rdData[i], wq[i].pos)'
  <2>0. PICK o : o = rdData'[i] OBVIOUS
  <2>1. CASE i = Len(ws) + 1
    <3>1. o = w /\ wq[i] = p BY <2>0, <2>1, <1>1, <1>5, <1>6
    <3>2. ComesAt(w, v)' BY <1>7, ComesSame
    <3> QED BY <3>1, <3>2, <2>0, <1>3
  <2>2. CASE i # Len(ws) + 1
    <3>1. i \in 1 .. Len(ws) BY <2>2, <1>5
    <3>2. wq[i] = ws[i] /\ o = rdData[i] BY <3>1, <2>0, <1>1, <1>5, <1>6
    <3>3. ws[i].len = rdData[i].keep /\ ComesAt(rdData[i], ws[i].pos) BY <3>1 DEF Arrived
    <3>4. ws[i].pos \in Int BY <3>1, <1>1, PartIs
    <3>5. ComesAt(o, ws[i].pos)' BY <3>2, <3>3, <3>4, <1>7, ComesSame
    <3> QED BY <3>2, <3>3, <3>5, <2>0
  <2> QED BY <2>1, <2>2
<1>9. Len(wq) = Len(rdData') BY <1>1, <1>5, <1>6
<1>10. Arrived(u, e, wq)' BY <1>4, <1>5, <1>8, <1>9 DEF Arrived, Chain, End
<1> QED BY <1>3, <1>6, <1>10

LEMMA SecondFirst ==
  ASSUME NEW T, NEW c \in T, NEW t \in Seq(T), NEW u, u = <<c>> \o t
  PROVE  u \in Seq(T) /\ Len(u) = 1 + Len(t) /\ u[1] = c /\ \A i \in 1 .. Len(t) : u[i + 1] = t[i]
OBVIOUS

(* The first command gets shorter, or is done. *)
LEMMA AskedLess ==
  ASSUME NEW v \in Int, NEW x \in Int, NEW rp, Asked(v, x, rp), rdMemCmd \in Seq(Cmd), ReaderTypes, UNCHANGED <<rdState, rdAsked, out>>,
         rdMemCmd # <<>>, NEW k, k = rdMemCmd[1], NEW w \in Word, w.keep >= 1, w.keep <= k.len, w.last <=> w.keep = k.len,
         rdMemCmd' = IF w.last THEN Tail(rdMemCmd) ELSE <<[addr |-> k.addr + w.keep, len |-> k.len - w.keep]>> \o Tail(rdMemCmd),
         NEW e, e = v + w.keep
  PROVE  (\E rq : Asked(e, x, rq)') /\ rdMemCmd' \in Seq(Cmd)
<1> DEFINE rq == Took(rp, w)
<1>1. rp \in Seq(Part) /\ Chain(rp, v, x) /\ Len(rp) = Len(rdMemCmd) BY DEF Asked
<1>2. Len(rp) \in Nat /\ Len(rp) >= 1 /\ 1 \in 1 .. Len(rp) /\ rp # <<>> BY <1>1, EmptyIs
<1>3. rp[1] \in Part /\ rp[1].pos = v /\ Chain(Tail(rp), End(rp[1]), x) /\ End(rp[1]) \in Int /\ End(rp[1]) <= x BY <1>1, <1>2, ChainTail
<1>4. rp[1].len = k.len /\ Addr(v) = k.addr /\ k.addr + k.len <= B /\ Ends(Reads, v, End(rp[1])) BY <1>2, <1>3 DEF Asked
<1>5. k \in Cmd /\ k.addr \in Nat /\ k.len \in Nat /\ k.len >= 1 /\ B \in Nat /\ w.keep \in Nat
  <2>1. k \in Cmd BY <1>1, <1>2, ElementIs
  <2> QED BY <2>1, WordIs, RingAssumption DEF Cmd
<1>6. End(rp[1]) = v + k.len BY <1>3, <1>4 DEF End
<1>7. rq \in Seq(Part)
      /\ (w.last => Len(rq) = Len(rp) - 1 /\ \A i \in 1 .. Len(rp) - 1 : rq[i] = rp[i + 1])
      /\ (~w.last => /\ Len(rq) = Len(rp)
                     /\ rq[1] = [pos |-> rp[1].pos + w.keep, len |-> rp[1].len - w.keep]
                     /\ End(rq[1]) = End(rp[1])
                     /\ \A i \in 2 .. Len(rp) : rq[i] = rp[i])
  BY <1>1, <1>2, <1>4, TookIs
<1>8. Reads' = Reads /\ Reads \in Seq(Notice) BY ReadsAre DEF Reads
<1>9. /\ Len(Tail(rdMemCmd)) = Len(rdMemCmd) - 1 /\ Tail(rdMemCmd) \in Seq(Cmd)
      /\ \A i \in 1 .. Len(rdMemCmd) - 1 : Tail(rdMemCmd)[i] = rdMemCmd[i + 1]
  BY TailIs
<1>10. CASE w.last
  <2>1. rq = Tail(rp) /\ e = End(rp[1]) BY <1>10, <1>6 DEF Took
  <2>2. Chain(rq, e, x) BY <2>1, <1>3
  <2>3. rdMemCmd' = Tail(rdMemCmd) BY <1>10
  <2> HIDE DEF rq
  <2>4. Len(rq) = Len(rdMemCmd') BY <2>3, <1>1, <1>7, <1>9, <1>10
  <2>5. ASSUME NEW i \in 1 .. Len(rq)
        PROVE  /\ rq[i].len = rdMemCmd'[i].len /\ Addr(rq[i].pos) = rdMemCmd'[i].addr
               /\ rdMemCmd'[i].addr + rdMemCmd'[i].len <= B /\ Ends(Reads', rq[i].pos, End(rq[i]))
    <3>1. i \in 1 .. Len(rp) - 1 /\ i + 1 \in 1 .. Len(rp) BY <1>2, <1>7, <1>10
    <3>2. rq[i] = rp[i + 1] /\ rdMemCmd'[i] = rdMemCmd[i + 1] BY <3>1, <2>3, <1>1, <1>7, <1>9, <1>10
    <3>3. /\ rp[i + 1].len = rdMemCmd[i + 1].len /\ Addr(rp[i + 1].pos) = rdMemCmd[i + 1].addr
          /\ rdMemCmd[i + 1].addr + rdMemCmd[i + 1].len <= B /\ Ends(Reads, rp[i + 1].pos, End(rp[i + 1]))
      BY <3>1 DEF Asked
    <3> QED BY <3>2, <3>3, <1>8
  <2>6. Asked(e, x, rq)' BY <2>2, <2>4, <2>5, <1>7 DEF Asked, Chain, End, Ends, Within, Passes, PassesEnd, Wrap, Addr
  <2> QED BY <2>3, <2>6, <1>9
<1>11. CASE ~w.last
  <2>1. w.keep < k.len /\ e \in Int BY <1>5, <1>11
  <2>2. PICK p : p = [pos |-> rp[1].pos + w.keep, len |-> rp[1].len - w.keep] OBVIOUS
  <2>3. rq = [rp EXCEPT ![1] = p] BY <2>2, <1>11 DEF Took
  <2>4. p.pos = e /\ p.len = k.len - w.keep /\ p = rq[1] BY <2>2, <1>3, <1>4, <1>7, <1>11
  <2>5. p \in Part /\ End(p) = End(rp[1])
    <3>1. 1 \in 1 .. Len(rq) BY <1>2, <1>7, <1>11
    <3> QED BY <3>1, <2>4, <1>7, <1>11, ElementIs
  <2>6. v <= p.pos BY <2>4, <1>5
  <2>7. Chain([rp EXCEPT ![1] = p], p.pos, x) BY <2>5, <2>6, <1>1, <1>2, ChainShort
  <2>8. Chain(rq, e, x) BY <2>3, <2>4, <2>7
  <2> HIDE DEF rq
  <2>9. PICK c : c = [addr |-> k.addr + w.keep, len |-> k.len - w.keep] OBVIOUS
  <2>10. c \in Cmd /\ c.addr + c.len = k.addr + k.len /\ c.addr = k.addr + w.keep /\ c.len = k.len - w.keep
    <3>4. \A a, l, g, b \in Nat : a + l <= b /\ g < l => a + g \in 0 .. b - 1 /\ l - g \in 1 .. b /\ (a + g) + (l - g) = a + l
      OBVIOUS
    <3>5. w.keep < k.len BY <2>1, <1>5
    <3>6. PICK a \in Nat, l \in Nat, g \in Nat : a = k.addr /\ l = k.len /\ g = w.keep BY <1>5
    <3>7. a + l <= B /\ g < l /\ B \in Nat BY <3>5, <3>6, <1>4, <1>5
    <3>8. a + g \in 0 .. B - 1 /\ l - g \in 1 .. B /\ (a + g) + (l - g) = a + l BY <3>4, <3>7
    <3>1. k.addr + w.keep \in 0 .. B - 1 /\ k.len - w.keep \in 1 .. B /\ (k.addr + w.keep) + (k.len - w.keep) = k.addr + k.len
      BY <3>6, <3>8
    <3>2. (k.addr + w.keep) + (k.len - w.keep) = k.addr + k.len BY <3>1
    <3> QED BY <3>1, <3>2, <2>9 DEF Cmd
  <2>11. rdMemCmd' = <<c>> \o Tail(rdMemCmd) BY <2>9, <1>11
  <2>12. /\ rdMemCmd' \in Seq(Cmd) /\ Len(rdMemCmd') = Len(rdMemCmd) /\ rdMemCmd'[1] = c
         /\ \A i \in 2 .. Len(rdMemCmd) : rdMemCmd'[i] = rdMemCmd[i]
    <3>1. PICK t : t = Tail(rdMemCmd) OBVIOUS
    <3>2. t \in Seq(Cmd) /\ Len(t) = Len(rdMemCmd) - 1 /\ \A i \in 1 .. Len(rdMemCmd) - 1 : t[i] = rdMemCmd[i + 1] BY <3>1, <1>9
    <3>3. Len(rdMemCmd) \in Nat /\ Len(rdMemCmd) >= 1 BY <1>1, <1>2
    <3>4. rdMemCmd' \in Seq(Cmd) /\ Len(rdMemCmd') = 1 + Len(t) /\ rdMemCmd'[1] = c /\ \A i \in 1 .. Len(t) : rdMemCmd'[i + 1] = t[i]
      <4>1. c \in Cmd /\ rdMemCmd' = <<c>> \o t BY <3>1, <2>10, <2>11
      <4> HIDE DEF rq
      <4> QED BY <4>1, <3>2, SecondFirst
    <3>5. ASSUME NEW i \in 2 .. Len(rdMemCmd) PROVE rdMemCmd'[i] = rdMemCmd[i]
      <4>1. PICK j : j = i - 1 OBVIOUS
      <4>2. j \in 1 .. Len(t) /\ j \in 1 .. Len(rdMemCmd) - 1 /\ j + 1 = i BY <4>1, <3>2, <3>3
      <4>3. rdMemCmd'[j + 1] = t[j] /\ t[j] = rdMemCmd[j + 1] BY <4>2, <3>2, <3>4
      <4> QED BY <4>2, <4>3
    <3>6. Len(rdMemCmd') = Len(rdMemCmd) BY <3>2, <3>3, <3>4
    <3> QED BY <3>4, <3>5, <3>6
  <2>13. Addr(e) = c.addr
    <3>1. Addr(v) + w.keep < B BY <2>1, <1>4, <1>5
    <3> QED BY <3>1, <2>10, <1>4, <1>5, AddrMoves
  <2>14. Ends(Reads, e, End(p))
    <3>1. v <= e /\ e < End(rp[1]) BY <2>1, <1>5, <1>6
    <3> QED BY <3>1, <2>1, <2>5, <1>4, <1>8, EndsOn
  <2>15. ASSUME NEW i \in 1 .. Len(rq)
         PROVE  /\ rq[i].len = rdMemCmd'[i].len /\ Addr(rq[i].pos) = rdMemCmd'[i].addr
                /\ rdMemCmd'[i].addr + rdMemCmd'[i].len <= B /\ Ends(Reads', rq[i].pos, End(rq[i]))
    <3>1. CASE i = 1 BY <3>1, <2>4, <2>10, <2>12, <2>13, <2>14, <1>4, <1>8
    <3>2. CASE i # 1
      <4>1. i \in 2 .. Len(rp) /\ i \in 1 .. Len(rp) BY <3>2, <1>2, <1>7, <1>11
      <4>2. rq[i] = rp[i] /\ rdMemCmd'[i] = rdMemCmd[i] BY <4>1, <2>12, <1>1, <1>7, <1>11
      <4>3. /\ rp[i].len = rdMemCmd[i].len /\ Addr(rp[i].pos) = rdMemCmd[i].addr
            /\ rdMemCmd[i].addr + rdMemCmd[i].len <= B /\ Ends(Reads, rp[i].pos, End(rp[i]))
        BY <4>1 DEF Asked
      <4> QED BY <4>2, <4>3, <1>8
    <3> QED BY <3>1, <3>2
  <2>16. Len(rq) = Len(rdMemCmd') BY <2>12, <1>1, <1>7, <1>11
  <2>17. Asked(e, x, rq)' BY <2>8, <2>15, <2>16, <1>7 DEF Asked, Chain, End, Ends, Within, Passes, PassesEnd, Wrap, Addr
  <2> QED BY <2>12, <2>17
<1> QED BY <1>10, <1>11, WordIs

LEMMA MemoryReadsRead ==
  ASSUME NEW start, BytesWritten(start), BytesRead(start), UNCHANGED <<side, freed, requested>>, MemoryReads
  PROVE  BytesRead(start)'
<1>0. PICK k : k = Head(rdMemCmd) OBVIOUS
<1>1. PICK count : count = Smaller(W, k.len) OBVIOUS
<1>2. PICK w : w = [data |-> [b \in Bytes |-> IF b < count THEN memory[k.addr + b] ELSE -1], keep |-> count, last |-> count = k.len]
  OBVIOUS
<1>3. /\ rdMemCmd # <<>> /\ rdData' = Append(rdData, w)
      /\ rdMemCmd' = IF count = k.len THEN Tail(rdMemCmd) ELSE <<[addr |-> k.addr + count, len |-> k.len - count]>> \o Tail(rdMemCmd)
      /\ UNCHANGED <<rdRequests, rdSecond, rdDouble, rdAsked, rdState, rdFlag, rdWord, rdOffset, out>>
  BY <1>0, <1>1, <1>2 DEF MemoryReads
<1>4. ReaderTypes /\ rdMemCmd \in Seq(Cmd) /\ rdData \in Seq(Word) BY DEF BytesRead, ReaderTypes
<1>5. PICK z, u, v, x, y, ws, rp : ReaderOk(z, u, v, x, y, ws, rp, start) BY DEF BytesRead
<1>6. /\ z \in Int /\ u \in Int /\ v \in Int /\ x \in Int /\ y \in Int
      /\ start <= z /\ (side = "tx" => freed <= z)
      /\ Chain(Reads, z, y) /\ Chain(rdRequests, y, requested) /\ Doubles
      /\ Arrived(u, v, ws) /\ Asked(v, x, rp) /\ LeftOver(x, y) /\ Answered(z, u)
  BY <1>5 DEF ReaderOk
<1>7. /\ freed \in Nat /\ told \in Nat /\ requested \in Nat /\ requested <= told /\ start \in Nat
      /\ z <= u /\ u <= v /\ x <= y /\ y <= requested
  BY <1>4, <1>5, WrittenIs, PositionsRead
<1>8. /\ k = rdMemCmd[1] /\ 1 \in 1 .. Len(rdMemCmd) /\ k \in Cmd
  BY <1>0, <1>3, <1>4, TailIs
<1>9. k.addr \in Nat /\ k.len \in Nat /\ k.len >= 1 /\ B \in Nat /\ W \in Nat /\ W >= 1 BY <1>8, RingAssumption DEF Cmd
<1>10. count \in Nat /\ count >= 1 /\ count <= k.len /\ count <= W BY <1>1, <1>9 DEF Smaller
<1>11. rp \in Seq(Part) /\ Chain(rp, v, x) /\ Len(rp) = Len(rdMemCmd) /\ rp # <<>> BY <1>6, <1>8, EmptyIs DEF Asked
<1>12. /\ rp[1].pos = v /\ rp[1].len = k.len /\ Addr(v) = k.addr /\ k.addr + k.len <= B /\ Ends(Reads, v, v + k.len)
       /\ v + k.len <= x
  <2>1. rp[1].pos = v /\ End(rp[1]) <= x BY <1>6, <1>11, ChainTail
  <2>2. 1 \in 1 .. Len(rp) BY <1>8, <1>11
  <2>3. rp[1].len = k.len /\ Addr(v) = k.addr /\ k.addr + k.len <= B /\ Ends(Reads, v, End(rp[1])) BY <2>1, <2>2, <1>6, <1>8 DEF Asked
  <2>4. End(rp[1]) = v + k.len BY <2>1, <2>3 DEF End
  <2> QED BY <2>1, <2>3, <2>4
<1>13. PICK e : e = v + k.len OBVIOUS
<1>14. /\ start <= v /\ (side = "tx" => freed <= v) /\ e \in Int /\ e <= told /\ e - v = k.len
  BY <1>6, <1>7, <1>9, <1>12, <1>13
<1>15. ASSUME NEW b \in 0 .. count - 1 PROVE Brings(memory[k.addr + b], v + b) /\ memory[k.addr + b] \in Int
  <2>1. PICK pos : pos = v + b OBVIOUS
  <2>2. pos \in Int /\ v <= pos /\ pos < e /\ pos - v = b BY <2>1, <1>6, <1>9, <1>10, <1>13
  <2>3. k.addr + (e - v) <= B BY <1>12, <1>14
  <2>4. Brings(memory[k.addr + (pos - v)], pos) /\ memory[k.addr + (pos - v)] \in Int
    BY <2>2, <2>3, <1>6, <1>12, <1>14, MemoryBrings
  <2> QED BY <2>1, <2>2, <2>4
<1>16. w \in Word /\ w.keep = count /\ (w.last <=> count = k.len)
  <2>1. ASSUME NEW b \in Bytes PROVE (IF b < count THEN memory[k.addr + b] ELSE -1) \in Int
    <3>1. b \in Int /\ b >= 0 BY DEF Bytes
    <3>2. CASE b < count
      <4>1. b \in 0 .. count - 1 BY <3>1, <3>2, <1>10
      <4> QED BY <4>1, <3>2, <1>15
    <3> QED BY <3>2
  <2> QED BY <2>1, <1>2, <1>10 DEF Word
<1>17. BytesAt(w, 0, w.keep, v)
  <2>1. ASSUME NEW b \in 0 .. w.keep - 1 PROVE Brings(w.data[0 + b], v + b)
    <3>1. b \in 0 .. count - 1 /\ 0 + b = b /\ b < count /\ b \in Int BY <1>10, <1>16
    <3>2. b \in Bytes BY <3>1, <1>10, BytesAre
    <3>3. w.data[b] = memory[k.addr + b] BY <3>1, <3>2, <1>2
    <3> QED BY <3>1, <3>3, <1>15
  <2> QED BY <2>1 DEF BytesAt
<1>18. ComesAt(w, v)
  <2>1. Ends(Reads, v, e) /\ w.keep = Smaller(W, e - v) BY <1>1, <1>12, <1>13, <1>14, <1>16
  <2>2. w.last <=> v + w.keep = e BY <1>6, <1>9, <1>10, <1>13, <1>16
  <2> QED BY <2>1, <2>2, <1>17 DEF ComesAt
<1>19. PICK f : f = v + w.keep OBVIOUS
<1>20. (\E wq : Arrived(u, f, wq)') /\ f \in Int /\ rdData' \in Seq(Word)
  BY <1>3, <1>4, <1>6, <1>10, <1>16, <1>18, <1>19, ArrivedMore
<1>21. (\E rq : Asked(f, x, rq)') /\ rdMemCmd' \in Seq(Cmd)
  <2>1. rdMemCmd' = IF w.last THEN Tail(rdMemCmd) ELSE <<[addr |-> k.addr + w.keep, len |-> k.len - w.keep]>> \o Tail(rdMemCmd)
    BY <1>3, <1>16
  <2>2. w.keep >= 1 /\ w.keep <= k.len /\ (w.last <=> w.keep = k.len) BY <1>10, <1>16
  <2> QED BY <2>1, <2>2, <1>3, <1>4, <1>6, <1>8, <1>16, <1>19, AskedLess
<1>22. PICK wq : Arrived(u, f, wq)' BY <1>20
<1>23. PICK rq : Asked(f, x, rq)' BY <1>21
<1>24. Reads' = Reads BY <1>3 DEF Reads
<1>25. LeftOver(x, y)' BY <1>3, <1>6, <1>24, LeftOverSame
<1>26. Answered(z, u)' BY <1>3, <1>6, AnsweredSame
<1>27. Doubles' BY <1>3, <1>6 DEF Doubles, Passes, PassesEnd, Addr
<1>28. Chain(Reads, z, y)' /\ Chain(rdRequests, y, requested)' BY <1>3, <1>6, <1>24 DEF Chain, End
<1>29. ReaderOk(z, u, f, x, y, wq, rq, start)'
  BY <1>6, <1>20, <1>22, <1>23, <1>25, <1>26, <1>27, <1>28 DEF ReaderOk
<1>30. ReaderTypes' BY <1>3, <1>4, <1>20, <1>21 DEF ReaderTypes, Notice
<1> QED BY <1>29, <1>30 DEF BytesRead

(* The next word from the memory. *)
LEMMA NextWord ==
  ASSUME NEW u \in Int, NEW v \in Int, NEW ws, Arrived(u, v, ws), rdData \in Seq(Word), rdData # <<>>, NEW w, w = Head(rdData)
  PROVE  /\ w \in Word /\ w.keep >= 1 /\ u + w.keep \in Int /\ u + w.keep <= v /\ ComesAt(w, u)
         /\ ws \in Seq(Part) /\ ws # <<>> /\ Chain(Tail(ws), u + w.keep, v)
<1>1. ws \in Seq(Part) /\ Chain(ws, u, v) /\ Len(ws) = Len(rdData) BY DEF Arrived
<1>2. w \in Word /\ w = rdData[1] /\ Len(rdData) \in Nat /\ Len(rdData) > 0 BY TailIs
<1>3. ws # <<>> /\ 1 \in 1 .. Len(ws) BY <1>1, <1>2, EmptyIs
<1>4. ws[1] \in Part /\ ws[1].pos = u /\ End(ws[1]) \in Int /\ End(ws[1]) <= v /\ Chain(Tail(ws), End(ws[1]), v) BY <1>1, <1>3, ChainTail
<1>5. ws[1].len = w.keep /\ ComesAt(w, u) BY <1>2, <1>3, <1>4 DEF Arrived
<1>6. ws[1].len \in Nat /\ ws[1].len >= 1 BY <1>1, <1>3, PartIs
<1>7. End(ws[1]) = u + w.keep BY <1>4, <1>5 DEF End
<1> QED BY <1>1, <1>2, <1>3, <1>4, <1>5, <1>6, <1>7

LEMMA ArrivedLess ==
  ASSUME NEW u \in Int, NEW v \in Int, NEW ws, Arrived(u, v, ws), rdData \in Seq(Word), rdData # <<>>,
         UNCHANGED side, rdData' = Tail(rdData), NEW f \in Int, f = u + Head(rdData).keep,
         \A p \in Int : \A b : f <= p /\ Ends(Reads, p, b) => Ends(Reads', p, b)
  PROVE  (\E wq : Arrived(f, v, wq)') /\ rdData' \in Seq(Word)
<1>1. PICK t : t = Tail(ws) OBVIOUS
<1>2. ws \in Seq(Part) /\ ws # <<>> /\ Chain(t, f, v) BY <1>1, NextWord
<1>3. t \in Seq(Part) /\ Len(ws) \in Nat /\ Len(t) = Len(ws) - 1 /\ \A i \in 1 .. Len(ws) - 1 : t[i] = ws[i + 1] BY <1>1, <1>2, TailIs
<1>4. /\ rdData' \in Seq(Word) /\ Len(rdData') = Len(rdData) - 1 /\ \A i \in 1 .. Len(rdData) - 1 : rdData'[i] = rdData[i + 1]
  BY TailIs
<1>5. Len(ws) = Len(rdData) BY DEF Arrived
<1>6. ASSUME NEW i \in 1 .. Len(t) PROVE t[i].len = rdData'[i].keep /\ ComesAt(rdData[i], t[i].pos)'
  <2>0. PICK o : o = rdData'[i] OBVIOUS
  <2>1. i + 1 \in 1 .. Len(ws) /\ i \in 1 .. Len(ws) - 1 BY <1>3
  <2>2. t[i] = ws[i + 1] /\ o = rdData[i + 1] BY <2>0, <2>1, <1>3, <1>4, <1>5
  <2>3. t[i].len = o.keep /\ ComesAt(o, t[i].pos) BY <2>1, <2>2 DEF Arrived
  <2>4. f <= t[i].pos /\ t[i].pos \in Int BY <1>2, <1>3, PartIs DEF Chain
  <2>5. ComesAt(o, t[i].pos)' BY <2>3, <2>4, ComesSame
  <2> QED BY <2>0, <2>3, <2>5
<1>7. Len(t) = Len(rdData') BY <1>3, <1>4, <1>5
<1>8. Arrived(f, v, t)' BY <1>2, <1>3, <1>6, <1>7 DEF Arrived, Chain, End
<1> QED BY <1>4, <1>8

(* A step of the answer to the first read, which takes a word from rdData or none. *)
LEMMA AnswerMoves ==
  ASSUME NEW start \in Int, freed \in Int, ReaderTypes, NEW z, NEW u, NEW v, NEW x, NEW y, NEW ws, NEW rp, ReaderOk(z, u, v, x, y, ws, rp, start),
         UNCHANGED <<side, freed, requested, rdRequests, rdSecond, rdMemCmd>>,
         Reads # <<>>, rdAsked' = Tail(Reads), out'.req = Reads[1], Doubles', rdDouble' \in Seq(BOOLEAN),
         rdState' \in {"idle", "stream", "join", "merged", "residue"}, rdFlag' \in BOOLEAN, rdWord' \in Word, rdOffset' \in 0 .. W,
         out'.words \in Seq(Word), out' = [req |-> out'.req, words |-> out'.words],
         NEW f \in Int, IF rdData' = rdData THEN f = u ELSE rdData # <<>> /\ rdData' = Tail(rdData) /\ f = u + Head(rdData).keep,
         rdState' = "idle" => f = End(Reads[1]),
         NEW zz, zz = IF rdState' = "idle" THEN f ELSE z, Answered(zz, f)'
  PROVE  BytesRead(start)'
<1>1. /\ z \in Int /\ u \in Int /\ v \in Int /\ x \in Int /\ y \in Int
      /\ start <= z /\ (side = "tx" => freed <= z)
      /\ Chain(Reads, z, y) /\ Chain(rdRequests, y, requested)
      /\ Arrived(u, v, ws) /\ Asked(v, x, rp) /\ LeftOver(x, y)
  BY DEF ReaderOk
<1>2. Reads \in Seq(Notice) /\ Reads \in Seq(Part) BY ReadsAre, NoticesAreParts
<1>3. PICK r : r = Reads[1] OBVIOUS
<1>4. r \in Notice /\ r.pos = z /\ End(r) \in Int /\ z < End(r) /\ Chain(Tail(Reads), End(r), y) /\ Tail(Reads) \in Seq(Notice)
  <2>1. 1 \in 1 .. Len(Reads) BY <1>2, EmptyIs
  <2>2. r \in Notice BY <2>1, <1>2, <1>3, ElementIs
  <2>3. r.pos = z /\ End(r) \in Int /\ z < End(r) /\ Chain(Tail(Reads), End(r), y) BY <1>1, <1>2, <1>3, ChainTail
  <2> QED BY <2>2, <2>3, <1>2, TailIs
<1>5. Reads' = IF rdState' = "idle" THEN Tail(Reads) ELSE Reads
  <2>1. CASE rdState' = "idle" BY <2>1 DEF Reads
  <2>2. CASE rdState' # "idle"
    <3>1. <<r>> \o Tail(Reads) = Reads BY <1>2, <1>3
    <3>2. Reads' = <<out'.req>> \o rdAsked' BY <2>2 DEF Reads
    <3> QED BY <3>1, <3>2, <2>2, <1>3
  <2> QED BY <2>1, <2>2
<1>6. ASSUME NEW p \in Int, NEW b, f <= p, Ends(Reads, p, b) PROVE Ends(Reads', p, b)
  <2>1. CASE rdState' = "idle"
    <3>1. End(Reads[1]) <= p BY <2>1, <1>6
    <3> QED BY <3>1, <2>1, <1>2, <1>5, <1>6, EndsTail
  <2>2. CASE rdState' # "idle" BY <2>2, <1>5, <1>6
  <2> QED BY <2>1, <2>2
<1>7. rdData \in Seq(Word) BY DEF ReaderTypes
<1>8. (\E wq : Arrived(f, v, wq)') /\ rdData' \in Seq(Word)
  <2>1. CASE rdData' = rdData
    <3>1. f = u BY <2>1
    <3>2. Arrived(u, v, ws)' BY <3>1, <2>1, <1>1, <1>6, ArrivedSame
    <3> QED BY <3>1, <3>2, <2>1, <1>7
  <2>2. CASE rdData' # rdData
    <3>1. rdData # <<>> /\ rdData' = Tail(rdData) /\ f = u + Head(rdData).keep BY <2>2
    <3> QED BY <3>1, <1>1, <1>6, <1>7, ArrivedLess
  <2> QED BY <2>1, <2>2
<1>9. PICK wq : Arrived(f, v, wq)' BY <1>8
<1>10. f <= v /\ v <= x
  <2>1. f <= v BY <1>9 DEF Arrived, Chain
  <2>2. v <= x BY <1>1 DEF Asked, Chain
  <2> QED BY <2>1, <2>2
<1>11. Asked(v, x, rp)'
  <2>1. \A p \in Int : \A b : v <= p /\ Ends(Reads, p, b) => Ends(Reads', p, b)
    <3> TAKE p \in Int
    <3> TAKE b
    <3>1. v <= p => f <= p BY <1>1, <1>10
    <3> QED BY <3>1, <1>6
  <2> QED BY <2>1, <1>1, AskedSame
<1>12. LeftOver(x, y)'
  <2>1. \A b : Ends(Reads, x, b) => Ends(Reads', x, b)
    <3>1. f <= x BY <1>1, <1>10
    <3> QED BY <3>1, <1>1, <1>6
  <2> QED BY <2>1, <1>1, LeftOverSame
<1>13. zz \in Int /\ z <= zz
  <2>1. CASE rdState' = "idle"
    <3>1. zz = End(r) BY <2>1, <1>3
    <3> QED BY <3>1, <1>1, <1>4
  <2>2. CASE rdState' # "idle" BY <2>2, <1>1
  <2> QED BY <2>1, <2>2
<1>14. Chain(Reads', zz, y)
  <2>1. CASE rdState' = "idle"
    <3>1. zz = End(r) /\ Reads' = Tail(Reads) BY <2>1, <1>3, <1>5
    <3> QED BY <3>1, <1>4
  <2>2. CASE rdState' # "idle" BY <2>2, <1>1, <1>5
  <2> QED BY <2>1, <2>2
<1>15. Chain(Reads, zz, y)' /\ Chain(rdRequests, y, requested)' BY <1>1, <1>14 DEF Chain, End
<1>16. start <= zz /\ (side' = "tx" => freed' <= zz) BY <1>1, <1>13
<1>17. ReaderOk(zz, f, v, x, y, wq, rp, start)'
  BY <1>1, <1>9, <1>11, <1>12, <1>13, <1>15, <1>16 DEF ReaderOk
<1>18. ReaderTypes'
  <2>1. rdAsked' \in Seq(Notice) /\ out'.req \in Notice BY <1>3, <1>4
  <2>2. \A o \in Notice : o \in [pos : Nat, len : Nat] BY RingAssumption DEF Notice
  <2>3. rdRequests' \in Seq(Notice) /\ rdSecond' \in Seq(Cmd) /\ rdMemCmd' \in Seq(Cmd) BY DEF ReaderTypes
  <2> QED BY <2>1, <2>2, <2>3, <1>8 DEF ReaderTypes, Notice
<1> QED BY <1>17, <1>18 DEF BytesRead

(* An answer of whole words; the next one is whole as well, or the last one. *)
WholeIn(a) == \A i \in 1 .. Len(a.words) :
                 a.words[i].keep = W /\ ~a.words[i].last /\ BytesAt(a.words[i], 0, W, a.req.pos + (i - 1) * W)
Reached(a) == a.req.pos + Len(a.words) * W

LEMMA WordsLong ==
  ASSUME NEW n \in Nat
  PROVE  n * W \in Nat /\ (n + 1) * W = n * W + W /\ (n + 1) - 1 = n
BY RingAssumption

LEMMA SameWhole ==
  ASSUME NEW a, WholeIn(a), out' = a, UNCHANGED side
  PROVE  (\A i \in 1 .. Len(out.words) : Whole(i))' /\ At' = Reached(a)
<1>1. \A i \in 1 .. Len(a.words) : a.words[i].keep = W /\ ~a.words[i].last /\ BytesAt(a.words[i], 0, W, a.req.pos + (i - 1) * W)'
  <2> TAKE i \in 1 .. Len(a.words)
  <2> QED BY BytesAtSame DEF WholeIn
<1> QED BY <1>1 DEF Whole, At, Reached

LEMMA NextWhole ==
  ASSUME NEW a, WholeIn(a), a.words \in Seq(Word), a.req.pos \in Int, NEW w \in Word, w.keep = W, ~w.last, BytesAt(w, 0, W, Reached(a)),
         out' = [req |-> a.req, words |-> Append(a.words, w)], UNCHANGED side
  PROVE  (\A i \in 1 .. Len(out.words) : Whole(i))' /\ At' = Reached(a) + W /\ out'.words \in Seq(Word)
<1> DEFINE ws == Append(a.words, w)
           n == Len(a.words)
           pos == a.req.pos
<1>1. ws \in Seq(Word) /\ n \in Nat /\ Len(ws) = n + 1 /\ ws[n + 1] = w /\ \A k \in 1 .. n : ws[k] = a.words[k] BY AppendIs
<1>2. out'.words = ws /\ out'.req.pos = pos OBVIOUS
<1>3. n * W \in Nat /\ (n + 1) * W = n * W + W /\ (n + 1) - 1 = n /\ W \in Nat BY <1>1, WordsLong, BytesAre
<1> HIDE DEF ws
<1>4. ASSUME NEW i \in 1 .. Len(ws) PROVE ws[i].keep = W /\ ~ws[i].last /\ BytesAt(ws[i], 0, W, pos + (i - 1) * W)'
  <2>0. PICK o : o = ws[i] OBVIOUS
  <2>1. CASE i = n + 1
    <3>1. o = w /\ pos + (i - 1) * W = Reached(a) BY <2>0, <2>1, <1>1, <1>3 DEF Reached
    <3>2. BytesAt(w, 0, W, Reached(a))' BY BytesAtSame
    <3> QED BY <3>1, <3>2, <2>0
  <2>2. CASE i # n + 1
    <3>1. i \in 1 .. n BY <2>2, <1>1
    <3>2. o = a.words[i] BY <3>1, <2>0, <1>1
    <3>3. o.keep = W /\ ~o.last /\ BytesAt(o, 0, W, pos + (i - 1) * W) BY <3>1, <3>2 DEF WholeIn
    <3>4. BytesAt(o, 0, W, pos + (i - 1) * W)' BY <3>3, BytesAtSame
    <3> QED BY <3>3, <3>4, <2>0
  <2> QED BY <2>1, <2>2
<1>5. (\A i \in 1 .. Len(out.words) : Whole(i))' BY <1>2, <1>4 DEF Whole
<1>6. At' = pos + (n + 1) * W BY <1>1, <1>2 DEF At
<1>7. At' = Reached(a) + W
  <2>1. PICK k : k = n * W OBVIOUS
  <2>2. (n + 1) * W = k + W /\ Reached(a) = pos + k /\ k \in Nat BY <2>1, <1>3 DEF Reached
  <2>3. pos \in Int OBVIOUS
  <2> HIDE DEF n, pos
  <2> QED BY <2>2, <2>3, <1>3, <1>6
<1> QED BY <1>1, <1>2, <1>5, <1>7

LEMMA LastWord ==
  ASSUME NEW a, WholeIn(a), a.words \in Seq(Word), a.req.pos \in Int, a.req.len \in Int, NEW w \in Word, w.last, w.keep <= W,
         BytesAt(w, 0, w.keep, Reached(a)), Reached(a) + w.keep = End(a.req),
         out' = [req |-> a.req, words |-> Append(a.words, w)], UNCHANGED side
  PROVE  Complete' /\ out'.words \in Seq(Word)
<1> DEFINE ws == Append(a.words, w)
           n == Len(a.words)
           pos == a.req.pos
<1>1. ws \in Seq(Word) /\ n \in Nat /\ Len(ws) = n + 1 /\ ws[n + 1] = w /\ \A k \in 1 .. n : ws[k] = a.words[k] BY AppendIs
<1>2. out'.words = ws /\ out'.req = a.req OBVIOUS
<1>3. n * W \in Nat /\ (n + 1) - 1 = n /\ W \in Nat BY <1>1, WordsLong, BytesAre
<1> HIDE DEF ws
<1>4. ASSUME NEW i \in 1 .. n PROVE ws[i].keep = W /\ ~ws[i].last /\ BytesAt(ws[i], 0, W, pos + (i - 1) * W)'
  <2>0. PICK o : o = ws[i] OBVIOUS
  <2>2. o = a.words[i] BY <2>0, <1>1
  <2>3. o.keep = W /\ ~o.last /\ BytesAt(o, 0, W, pos + (i - 1) * W) BY <2>2 DEF WholeIn
  <2>4. BytesAt(o, 0, W, pos + (i - 1) * W)' BY <2>3, BytesAtSame
  <2> QED BY <2>3, <2>4, <2>0
<1>5. BytesAt(w, 0, w.keep, pos + n * W)'
  <2>1. Reached(a) = pos + n * W BY DEF Reached
  <2>2. BytesAt(w, 0, w.keep, Reached(a))' BY BytesAtSame
  <2> QED BY <2>1, <2>2
<1>6. n * W + w.keep = a.req.len
  <2>1. PICK k : k = n * W OBVIOUS
  <2>2. PICK p, h, l : p = pos /\ h = w.keep /\ l = a.req.len OBVIOUS
  <2>3. k \in Nat /\ h \in Nat /\ p \in Int /\ l \in Int BY <2>1, <2>2, <1>3, WordIs
  <2>4. (p + k) + h = p + l BY <2>1, <2>2 DEF Reached, End
  <2>5. k + h = l BY <2>3, <2>4
  <2> QED BY <2>1, <2>2, <2>5
<1>7. \A i \in 1 .. Len(ws) - 1 : Whole(i)' BY <1>1, <1>2, <1>3, <1>4 DEF Whole
<1>8. Complete' BY <1>1, <1>2, <1>3, <1>5, <1>6, <1>7 DEF Complete
<1> QED BY <1>1, <1>2, <1>8

(* The word that comes next at a position of the answer. *)
LEMMA ComesIn ==
  ASSUME ReaderTypes, NEW z \in Int, NEW y \in Int, Chain(Reads, z, y), Reads # <<>>, NEW r, r = Reads[1],
         NEW u \in Int, r.pos <= u, u < End(r), NEW w \in Word, ComesAt(w, u)
  PROVE  /\ r \in Notice /\ r.pos \in Nat /\ r.len \in Nat /\ Wrap(r) \in Nat /\ End(r) \in Nat /\ (Passes(r) => Wrap(r) < End(r))
         /\ BytesAt(w, 0, w.keep, u) /\ w.keep <= W
         /\ \E b \in Nat : /\ b = (IF Passes(r) /\ u < Wrap(r) THEN Wrap(r) ELSE End(r)) /\ u < b /\ b <= End(r)
                           /\ w.keep = Smaller(W, b - u) /\ (w.last <=> u + w.keep = b) /\ u + w.keep <= b
<1>1. Reads \in Seq(Notice) BY ReadsAre
<1>2. 1 \in 1 .. Len(Reads) BY <1>1, EmptyIs
<1>3. r \in Notice BY <1>1, <1>2, ElementIs
<1>4. r.pos \in Nat /\ r.len \in Nat /\ Wrap(r) \in Nat /\ End(r) \in Nat /\ (Passes(r) => Wrap(r) < End(r)) /\ Passes(r) \in BOOLEAN
  BY <1>3, NoticeIs
<1>5. PICK b : Ends(Reads, u, b) /\ w.keep = Smaller(W, b - u) /\ (w.last <=> u + w.keep = b) /\ BytesAt(w, 0, w.keep, u)
  BY DEF ComesAt
<1>6. Within(r, u, b) BY <1>1, <1>2, <1>5, EndsAre
<1>7. b \in Nat /\ u < b /\ b <= End(r) BY <1>3, <1>6, WithinIs
<1>8. b = IF Passes(r) /\ u < Wrap(r) THEN Wrap(r) ELSE End(r) BY <1>6 DEF Within
<1>9. w.keep <= W /\ u + w.keep <= b
  <2>1. PICK k : k = w.keep OBVIOUS
  <2>2. k \in Nat /\ W \in Nat /\ k = Smaller(W, b - u) BY <2>1, <1>5, WordIs, BytesAre
  <2>3. k <= W /\ u + k <= b BY <2>2, <1>7 DEF Smaller
  <2> QED BY <2>1, <2>3
<1> QED BY <1>3, <1>4, <1>5, <1>7, <1>8, <1>9

(* A word that needs no joining. *)
LEMMA StreamAnswers ==
  ASSUME ReaderTypes, NEW z \in Int, NEW y \in Int, Chain(Reads, z, y), Reads # <<>>,
         NEW a, WholeIn(a), a.words \in Seq(Word), a = [req |-> a.req, words |-> a.words], a.req = Reads[1],
         NEW u \in Int, u = Reached(a), a.req.pos <= u, u < End(a.req),
         NEW double \in BOOLEAN, double <=> Passes(a.req) /\ u < Wrap(a.req),
         NEW w \in Word, w.keep >= 1, ComesAt(w, u), Stream(w, double, a), UNCHANGED side,
         NEW f, f = u + w.keep, NEW zz, zz = IF rdState' = "idle" THEN f ELSE z
  PROVE  /\ rdState' \in {"idle", "stream", "join"} /\ rdFlag' \in BOOLEAN /\ rdWord' \in Word /\ rdOffset' \in 0 .. W
         /\ out'.req = Reads[1] /\ out'.words \in Seq(Word) /\ out' = [req |-> out'.req, words |-> out'.words]
         /\ rdState' = "idle" => f = End(Reads[1])
         /\ Answered(zz, f)'
<1>1. PICK r : r = a.req OBVIOUS
<1>2. /\ r \in Notice /\ r.pos \in Nat /\ r.len \in Nat /\ Wrap(r) \in Nat /\ End(r) \in Nat /\ (Passes(r) => Wrap(r) < End(r))
      /\ BytesAt(w, 0, w.keep, u) /\ w.keep <= W
  BY <1>1, ComesIn
<1>3. PICK b \in Nat : /\ b = (IF Passes(r) /\ u < Wrap(r) THEN Wrap(r) ELSE End(r)) /\ u < b /\ b <= End(r)
                       /\ w.keep = Smaller(W, b - u) /\ (w.last <=> u + w.keep = b) /\ u + w.keep <= b
  BY <1>1, ComesIn
<1>4. b = IF double THEN Wrap(r) ELSE End(r) BY <1>1, <1>3
<1>5. PICK k : k = w.keep OBVIOUS
<1>6. k \in Nat /\ k >= 1 /\ k <= W /\ W \in Nat /\ f = u + k /\ f \in Int /\ u < f /\ f <= b /\ f <= End(r)
      /\ k = Smaller(W, b - u) /\ (w.last <=> f = b)
  BY <1>2, <1>3, <1>5, WordIs, BytesAre
<1>7. rdWord' = w /\ rdOffset' = k /\ rdFlag' = (double /\ ~w.last) BY <1>5 DEF Stream
<1>8. w.last \in BOOLEAN /\ k \in 0 .. W BY <1>6, WordIs
<1>9. CASE w.last /\ double /\ k < W
  <2>1. out' = a /\ rdState' = "join" BY <1>5, <1>9 DEF Stream
  <2>2. (\A i \in 1 .. Len(out.words) : Whole(i))' /\ At' = u BY <2>1, SameWhole
  <2>3. out'.req = r BY <2>1, <1>1
  <2>4. f = Wrap(r) /\ Passes(r) BY <1>1, <1>3, <1>4, <1>6, <1>9
  <2>5. BytesAt(w, 0, k, u)' BY <1>2, <1>5, BytesAtSame
  <2>6. Waits(0, k, f)' BY <2>2, <2>5, <1>6, <1>7 DEF Waits, BytesAt
  <2>7. Answered(zz, f)'
    <3>1. (Passes(out.req) /\ Wrap(out.req) <= f /\ f < End(out.req) /\ f = Wrap(out.req) /\ f <= End(out.req))'
      BY <2>3, <2>4, <1>2 DEF Passes, PassesEnd, Wrap, End, Addr
    <3>2. (rdOffset >= 1 /\ rdOffset < W /\ At <= f)' BY <2>2, <1>6, <1>7, <1>9
    <3>3. Waits(0, rdOffset, f)' BY <2>6, <1>7 DEF Waits, BytesAt
    <3> QED BY <3>1, <3>2, <3>3, <2>1, <2>2 DEF Answered
  <2> QED BY <2>1, <2>7, <1>7, <1>8
<1>10. CASE ~(w.last /\ double /\ k < W)
  <2>1. PICK o : o = [w EXCEPT !.last = @ /\ ~double] OBVIOUS
  <2>2. o \in Word /\ o.keep = k /\ o.last = (w.last /\ ~double) /\ o.data = w.data BY <2>1, <1>5 DEF Word
  <2>3. out' = [req |-> a.req, words |-> Append(a.words, o)] /\ rdState' = IF w.last /\ ~double THEN "idle" ELSE "stream"
    <3>1. out' = [a EXCEPT !.words = Append(@, o)] BY <2>1, <1>5, <1>10 DEF Stream
    <3>2. rdState' = IF w.last /\ ~double THEN "idle" ELSE "stream" BY <1>5, <1>10 DEF Stream
    <3> QED BY <3>1, <3>2
  <2>4. out'.req = r BY <2>3, <1>1
  <2>5. BytesAt(o, 0, k, u) BY <2>2, <1>2, <1>5 DEF BytesAt
  <2>6. CASE w.last /\ ~double
    <3>1. f = End(r) /\ rdState' = "idle" /\ o.last BY <2>2, <2>3, <2>6, <1>4, <1>6
    <3>2. Complete' /\ out'.words \in Seq(Word)
      <4>1. Reached(a) + o.keep = End(a.req) BY <3>1, <2>2, <1>1, <1>6
      <4>2. BytesAt(o, 0, o.keep, Reached(a)) /\ o.keep <= W BY <2>2, <2>5, <1>6
      <4>3. a.req.pos \in Int /\ a.req.len \in Int BY <1>1, <1>2
      <4> QED BY <4>1, <4>2, <4>3, <3>1, <2>2, <2>3, LastWord
    <3>3. Answered(zz, f)' BY <3>1, <3>2 DEF Answered
    <3> QED BY <3>1, <3>2, <3>3, <2>3, <2>4, <1>1, <1>7, <1>8
  <2>7. CASE ~(w.last /\ ~double)
    <3>1. k = W
      <4>1. CASE ~w.last BY <4>1, <1>3, <1>6 DEF Smaller
      <4>2. CASE w.last BY <4>2, <2>7, <1>6, <1>10
      <4> QED BY <4>1, <4>2
    <3>2. rdState' = "stream" /\ ~o.last /\ o.keep = W BY <3>1, <2>2, <2>3, <2>7
    <3>3. (\A i \in 1 .. Len(out.words) : Whole(i))' /\ At' = u + W /\ out'.words \in Seq(Word)
      <4>1. BytesAt(o, 0, W, Reached(a)) /\ a.req.pos \in Int BY <3>1, <2>5, <1>1, <1>2
      <4> QED BY <4>1, <3>2, <2>2, <2>3, NextWhole
    <3>4. f = u + W BY <3>1, <1>6
    <3>5. f < End(r)
      <4>1. CASE ~w.last BY <4>1, <1>2, <1>3, <1>6
      <4>2. CASE w.last
        <5>1. double /\ Passes(r) /\ f = Wrap(r) BY <4>2, <2>7, <1>1, <1>4, <1>6
        <5> QED BY <5>1, <1>2
      <4> QED BY <4>1, <4>2
    <3>6. rdFlag' <=> Passes(r) /\ f < Wrap(r)
      <4>1. CASE double
        <5>1. Passes(r) /\ b = Wrap(r) BY <4>1, <1>1, <1>4
        <5>2. ~w.last <=> f < Wrap(r)
          <6>1. PICK c : c = Wrap(r) OBVIOUS
          <6>2. f # c <=> f < c BY <6>1, <5>1, <1>2, <1>6
          <6> QED BY <6>1, <6>2, <5>1, <1>6
        <5> QED BY <5>1, <5>2, <4>1, <1>7
      <4>2. CASE ~double
        <5>1. ~(Passes(r) /\ f < Wrap(r)) BY <4>2, <1>1, <1>2, <1>6
        <5> QED BY <5>1, <4>2, <1>7
      <4> QED BY <4>1, <4>2
    <3>7. Answered(zz, f)' BY <3>2, <3>3, <3>4, <3>5, <3>6, <2>4, <1>2, <1>6 DEF Answered, Passes, PassesEnd, Wrap, End, Addr
    <3> QED BY <3>2, <3>3, <3>7, <2>3, <2>4, <1>1, <1>7, <1>8
  <2> QED BY <2>6, <2>7
<1> QED BY <1>9, <1>10, <1>5

LEMMA IdleRead ==
  ASSUME NEW start \in Int, BytesRead(start), requested \in Int, freed \in Int, UNCHANGED <<side, freed, requested>>, ReadIdle
  PROVE  BytesRead(start)'
<1>1. PICK r : r = Head(rdAsked) OBVIOUS
<1>2. PICK a : a = [req |-> r, words |-> <<>>] OBVIOUS
<1>3. PICK w : w = Head(rdData) OBVIOUS
<1>4. PICK double : double = Head(rdDouble) OBVIOUS
<1>5. /\ rdState = "idle" /\ rdDouble # <<>> /\ rdData # <<>> /\ Stream(w, double, a)
      /\ rdData' = Tail(rdData) /\ rdDouble' = Tail(rdDouble) /\ rdAsked' = Tail(rdAsked)
      /\ UNCHANGED <<rdRequests, rdSecond, rdMemCmd>>
  BY <1>1, <1>2, <1>3, <1>4 DEF ReadIdle
<1>6. ReaderTypes /\ rdAsked \in Seq(Notice) /\ rdDouble \in Seq(BOOLEAN) /\ rdData \in Seq(Word) BY DEF BytesRead, ReaderTypes
<1>7. PICK z, u, v, x, y, ws, rp : ReaderOk(z, u, v, x, y, ws, rp, start) BY DEF BytesRead
<1>8. /\ z \in Int /\ u \in Int /\ v \in Int /\ x \in Int /\ y \in Int
      /\ Chain(Reads, z, y) /\ Doubles /\ Arrived(u, v, ws) /\ Answered(z, u)
  BY <1>7 DEF ReaderOk
<1>9. /\ Len(rdDouble) \in Nat /\ Len(rdDouble) > 0 /\ double = rdDouble[1] /\ double \in BOOLEAN
      /\ rdDouble' \in Seq(BOOLEAN) /\ Len(rdDouble') = Len(rdDouble) - 1 /\ \A i \in 1 .. Len(rdDouble) - 1 : rdDouble'[i] = rdDouble[i + 1]
  BY <1>4, <1>5, <1>6, TailIs
<1>10. Len(rdDouble) = Len(rdAsked) /\ \A i \in 1 .. Len(rdAsked) : rdDouble[i] = Passes(rdAsked[i]) BY <1>8 DEF Doubles
<1>11. rdAsked # <<>> BY <1>6, <1>9, <1>10, EmptyIs
<1>12. /\ r = rdAsked[1] /\ r \in Notice /\ Len(rdAsked') = Len(rdAsked) - 1
       /\ \A i \in 1 .. Len(rdAsked) - 1 : rdAsked'[i] = rdAsked[i + 1]
  BY <1>1, <1>5, <1>6, <1>11, TailIs
<1>13. Reads = rdAsked BY <1>5 DEF Reads
<1>14. Doubles'
  <2>1. ASSUME NEW i \in 1 .. Len(rdAsked') PROVE rdDouble'[i] = Passes(rdAsked'[i])
    <3>1. i \in 1 .. Len(rdAsked) - 1 /\ i + 1 \in 1 .. Len(rdAsked) BY <1>9, <1>10, <1>12
    <3>2. rdDouble'[i] = rdDouble[i + 1] /\ rdAsked'[i] = rdAsked[i + 1] BY <3>1, <1>9, <1>10, <1>12
    <3> QED BY <3>1, <3>2, <1>10
  <2>2. Len(rdDouble') = Len(rdAsked') BY <1>9, <1>10, <1>12
  <2> QED BY <2>1, <2>2 DEF Doubles, Passes, PassesEnd, Addr
<1>15. rdAsked \in Seq(Part) BY <1>6, NoticesAreParts
<1>16. r.pos = z BY <1>8, <1>11, <1>12, <1>13, <1>15, ChainTail
<1>17. r.pos \in Nat /\ r.len \in Nat /\ End(r) = r.pos + r.len /\ r.len >= 1 /\ Wrap(r) \in Nat /\ r.pos < Wrap(r)
  BY <1>12, NoticeIs
<1>18. u = z BY <1>5, <1>8 DEF Answered
<1>19. /\ WholeIn(a) /\ a.words \in Seq(Word) /\ a = [req |-> a.req, words |-> a.words] /\ a.req = Reads[1]
  BY <1>2, <1>12, <1>13 DEF WholeIn
<1>20. u = Reached(a) /\ a.req.pos <= u /\ u < End(a.req)
  <2>1. Len(a.words) = 0 /\ a.req = r BY <1>2
  <2>2. 0 * W = 0 BY RingAssumption
  <2>3. Reached(a) = r.pos + 0 BY <2>1, <2>2 DEF Reached
  <2>4. r.pos + 0 = u /\ r.pos <= u /\ u < End(r) BY <1>8, <1>16, <1>17, <1>18
  <2> QED BY <2>1, <2>3, <2>4
<1>21. double <=> Passes(a.req) /\ u < Wrap(a.req)
  <2>1. 1 \in 1 .. Len(rdAsked) BY <1>9, <1>10
  <2>2. double = Passes(r) BY <2>1, <1>9, <1>10, <1>12
  <2>3. u < Wrap(r) /\ a.req = r BY <1>2, <1>16, <1>17, <1>18
  <2> QED BY <2>2, <2>3
<1>22. w \in Word /\ w.keep >= 1 /\ u + w.keep \in Int /\ u + w.keep <= v /\ ComesAt(w, u) BY <1>3, <1>5, <1>6, <1>8, NextWord
<1>23. PICK f : f = u + w.keep OBVIOUS
<1>24. PICK zz : zz = IF rdState' = "idle" THEN f ELSE z OBVIOUS
<1>25. Reads # <<>> BY <1>11, <1>13
<1>26. /\ rdState' \in {"idle", "stream", "join"} /\ rdFlag' \in BOOLEAN /\ rdWord' \in Word /\ rdOffset' \in 0 .. W
       /\ out'.req = Reads[1] /\ out'.words \in Seq(Word) /\ out' = [req |-> out'.req, words |-> out'.words]
       /\ rdState' = "idle" => f = End(Reads[1])
       /\ Answered(zz, f)'
  <2>1. UNCHANGED side OBVIOUS
  <2>2. Stream(w, double, a) /\ ReaderTypes BY <1>5, <1>6
  <2>3. z \in Int /\ y \in Int /\ u \in Int /\ Chain(Reads, z, y) /\ double \in BOOLEAN BY <1>8, <1>9
  <2>4. w \in Word /\ w.keep >= 1 /\ ComesAt(w, u) BY <1>22
  <2> QED BY <2>1, <2>2, <2>3, <2>4, <1>19, <1>20, <1>21, <1>23, <1>24, <1>25, StreamAnswers
<1>27. IF rdData' = rdData THEN f = u ELSE rdData # <<>> /\ rdData' = Tail(rdData) /\ f = u + Head(rdData).keep
  <2>1. rdData' # rdData
    <3>1. Len(rdData') = Len(rdData) - 1 /\ Len(rdData) \in Nat BY <1>5, <1>6, TailIs
    <3> QED BY <3>1
  <2> QED BY <2>1, <1>3, <1>5, <1>23
<1>28. f \in Int /\ rdAsked' = Tail(Reads) BY <1>5, <1>13, <1>22, <1>23
<1> QED BY <1>5, <1>6, <1>7, <1>9, <1>14, <1>24, <1>25, <1>26, <1>27, <1>28, AnswerMoves

LEMMA StreamRead ==
  ASSUME NEW start \in Int, BytesRead(start), requested \in Int, freed \in Int, UNCHANGED <<side, freed, requested>>, ReadStream
  PROVE  BytesRead(start)'
<1>1. PICK w : w = Head(rdData) OBVIOUS
<1>2. PICK a : a = out OBVIOUS
<1>3. PICK double : double = rdFlag OBVIOUS
<1>4. PICK r : r = out.req OBVIOUS
<1>5. /\ rdState = "stream" /\ rdData # <<>> /\ Stream(w, double, a)
      /\ rdData' = Tail(rdData) /\ UNCHANGED <<rdRequests, rdSecond, rdMemCmd, rdDouble, rdAsked>>
  BY <1>1, <1>2, <1>3 DEF ReadStream
<1>6. /\ ReaderTypes /\ rdDouble \in Seq(BOOLEAN) /\ rdData \in Seq(Word) /\ rdFlag \in BOOLEAN
      /\ out.words \in Seq(Word) /\ out = [req |-> out.req, words |-> out.words]
  BY DEF BytesRead, ReaderTypes
<1>7. PICK z, u, v, x, y, ws, rp : ReaderOk(z, u, v, x, y, ws, rp, start) BY DEF BytesRead
<1>8. /\ z \in Int /\ u \in Int /\ v \in Int /\ x \in Int /\ y \in Int
      /\ Chain(Reads, z, y) /\ Doubles /\ Arrived(u, v, ws) /\ Answered(z, u)
  BY <1>7 DEF ReaderOk
<1>9. r \in Notice /\ Reads # <<>> /\ Reads[1] = r /\ Tail(Reads) = rdAsked BY <1>4, <1>5, <1>6, ReadsAre
<1>10. r.pos \in Nat /\ Len(out.words) \in Nat BY <1>6, <1>9, NoticeIs, EmptyIs
<1>11. /\ u = At /\ u < End(out.req) /\ (rdFlag <=> Passes(out.req) /\ u < Wrap(out.req)) /\ \A i \in 1 .. Len(out.words) : Whole(i)
  BY <1>5, <1>8 DEF Answered
<1>12. WholeIn(a) BY <1>2, <1>11 DEF WholeIn, Whole
<1>13. u = Reached(a) /\ a.req.pos <= u /\ u < End(a.req) /\ (double <=> Passes(a.req) /\ u < Wrap(a.req))
  <2>1. PICK n : n = Len(out.words) * W OBVIOUS
  <2>2. n \in Nat BY <2>1, <1>10, WordsLong
  <2>3. At = r.pos + n BY <2>1, <1>4 DEF At
  <2>4. r.pos <= u BY <2>2, <2>3, <1>8, <1>10, <1>11
  <2>5. u = Reached(a) BY <1>2, <1>11 DEF Reached, At
  <2> QED BY <2>4, <2>5, <1>2, <1>3, <1>4, <1>11
<1>14. /\ a.words \in Seq(Word) /\ a = [req |-> a.req, words |-> a.words] /\ a.req = Reads[1] BY <1>2, <1>4, <1>6, <1>9
<1>15. w \in Word /\ w.keep >= 1 /\ u + w.keep \in Int /\ ComesAt(w, u) BY <1>1, <1>5, <1>6, <1>8, NextWord
<1>16. PICK f : f = u + w.keep OBVIOUS
<1>17. PICK zz : zz = IF rdState' = "idle" THEN f ELSE z OBVIOUS
<1>18. /\ rdState' \in {"idle", "stream", "join"} /\ rdFlag' \in BOOLEAN /\ rdWord' \in Word /\ rdOffset' \in 0 .. W
       /\ out'.req = Reads[1] /\ out'.words \in Seq(Word) /\ out' = [req |-> out'.req, words |-> out'.words]
       /\ rdState' = "idle" => f = End(Reads[1])
       /\ Answered(zz, f)'
  <2>1. UNCHANGED side OBVIOUS
  <2>2. Stream(w, double, a) /\ ReaderTypes /\ double \in BOOLEAN BY <1>3, <1>5, <1>6
  <2>3. z \in Int /\ y \in Int /\ u \in Int /\ Chain(Reads, z, y) /\ Reads # <<>> BY <1>8, <1>9
  <2> QED BY <2>1, <2>2, <2>3, <1>12, <1>13, <1>14, <1>15, <1>16, <1>17, StreamAnswers
<1>19. IF rdData' = rdData THEN f = u ELSE rdData # <<>> /\ rdData' = Tail(rdData) /\ f = u + Head(rdData).keep
  <2>1. rdData' # rdData
    <3>1. Len(rdData') = Len(rdData) - 1 /\ Len(rdData) \in Nat BY <1>5, <1>6, TailIs
    <3> QED BY <3>1
  <2> QED BY <2>1, <1>1, <1>5, <1>16
<1>20. f \in Int /\ rdAsked' = Tail(Reads) /\ rdDouble' \in Seq(BOOLEAN) BY <1>5, <1>6, <1>9, <1>15, <1>16
<1>21. Doubles' BY <1>5, <1>8 DEF Doubles, Passes, PassesEnd, Addr
<1> QED BY <1>5, <1>6, <1>7, <1>9, <1>17, <1>18, <1>19, <1>20, <1>21, AnswerMoves

(* The bytes that wait, and those of the next word behind them. *)
LEMMA BytesJoined ==
  ASSUME NEW old \in Word, NEW w \in Word, NEW o \in Nat, NEW from \in Nat, from + o <= W, NEW data \in [Bytes -> Int],
         \A b \in 0 .. W - 1 : data[b] = IF b < o THEN old.data[from + b] ELSE w.data[b - o],
         NEW at \in Int, NEW u \in Int, at + o = u, BytesAt(old, from, o, at), BytesAt(w, 0, w.keep, u),
         NEW word, word.data = data, NEW n \in Nat, n <= W, n <= o + w.keep
  PROVE  BytesAt(word, 0, n, at)
<1>1. PICK k : k = w.keep OBVIOUS
<1>2. k \in Nat /\ W \in Nat BY <1>1, WordIs, BytesAre
<1>3. ASSUME NEW b \in 0 .. n - 1 PROVE Brings(word.data[0 + b], at + b)
  <2>1. b \in Int /\ 0 <= b /\ b < n /\ 0 + b = b /\ b \in 0 .. W - 1 BY <1>2
  <2>2. CASE b < o
    <3>1. b \in 0 .. o - 1 BY <2>1, <2>2
    <3>2. Brings(old.data[from + b], at + b) BY <3>1 DEF BytesAt
    <3> QED BY <3>2, <2>1, <2>2
  <2>3. CASE ~(b < o)
    <3>1. PICK c : c = b - o OBVIOUS
    <3>2. c \in 0 .. k - 1 /\ 0 + c = c /\ u + c = at + b BY <3>1, <2>1, <2>3, <1>1, <1>2
    <3>3. Brings(w.data[0 + c], u + c) BY <3>2, <1>1 DEF BytesAt
    <3>4. Brings(w.data[c], at + b) BY <3>2, <3>3
    <3>5. word.data[b] = w.data[c] BY <3>1, <2>1, <2>3
    <3> QED BY <3>4, <3>5, <2>1
  <2> QED BY <2>2, <2>3
<1> QED BY <1>3 DEF BytesAt

LEMMA JoinRead ==
  ASSUME NEW start \in Int, BytesRead(start), requested \in Int, freed \in Int, UNCHANGED <<side, freed, requested>>, side \in Sides, ReadJoin
  PROVE  BytesRead(start)'
<1>1. PICK w : w = Head(rdData) OBVIOUS
<1>2. PICK o : o = rdOffset OBVIOUS
<1>3. PICK r : r = out.req OBVIOUS
<1>4. PICK joined : joined = IF rdState = "join"
                             THEN [b \in Bytes |-> IF b < o THEN rdWord.data[b] ELSE w.data[b - o]]
                             ELSE Shifted(rdWord, W - o, w)
  OBVIOUS
<1>5. PICK ends : ends = (w.last /\ Fits(w)) OBVIOUS
<1>6. PICK word : word = [data |-> joined, keep |-> IF ends THEN Smaller(W, w.keep + o) ELSE W, last |-> ends] OBVIOUS
<1>7. /\ rdState \in {"join", "merged"} /\ rdData # <<>>
      /\ out' = [out EXCEPT !.words = Append(@, word)]
      /\ rdState' = (IF ends THEN "idle" ELSE IF w.last THEN "residue" ELSE "merged") /\ rdWord' = w
      /\ rdData' = Tail(rdData) /\ UNCHANGED <<rdRequests, rdSecond, rdMemCmd, rdDouble, rdAsked, rdFlag, rdOffset>>
  BY <1>1, <1>2, <1>4, <1>5, <1>6 DEF ReadJoin, Send
<1>8. /\ ReaderTypes /\ rdDouble \in Seq(BOOLEAN) /\ rdData \in Seq(Word) /\ rdFlag \in BOOLEAN /\ rdWord \in Word
      /\ out.words \in Seq(Word) /\ out = [req |-> out.req, words |-> out.words]
  BY DEF BytesRead, ReaderTypes
<1>9. PICK z, u, v, x, y, ws, rp : ReaderOk(z, u, v, x, y, ws, rp, start) BY DEF BytesRead
<1>10. /\ z \in Int /\ u \in Int /\ v \in Int /\ x \in Int /\ y \in Int
       /\ Chain(Reads, z, y) /\ Doubles /\ Arrived(u, v, ws) /\ Answered(z, u)
  BY <1>9 DEF ReaderOk
<1>11. r \in Notice /\ Reads # <<>> /\ Reads[1] = r /\ Tail(Reads) = rdAsked BY <1>3, <1>7, <1>8, ReadsAre
<1>12. PICK at : at = At OBVIOUS
<1>13. /\ (\A i \in 1 .. Len(out.words) : Whole(i)) /\ o >= 1 /\ o < W /\ Passes(r) /\ Wrap(r) <= u /\ u < End(r)
  BY <1>2, <1>3, <1>7, <1>10 DEF Answered
<1>14. o \in Nat /\ W \in Nat /\ W >= 1 BY <1>2, <1>8, BytesAre DEF ReaderTypes
<1>15. PICK from : from = (IF rdState = "join" THEN 0 ELSE W - o) OBVIOUS
<1>16. from \in Nat /\ from + o <= W BY <1>13, <1>14, <1>15
<1>17. at + o = u /\ BytesAt(rdWord, from, o, at)
  <2>1. CASE rdState = "join" BY <2>1, <1>2, <1>10, <1>12, <1>15 DEF Answered, Waits
  <2>2. CASE rdState = "merged" BY <2>2, <1>2, <1>10, <1>12, <1>15 DEF Answered, Waits
  <2> QED BY <2>1, <2>2, <1>7
<1>18. w \in Word /\ w.keep >= 1 /\ u + w.keep \in Int /\ ComesAt(w, u) BY <1>1, <1>7, <1>8, <1>10, NextWord
<1>19. r.pos \in Nat /\ r.len \in Nat /\ Wrap(r) \in Nat /\ End(r) \in Nat /\ r.pos <= u
  <2>1. r.pos \in Nat /\ r.len \in Nat /\ Wrap(r) \in Nat /\ End(r) \in Nat /\ r.pos < Wrap(r) BY <1>11, NoticeIs
  <2> QED BY <2>1, <1>10, <1>13
<1>20. PICK f : f = u + w.keep OBVIOUS
<1>21. PICK k : k = w.keep OBVIOUS
<1>22. /\ BytesAt(w, 0, k, u) /\ k \in Nat /\ k >= 1 /\ k <= W /\ f = u + k /\ f \in Int /\ f <= End(r) /\ (w.last <=> f = End(r))
       /\ (~w.last => k = W)
  <2>1. BytesAt(w, 0, w.keep, u) /\ w.keep <= W BY <1>8, <1>10, <1>11, <1>13, <1>18, <1>19, ComesIn
  <2>2. PICK b \in Nat : /\ b = (IF Passes(r) /\ u < Wrap(r) THEN Wrap(r) ELSE End(r)) /\ u < b /\ b <= End(r)
                         /\ w.keep = Smaller(W, b - u) /\ (w.last <=> u + w.keep = b) /\ u + w.keep <= b
    BY <1>8, <1>10, <1>11, <1>13, <1>18, <1>19, ComesIn
  <2>3. b = End(r) BY <2>2, <1>10, <1>13, <1>19
  <2>4. k \in Nat BY <1>18, <1>21, WordIs
  <2>5. k = Smaller(W, b - u) /\ (w.last <=> u + k = b) BY <2>2, <1>21
  <2>6. u + k # b => k = W BY <2>2, <2>4, <2>5, <1>10, <1>14 DEF Smaller
  <2> QED BY <2>1, <2>2, <2>3, <2>4, <2>5, <2>6, <1>18, <1>20, <1>21
<1>23. joined \in [Bytes -> Int] /\ \A b \in 0 .. W - 1 : joined[b] = IF b < o THEN rdWord.data[from + b] ELSE w.data[b - o]
  <2>1. Bytes = 0 .. W - 1 BY DEF Bytes
  <2>2. CASE rdState = "join"
    <3>1. joined = [b \in Bytes |-> IF b < o THEN rdWord.data[b] ELSE w.data[b - o]] /\ from = 0 BY <2>2, <1>4, <1>15
    <3>2. rdWord.data \in [0 .. W - 1 -> Int] /\ w.data \in [0 .. W - 1 -> Int] BY <2>1, <1>8, <1>18, WordIs
    <3>3. ASSUME NEW b \in 0 .. W - 1 PROVE (IF b < o THEN rdWord.data[b] ELSE w.data[b - o]) \in Int /\ from + b = b
      <4>0. from + b = b BY <3>1, <1>14
      <4>1. CASE b < o
        <5>1. rdWord.data[b] \in Int BY <3>2
        <5> QED BY <5>1, <4>0, <4>1
      <4>2. CASE ~(b < o)
        <5>1. b - o \in 0 .. W - 1 BY <4>2, <1>14
        <5>2. w.data[b - o] \in Int BY <5>1, <3>2
        <5> QED BY <5>2, <4>0, <4>2
      <4> QED BY <4>1, <4>2
    <3> QED BY <3>1, <3>3, <2>1
  <2>3. CASE rdState = "merged"
    <3>1. joined = Shifted(rdWord, W - o, w) /\ from = W - o BY <2>3, <1>4, <1>15
    <3>2. W - o \in 0 .. W /\ W - (W - o) = o BY <1>13, <1>14
    <3> QED BY <3>1, <3>2, <1>8, <1>18, ShiftedIs
  <2> QED BY <2>2, <2>3, <1>7
<1>24. Fits(w) <=> (IF side = "rx" THEN k + o <= W ELSE k + o < W) BY <1>2, <1>21 DEF Fits
<1>25. k + o \in Nat /\ (Fits(w) => k + o <= W) /\ (~Fits(w) => k + o >= W) BY <1>14, <1>22, <1>24
<1>26. PICK h : h = (IF ends THEN k + o ELSE W) OBVIOUS
<1>27. h \in Nat /\ h <= W /\ h <= o + k /\ word.keep = h /\ word.data = joined /\ word.last = ends
  <2>1. CASE ends
    <3>1. k + o <= W BY <2>1, <1>5, <1>25
    <3>2. Smaller(W, k + o) = k + o BY <3>1, <1>14, <1>22 DEF Smaller
    <3> QED BY <3>1, <3>2, <2>1, <1>6, <1>14, <1>21, <1>22, <1>26
  <2>2. CASE ~ends
    <3>1. k + o >= W
      <4>1. CASE w.last
        <5>1. ~Fits(w) BY <4>1, <2>2, <1>5
        <5> QED BY <5>1, <1>25
      <4>2. CASE ~w.last BY <4>2, <1>14, <1>22
      <4> QED BY <4>1, <4>2
    <3> QED BY <3>1, <2>2, <1>6, <1>14, <1>22, <1>26
  <2> QED BY <2>1, <2>2
<1>28. ends \in BOOLEAN BY <1>5
<1>29. word \in Word BY <1>6, <1>23, <1>27, <1>28 DEF Word
<1>30. BytesAt(word, 0, h, at) /\ at \in Int
  <2>1. at \in Int
    <3>1. PICK n : n = Len(out.words) * W OBVIOUS
    <3>2. n \in Nat BY <3>1, <1>8, EmptyIs, WordsLong
    <3>3. at = r.pos + n BY <3>1, <1>3, <1>12 DEF At
    <3> QED BY <3>2, <3>3, <1>19
  <2>2. BytesAt(w, 0, w.keep, u) BY <1>21, <1>22
  <2>3. h <= o + w.keep BY <1>21, <1>27
  <2> QED BY <2>1, <2>2, <2>3, <1>8, <1>10, <1>14, <1>16, <1>17, <1>18, <1>23, <1>27, BytesJoined
<1>31. WholeIn(out) /\ Reached(out) = at BY <1>12, <1>13 DEF WholeIn, Whole, Reached, At
<1>32. out' = [req |-> out.req, words |-> Append(out.words, word)]
  <2>1. PICK a : a = out OBVIOUS
  <2>2. a = [req |-> a.req, words |-> a.words] /\ out' = [a EXCEPT !.words = Append(@, word)] BY <2>1, <1>7, <1>8
  <2> QED BY <2>1, <2>2
<1>33. PICK zz : zz = IF rdState' = "idle" THEN f ELSE z OBVIOUS
<1>34. ASSUME ends
       PROVE  rdState' \in {"idle", "stream", "join", "merged", "residue"} /\ Answered(zz, f)' /\ out'.words \in Seq(Word)
              /\ (rdState' = "idle" => f = End(r))
  <2>1. rdState' = "idle" /\ word.last /\ h = k + o /\ w.last BY <1>34, <1>5, <1>7, <1>26, <1>27
  <2>2. f = End(r) /\ f = at + h BY <2>1, <1>10, <1>14, <1>17, <1>22, <1>30
  <2>3. Complete' /\ out'.words \in Seq(Word)
    <3>1. Reached(out) + word.keep = End(out.req) BY <2>2, <1>3, <1>27, <1>31
    <3>2. BytesAt(word, 0, word.keep, Reached(out)) /\ word.keep <= W /\ UNCHANGED side BY <1>27, <1>30, <1>31
    <3>3. out.req.pos \in Int /\ out.req.len \in Int BY <1>3, <1>19
    <3> QED BY <3>1, <3>2, <3>3, <2>1, <1>8, <1>29, <1>31, <1>32, LastWord
  <2>4. Answered(zz, f)' BY <2>1, <2>3, <1>33 DEF Answered
  <2> QED BY <2>1, <2>2, <2>3, <2>4
<1>35. ASSUME ~ends
       PROVE  rdState' \in {"idle", "stream", "join", "merged", "residue"} /\ Answered(zz, f)' /\ out'.words \in Seq(Word)
              /\ (rdState' = "idle" => f = End(r))
  <2>1. rdState' = (IF w.last THEN "residue" ELSE "merged") /\ ~word.last /\ h = W BY <1>35, <1>7, <1>26, <1>27
  <2>2. (\A i \in 1 .. Len(out.words) : Whole(i))' /\ At' = at + W /\ out'.words \in Seq(Word)
    <3>1. word.keep = W /\ BytesAt(word, 0, W, Reached(out)) /\ UNCHANGED side BY <2>1, <1>27, <1>30, <1>31
    <3>2. out.req.pos \in Int BY <1>3, <1>19
    <3> QED BY <3>1, <3>2, <2>1, <1>8, <1>29, <1>31, <1>32, NextWhole
  <2>3. at + W <= f
    <3>1. at + W <= at + (k + o) /\ at + (k + o) = f BY <2>1, <1>10, <1>14, <1>17, <1>22, <1>27, <1>30
    <3> QED BY <3>1
  <2>4. (Passes(out.req) /\ Wrap(out.req) <= f /\ f <= End(out.req) /\ (f # End(out.req) => f < End(out.req)))'
    <3>1. out'.req = r BY <1>3, <1>32
    <3>2. Passes(r) /\ Wrap(r) <= f /\ f <= End(r) /\ (f # End(r) => f < End(r)) BY <1>10, <1>13, <1>19, <1>22
    <3> QED BY <3>1, <3>2 DEF Passes, PassesEnd, Wrap, End, Addr
  <2>5. (rdOffset >= 1 /\ rdOffset < W /\ At <= f)' BY <2>2, <2>3, <1>2, <1>7, <1>13
  <2>6. rdWord' = w /\ rdOffset' = o BY <1>2, <1>7
  <2>7. ASSUME NEW n \in Nat, W - o + n <= k, at + W + n = f PROVE Waits(W - o, n, f)'
    <3>1. ASSUME NEW b \in 0 .. n - 1 PROVE Brings(w.data[(W - o) + b], (at + W) + b)
      <4>1. PICK c : c = (W - o) + b OBVIOUS
      <4>2. c \in 0 .. k - 1 /\ 0 + c = c /\ u + c = (at + W) + b BY <4>1, <2>7, <1>10, <1>13, <1>14, <1>17, <1>22, <1>30
      <4>3. Brings(w.data[0 + c], u + c) BY <4>2, <1>22 DEF BytesAt
      <4> QED BY <4>1, <4>2, <4>3
    <3>2. BytesAt(w, W - o, n, at + W) BY <3>1 DEF BytesAt
    <3>3. BytesAt(w, W - o, n, at + W)' BY <3>2, BytesAtSame
    <3> QED BY <3>3, <2>2, <2>6, <2>7 DEF Waits, BytesAt
  <2>8. CASE w.last
    <3>1. PICK n : n = k - (W - o) OBVIOUS
    <3>2. n \in Nat /\ n <= o /\ W - o + n <= k /\ at + W + n = f
      BY <3>1, <2>1, <1>10, <1>13, <1>14, <1>17, <1>22, <1>27, <1>30
    <3>3. Waits(W - o, n, f)' BY <3>2, <2>7
    <3>4. n \in 0 .. o BY <3>2, <1>14
    <3>5. (LET d == rdWord.keep - (W - rdOffset) IN d \in 0 .. rdOffset /\ f = End(out.req) /\ Waits(W - rdOffset, d, f))'
      <4>1. (rdWord.keep - (W - rdOffset))' = n BY <3>1, <2>6, <1>21
      <4>2. f = End(r) /\ out'.req = r BY <2>8, <1>3, <1>22, <1>32
      <4> QED BY <4>1, <4>2, <3>3, <3>4, <2>6 DEF Waits, BytesAt, End
    <3>6. rdState' = "residue" BY <2>1, <2>8
    <3>7. Answered(zz, f)' BY <3>5, <3>6, <2>2, <2>4, <2>5 DEF Answered
    <3> QED BY <3>6, <3>7, <2>2
  <2>9. CASE ~w.last
    <3>1. k = W /\ f # End(r) BY <2>9, <1>22
    <3>2. Waits(W - o, o, f)'
      <4>1. W - o + o <= k /\ at + W + o = f BY <3>1, <1>10, <1>14, <1>17, <1>22, <1>30
      <4> QED BY <4>1, <2>7, <1>14
    <3>3. Waits(W - rdOffset, rdOffset, f)' BY <3>2, <2>6 DEF Waits, BytesAt
    <3>4. rdState' = "merged" BY <2>1, <2>9
    <3>5. (f < End(out.req))'
      <4>1. out'.req = r BY <1>3, <1>32
      <4> QED BY <4>1, <3>1, <2>4 DEF End
    <3>6. Answered(zz, f)' BY <3>3, <3>4, <3>5, <2>2, <2>4, <2>5 DEF Answered
    <3> QED BY <3>4, <3>6, <2>2
  <2> QED BY <2>8, <2>9
<1>36. rdState' \in {"idle", "stream", "join", "merged", "residue"} /\ Answered(zz, f)' /\ out'.words \in Seq(Word)
       /\ (rdState' = "idle" => f = End(r))
  BY <1>34, <1>35
<1>37. IF rdData' = rdData THEN f = u ELSE rdData # <<>> /\ rdData' = Tail(rdData) /\ f = u + Head(rdData).keep
  <2>1. rdData' # rdData
    <3>1. Len(rdData') = Len(rdData) - 1 /\ Len(rdData) \in Nat BY <1>7, <1>8, TailIs
    <3> QED BY <3>1
  <2> QED BY <2>1, <1>1, <1>7, <1>20
<1>38. f \in Int /\ rdAsked' = Tail(Reads) /\ rdDouble' \in Seq(BOOLEAN) /\ rdFlag' \in BOOLEAN /\ rdWord' \in Word /\ rdOffset' \in 0 .. W
  <2>1. rdOffset \in 0 .. W BY <1>8 DEF ReaderTypes
  <2> QED BY <2>1, <1>7, <1>8, <1>11, <1>18, <1>22
<1>39. Doubles' BY <1>7, <1>10 DEF Doubles, Passes, PassesEnd, Addr
<1>40. out'.req = Reads[1] /\ out' = [req |-> out'.req, words |-> out'.words] BY <1>3, <1>11, <1>32
<1> QED BY <1>7, <1>8, <1>9, <1>11, <1>33, <1>36, <1>37, <1>38, <1>39, <1>40, AnswerMoves

LEMMA ResidueRead ==
  ASSUME NEW start \in Int, BytesRead(start), requested \in Int, freed \in Int, UNCHANGED <<side, freed, requested>>, ReadResidue
  PROVE  BytesRead(start)'
<1>1. PICK o : o = rdOffset OBVIOUS
<1>2. PICK r : r = out.req OBVIOUS
<1>3. PICK n : n = rdWord.keep - (W - o) OBVIOUS
<1>4. PICK data : data = Shifted(rdWord, W - o, NoWord) OBVIOUS
<1>5. PICK word : word = [data |-> data, keep |-> n, last |-> TRUE] OBVIOUS
<1>6. /\ rdState = "residue" /\ rdState' = "idle" /\ out' = [out EXCEPT !.words = Append(@, word)]
      /\ UNCHANGED <<rdRequests, rdSecond, rdMemCmd, rdDouble, rdAsked, rdData, rdFlag, rdWord, rdOffset>>
  BY <1>1, <1>3, <1>4, <1>5 DEF ReadResidue, Send
<1>7. /\ ReaderTypes /\ rdDouble \in Seq(BOOLEAN) /\ rdFlag \in BOOLEAN /\ rdWord \in Word /\ rdOffset \in 0 .. W
      /\ out.words \in Seq(Word) /\ out = [req |-> out.req, words |-> out.words]
  BY DEF BytesRead, ReaderTypes
<1>8. PICK z, u, v, x, y, ws, rp : ReaderOk(z, u, v, x, y, ws, rp, start) BY DEF BytesRead
<1>9. u \in Int /\ Doubles /\ Answered(z, u) BY <1>8 DEF ReaderOk
<1>10. r \in Notice /\ Reads # <<>> /\ Reads[1] = r /\ Tail(Reads) = rdAsked BY <1>2, <1>6, <1>7, ReadsAre
<1>11. r.pos \in Nat /\ r.len \in Nat BY <1>10, NoticeIs
<1>12. PICK at : at = At OBVIOUS
<1>13. /\ (\A i \in 1 .. Len(out.words) : Whole(i)) /\ o >= 1 /\ o < W /\ n \in 0 .. o /\ u = End(r) /\ at + n = u /\ BytesAt(rdWord, W - o, n, at)
  BY <1>1, <1>2, <1>3, <1>6, <1>9, <1>12 DEF Answered, Waits
<1>14. o \in Nat /\ W \in Nat /\ n \in Nat /\ n <= W /\ n <= o /\ W - o \in 0 .. W BY <1>1, <1>7, <1>13, BytesAre
<1>15. NoWord \in Word
  <2>1. NoData \in [Bytes -> Int] BY DEF NoData
  <2> QED BY <2>1 DEF NoWord, Word
<1>16. /\ data \in [Bytes -> Int]
       /\ \A b \in 0 .. W - 1 : data[b] = IF b < W - (W - o) THEN rdWord.data[(W - o) + b] ELSE NoWord.data[b - (W - (W - o))]
  BY <1>4, <1>7, <1>14, <1>15, ShiftedIs
<1>17. word \in Word /\ word.last /\ word.keep = n /\ word.data = data BY <1>5, <1>14, <1>16 DEF Word
<1>18. BytesAt(word, 0, n, at)
  <2>1. ASSUME NEW b \in 0 .. n - 1 PROVE Brings(word.data[0 + b], at + b)
    <3>1. 0 + b = b /\ b \in 0 .. W - 1 /\ b < W - (W - o) BY <1>14
    <3>2. Brings(rdWord.data[(W - o) + b], at + b) BY <1>13 DEF BytesAt
    <3>3. word.data[b] = rdWord.data[(W - o) + b] BY <3>1, <1>16, <1>17
    <3> QED BY <3>1, <3>2, <3>3
  <2> QED BY <2>1 DEF BytesAt
<1>19. WholeIn(out) /\ Reached(out) = at BY <1>12, <1>13 DEF WholeIn, Whole, Reached, At
<1>20. out' = [req |-> out.req, words |-> Append(out.words, word)]
  <2>1. PICK a : a = out OBVIOUS
  <2>2. a = [req |-> a.req, words |-> a.words] /\ out' = [a EXCEPT !.words = Append(@, word)] BY <2>1, <1>6, <1>7
  <2> QED BY <2>1, <2>2
<1>21. Complete' /\ out'.words \in Seq(Word)
  <2>1. Reached(out) + word.keep = End(out.req) BY <1>2, <1>13, <1>17, <1>19
  <2>2. BytesAt(word, 0, word.keep, Reached(out)) /\ word.keep <= W /\ UNCHANGED side BY <1>14, <1>17, <1>18, <1>19
  <2>3. out.req.pos \in Int /\ out.req.len \in Int BY <1>2, <1>11
  <2> QED BY <2>1, <2>2, <2>3, <1>7, <1>17, <1>19, <1>20, LastWord
<1>22. Answered(u, u)' BY <1>6, <1>21 DEF Answered
<1>23. PICK zz : zz = IF rdState' = "idle" THEN u ELSE z OBVIOUS
<1>24. zz = u /\ Answered(zz, u)' BY <1>6, <1>22, <1>23
<1>25. Doubles' BY <1>6, <1>9 DEF Doubles, Passes, PassesEnd, Addr
<1>26. out'.req = Reads[1] /\ out' = [req |-> out'.req, words |-> out'.words] /\ rdAsked' = Tail(Reads) /\ u = End(Reads[1])
  BY <1>2, <1>6, <1>10, <1>13, <1>20
<1> QED BY <1>6, <1>7, <1>8, <1>9, <1>10, <1>21, <1>23, <1>24, <1>25, <1>26, AnswerMoves

(* Byte k of the answer is in word k \div W. *)
LEMMA WordOf ==
  ASSUME NEW k \in Nat
  PROVE  k % W \in 0 .. W - 1 /\ k \div W \in Nat /\ k = (k \div W) * W + (k % W)
<1> DEFINE q == k \div W
           r == k - W * q
<1>1. W \in Nat \ {0} BY RingAssumption
<1>2. q \in Nat /\ W * q <= k /\ k < W * q + W /\ q * W = W * q BY <1>1
<1>3. W * q \in Int BY <1>1, <1>2
<1>4. r \in 0 .. W - 1 BY <1>1, <1>2, <1>3
<1>5. k = W * q + r BY <1>3
<1>6. q \in Int BY <1>2
<1> HIDE DEF r, q
<1>7. k % W = r BY <1>1, <1>4, <1>5, <1>6, RemainderIs
<1> QED BY <1>2, <1>4, <1>5, <1>7 DEF q

LEMMA SameMultiple ==
  ASSUME NEW i \in Nat, NEW j \in Nat, i < j
  PROVE  i * W + W <= j * W
<1>1. PICK d \in Nat : j = i + 1 + d
  <2>1. j - i - 1 \in Nat /\ j = i + 1 + (j - i - 1) OBVIOUS
  <2> QED BY <2>1
<1>2. W \in Nat BY BytesAre
<1>3. (i + 1 + d) * W = i * W + W + d * W BY <1>2
<1>4. d * W \in Nat /\ i * W \in Nat BY <1>2
<1> QED BY <1>1, <1>2, <1>3, <1>4

(* Whole words but for the last one, which holds at most a word. *)
LEMMA BytesAnswered ==
  ASSUME out.words \in Seq(Word), out.req \in [pos : Nat, len : Nat], NEW n, n = Len(out.words), n # 0,
         \A i \in 1 .. n - 1 : Whole(i), NEW h, h = out.words[n].keep, h <= W, BytesAt(out.words[n], 0, h, out.req.pos + (n - 1) * W)
  PROVE  /\ h \in Nat /\ (n - 1) * W \in Nat /\ Sent = (n - 1) * W + h
         /\ \A k \in 0 .. Sent - 1 : Brings(ByteOf(k), out.req.pos + k)
<1>1. n \in Nat /\ n >= 1 /\ n - 1 \in Nat BY EmptyIs
<1>2. out.words[n] \in Word
  <2>1. n \in 1 .. Len(out.words) BY <1>1
  <2> QED BY <2>1, ElementIs
<1>3. h \in Nat /\ (n - 1) * W \in Nat /\ W \in Nat BY <1>1, <1>2, WordIs, WordsLong, BytesAre
<1>4. Sent = (n - 1) * W + h BY DEF Sent
<1>6. PICK pos \in Nat : pos = out.req.pos OBVIOUS
<1>7. PICK m : m = (n - 1) * W OBVIOUS
<1>9. m \in Nat BY <1>3, <1>7
<1>10. PICK t : t = Sent OBVIOUS
<1>11. t = m + h /\ t \in Nat
  <2>1. t = m + h BY <1>4, <1>7, <1>10
  <2>2. h \in Nat BY <1>3
  <2> QED BY <2>1, <2>2, <1>9
<1>8. ASSUME NEW k \in 0 .. t - 1 PROVE Brings(ByteOf(k), pos + k)
  <2>1. k \in Nat /\ k < m + h
    <3>1. k \in Nat /\ k < t BY <1>11
    <3> QED BY <3>1, <1>11
  <2>2. PICK i, b : i = k \div W /\ b = k % W OBVIOUS
  <2>3. i \in Nat /\ b \in 0 .. W - 1 /\ k = i * W + b BY <2>1, <2>2, WordOf
  <2>4. ByteOf(k) = out.words[i + 1].data[b] BY <2>2 DEF ByteOf
  <2>5. PICK q : q = i * W OBVIOUS
  <2>6. q \in Nat /\ k = q + b BY <2>3, <2>5, WordsLong
  <2>7. CASE i + 1 \in 1 .. n - 1
    <3>1. Whole(i + 1) /\ (i + 1) - 1 = i BY <2>3, <2>7
    <3>2. BytesAt(out.words[i + 1], 0, W, pos + q) BY <3>1, <2>5, <1>6 DEF Whole
    <3>3. Brings(out.words[i + 1].data[0 + b], (pos + q) + b) BY <3>2, <2>3 DEF BytesAt
    <3>4. 0 + b = b /\ (pos + q) + b = pos + k
      <4>1. b \in Int BY <2>3
      <4> QED BY <4>1, <2>6
    <3> QED BY <3>3, <3>4, <2>4
  <2>8. CASE i + 1 = n
    <3>0. i = n - 1 BY <2>3, <2>8, <1>1
    <3>1. i = n - 1 /\ q = m BY <3>0, <2>5, <1>7
    <3>2. b \in 0 .. h - 1
      <4>1. b \in Int /\ b >= 0 /\ k = m + b BY <3>1, <2>3, <2>6
      <4>2. m \in Nat BY <1>3, <1>7
      <4>3. b < h BY <4>1, <4>2, <2>1, <1>3
      <4> QED BY <4>1, <4>3, <1>3
    <3>3. BytesAt(out.words[i + 1], 0, h, pos + q) BY <3>1, <2>8, <1>6, <1>7
    <3>4. Brings(out.words[i + 1].data[0 + b], (pos + q) + b) BY <3>2, <3>3 DEF BytesAt
    <3>5. 0 + b = b /\ (pos + q) + b = pos + k
      <4>1. b \in Int BY <2>3
      <4> QED BY <4>1, <2>6
    <3> QED BY <3>4, <3>5, <2>4
  <2>9. i + 1 \in 1 .. n - 1 \/ i + 1 = n
    <3>1. SUFFICES ASSUME n - 1 < i PROVE FALSE BY <2>3, <1>1
    <3>2. m + W <= q BY <3>1, <2>3, <2>5, <1>1, <1>7, SameMultiple
    <3>3. \A u, v, l, o, j \in Nat : u + l <= v /\ v + j < u + o /\ o <= l => FALSE OBVIOUS
    <3>4. b \in Nat /\ q + b < m + h BY <2>1, <2>3, <2>6
    <3> QED BY <3>2, <3>3, <3>4, <2>6, <1>3, <1>9
  <2> QED BY <2>7, <2>8, <2>9
<1> QED BY <1>3, <1>4, <1>6, <1>8, <1>10

LEMMA WholeAnswers ==
  ASSUME NEW start, BytesRead(start) PROVE AnswersWhole
<1>1. /\ ReaderTypes /\ out.words \in Seq(Word) /\ out.req \in [pos : Nat, len : Nat] /\ (rdState # "idle" => out.req \in Notice)
  BY DEF BytesRead, ReaderTypes
<1>2. PICK z, u, v, x, y, ws, rp : ReaderOk(z, u, v, x, y, ws, rp, start) BY DEF BytesRead
<1>3. u \in Int /\ Answered(z, u) BY <1>2 DEF ReaderOk
<1>4. PICK n : n = Len(out.words) OBVIOUS
<1>5. n \in Nat /\ W \in Nat BY <1>1, <1>4, EmptyIs, BytesAre
<1>6. PICK pos, len : pos = out.req.pos /\ len = out.req.len OBVIOUS
<1>7. pos \in Nat /\ len \in Nat BY <1>1, <1>6
<1>8. CASE n = 0
  <2>1. Sent = 0 BY <1>4, <1>8 DEF Sent
  <2> QED BY <2>1, <1>4, <1>6, <1>7, <1>8 DEF AnswersWhole
<1>9. CASE n # 0
  <2>1. PICK h : h = out.words[n].keep OBVIOUS
  <2>2. CASE rdState = "idle"
    <3>1. /\ \A i \in 1 .. n - 1 : Whole(i)
          /\ BytesAt(out.words[n], 0, h, pos + (n - 1) * W) /\ out.words[n].last /\ h <= W /\ (n - 1) * W + h = len
      BY <2>1, <2>2, <1>3, <1>4, <1>6, <1>9 DEF Answered, Complete
    <3>2. Sent = (n - 1) * W + h /\ \A k \in 0 .. Sent - 1 : Brings(ByteOf(k), out.req.pos + k)
      BY <3>1, <2>1, <1>1, <1>4, <1>6, <1>9, BytesAnswered
    <3>3. Sent = out.req.len /\ Sent <= out.req.len BY <3>1, <3>2, <1>6, <1>7
    <3>4. \A i \in 1 .. n - 1 : out.words[i].keep = W /\ ~out.words[i].last BY <3>1 DEF Whole
    <3> QED BY <3>2, <3>3, <3>4, <1>4 DEF AnswersWhole
  <2>3. CASE rdState # "idle"
    <3>1. (\A i \in 1 .. n : Whole(i)) /\ At <= u /\ u <= End(out.req) BY <2>3, <1>3, <1>4 DEF Answered
    <3>2. n \in 1 .. n /\ \A i \in 1 .. n - 1 : i \in 1 .. n BY <1>5, <1>9
    <3>3. Whole(n) /\ \A i \in 1 .. n - 1 : Whole(i) BY <3>1, <3>2
    <3>4. h = W /\ ~out.words[n].last /\ BytesAt(out.words[n], 0, h, out.req.pos + (n - 1) * W) BY <3>3, <2>1 DEF Whole
    <3>5. h \in Nat /\ (n - 1) * W \in Nat /\ Sent = (n - 1) * W + h /\ \A k \in 0 .. Sent - 1 : Brings(ByteOf(k), out.req.pos + k)
      <4>1. h <= W BY <3>4, <1>5
      <4> QED BY <4>1, <3>3, <3>4, <2>1, <1>1, <1>4, <1>9, BytesAnswered
    <3>6. Sent <= out.req.len
      <4>1. n - 1 \in Nat /\ (n - 1) + 1 = n BY <1>5, <1>9
      <4>2. n * W = (n - 1) * W + W BY <4>1, WordsLong
      <4>3. PICK s : s = Sent OBVIOUS
      <4>4. s \in Nat /\ At = pos + s BY <4>2, <4>3, <3>4, <3>5, <1>4, <1>5, <1>6 DEF At
      <4>5. End(out.req) = pos + len BY <1>6 DEF End
      <4>6. s <= len BY <4>4, <4>5, <3>1, <1>3, <1>7
      <4> QED BY <4>3, <4>6, <1>6
    <3>7. \A i \in 1 .. n - 1 : out.words[i].keep = W /\ ~out.words[i].last BY <3>3 DEF Whole
    <3> QED BY <3>4, <3>5, <3>6, <3>7, <1>4 DEF AnswersWhole
  <2> QED BY <2>2, <2>3
<1> QED BY <1>8, <1>9

----------------------------------------------------------------------------
(* From a write to the answer of a read, as long as no access has failed. *)
BytesInv ==
  /\ failures \in Nat
  /\ failures = 0 => \E start : BytesWritten(start) /\ BytesRead(start)

LEMMA ReadStarts ==
  ASSUME Init, NEW start, start = written PROVE BytesRead(start)
<1>1. /\ side \in Sides /\ written \in Nat /\ freed = written /\ requested = written
      /\ rdRequests = <<>> /\ rdSecond = <<>> /\ rdMemCmd = <<>> /\ rdDouble = <<>> /\ rdAsked = <<>> /\ rdData = <<>>
      /\ rdState = "idle" /\ rdFlag = FALSE /\ rdWord = NoWord /\ rdOffset = 0
      /\ out = [req |-> [pos |-> 0, len |-> 0], words |-> <<>>]
  BY BoundAssumption DEF Init, ReaderInit
<1>2. NoWord \in Word
  <2>1. NoData \in [Bytes -> Int] BY DEF NoData
  <2> QED BY <2>1 DEF NoWord, Word
<1>3. 0 \in 0 .. W BY BytesAre
<1>4. ReaderTypes
  <2>1. out.req \in [pos : Nat, len : Nat] /\ out.words = <<>> /\ out = [req |-> out.req, words |-> out.words] BY <1>1
  <2>2. <<>> \in Seq(Notice) /\ <<>> \in Seq(BOOLEAN) /\ <<>> \in Seq(Cmd) /\ <<>> \in Seq(Word) OBVIOUS
  <2> QED BY <2>1, <2>2, <1>1, <1>2, <1>3 DEF ReaderTypes
<1>5. Reads = <<>> BY <1>1 DEF Reads
<1>6. Chain(<<>>, written, written) BY <1>1, ChainEmpty
<1>7. <<>> \in Seq(Part) /\ Len(<<>>) = 0 OBVIOUS
<1>8. Doubles BY <1>1 DEF Doubles
<1>9. Arrived(written, written, <<>>) BY <1>1, <1>6, <1>7 DEF Arrived
<1>10. Asked(written, written, <<>>) BY <1>1, <1>6, <1>7 DEF Asked
<1>11. LeftOver(written, written) BY <1>1 DEF LeftOver
<1>12. Answered(written, written) BY <1>1 DEF Answered, Complete
<1>13. ReaderOk(written, written, written, written, written, <<>>, <<>>, start)
  BY <1>1, <1>5, <1>6, <1>8, <1>9, <1>10, <1>11, <1>12 DEF ReaderOk
<1> QED BY <1>4, <1>13 DEF BytesRead

LEMMA ReaderMoves ==
  ASSUME NEW start, BytesWritten(start), BytesRead(start), ReaderStep, UNCHANGED <<side, ringVars, writerVars>>
  PROVE  BytesWritten(start)' /\ BytesRead(start)'
<1>1. UNCHANGED <<side, freed, requested, written, ended, told, notices, tashState, writerVars>> BY DEF ringVars
<1>2. freed \in Nat /\ requested \in Nat /\ start \in Int /\ freed <= requested /\ requested <= told /\ side \in Sides
  BY WrittenIs DEF WriterTypes
<1>3. BytesWritten(start)' BY <1>1, <1>2, FreedKeeps
<1>4. BytesRead(start)'
  <2>1. UNCHANGED <<side, freed, requested>> BY <1>1
  <2>2. CASE BreakFirst BY <2>1, <2>2, <1>2, BreakFirstRead
  <2>3. CASE BreakSecond BY <2>1, <2>3, <1>2, BreakSecondRead
  <2>4. CASE MemoryReads BY <2>1, <2>4, MemoryReadsRead
  <2>5. CASE ReadIdle BY <2>1, <2>5, <1>2, IdleRead
  <2>6. CASE ReadStream BY <2>1, <2>6, <1>2, StreamRead
  <2>7. CASE ReadJoin BY <2>1, <2>7, <1>2, JoinRead
  <2>8. CASE ReadResidue BY <2>1, <2>8, <1>2, ResidueRead
  <2> QED BY <2>2, <2>3, <2>4, <2>5, <2>6, <2>7, <2>8 DEF ReaderStep
<1> QED BY <1>3, <1>4

LEMMA BytesNext ==
  ASSUME BytesInv, [Next]_vars PROVE BytesInv'
<1>1. failures \in Nat BY DEF BytesInv
<1>2. ASSUME failures = 0 PROVE \E start : BytesWritten(start) /\ BytesRead(start) BY <1>2 DEF BytesInv
<1>3. ASSUME NEW start, BytesWritten(start), BytesRead(start)
      PROVE  /\ freed \in Nat /\ requested \in Nat /\ told \in Nat /\ start \in Nat /\ freed <= requested /\ requested <= told
             /\ side \in Sides
  BY <1>3, WrittenIs DEF WriterTypes
<1>4. ASSUME failures' = failures, \A start : BytesWritten(start) /\ BytesRead(start) => (BytesWritten(start) /\ BytesRead(start))'
      PROVE  BytesInv'
  <2>1. ASSUME failures' = 0 PROVE \E start : (BytesWritten(start) /\ BytesRead(start))'
    <3>1. PICK start : BytesWritten(start) /\ BytesRead(start) BY <2>1, <1>2, <1>4
    <3> QED BY <3>1, <1>4
  <2> QED BY <2>1, <1>1, <1>4 DEF BytesInv
<1>5. ASSUME NEW n \in 1 .. B, Accept(n) \/ AcceptFin(n) \/ Refuse(n) PROVE BytesInv'
  <2>1. failures' = failures /\ UNCHANGED <<side, requested, freed, readerVars>> BY <1>5 DEF Accept, AcceptFin, Take, Refuse
  <2>2. ASSUME NEW start, BytesWritten(start), BytesRead(start) PROVE (BytesWritten(start) /\ BytesRead(start))'
    <3>1. BytesWritten(start)' BY <2>2, <1>5, AcceptWritten
    <3>2. BytesRead(start)' BY <2>1, <2>2, <1>3, ReadSame
    <3> QED BY <3>1, <3>2
  <2> QED BY <2>1, <2>2, <1>4
<1>6. ASSUME NEW n \in 1 .. B, Request(n) PROVE BytesInv'
  <2>1. /\ UNCHANGED <<side, written, ended, told, notices, tashState, writerVars>> /\ requested + n <= told /\ requested' = requested + n
        /\ freed' = IF side = "rx" THEN requested + n ELSE freed
    BY <1>6 DEF Request
  <2>2. failures' = failures BY <2>1 DEF writerVars
  <2>3. ASSUME NEW start, BytesWritten(start), BytesRead(start) PROVE (BytesWritten(start) /\ BytesRead(start))'
    <3>1. n \in Nat BY RingAssumption
    <3>2. freed' \in Nat /\ requested' \in Nat /\ freed <= freed' /\ freed' <= requested' /\ requested' <= told
      BY <3>1, <2>1, <2>3, <1>3
    <3>3. BytesWritten(start)' BY <3>2, <2>1, <2>3, FreedKeeps
    <3>4. BytesRead(start)' BY <2>3, <1>3, <1>6, RequestRead
    <3> QED BY <3>3, <3>4
  <2> QED BY <2>2, <2>3, <1>4
<1>7. CASE Acked
  <2>1. /\ side = "tx" /\ freed < Delivered /\ freed' = Delivered
        /\ UNCHANGED <<side, written, ended, told, requested, notices, tashState, writerVars, readerVars>>
    BY <1>7 DEF Acked
  <2>2. failures' = failures BY <2>1 DEF writerVars
  <2>3. ASSUME NEW start, BytesWritten(start), BytesRead(start) PROVE (BytesWritten(start) /\ BytesRead(start))'
    <3>1. PICK z, u, v, x, y, ws, rp : ReaderOk(z, u, v, x, y, ws, rp, start) BY <2>3 DEF BytesRead
    <3>2. ReaderTypes BY <2>3 DEF BytesRead
    <3>3. z \in Int /\ y \in Int /\ Chain(Reads, z, y) /\ Chain(rdRequests, y, requested) BY <3>1 DEF ReaderOk
    <3>4. Delivered = z BY <3>2, <3>3, <2>3, <1>3, DeliveredIs
    <3>5. z <= y /\ y <= requested BY <3>3 DEF Chain
    <3>6. freed' \in Nat /\ requested' \in Nat /\ freed <= freed' /\ freed' <= requested' /\ requested' <= told
      BY <3>3, <3>4, <3>5, <2>1, <2>3, <1>3
    <3>7. BytesWritten(start)' BY <3>6, <2>1, <2>3, FreedKeeps
    <3>8. BytesRead(start)' BY <2>1, <2>3, <1>3, ReadSame
    <3> QED BY <3>7, <3>8
  <2> QED BY <2>2, <2>3, <1>4
<1>8. CASE Fail
  <2>1. failures' = failures + 1 BY <1>8 DEF Fail, MemoryWrites
  <2> QED BY <2>1, <1>1 DEF BytesInv
<1>9. CASE FirstOfTwo \/ MakeKnown
  <2>1. failures' = failures /\ UNCHANGED <<side, requested, freed, readerVars>> BY <1>9 DEF FirstOfTwo, MakeKnown
  <2>2. ASSUME NEW start, BytesWritten(start), BytesRead(start) PROVE (BytesWritten(start) /\ BytesRead(start))'
    <3>1. BytesWritten(start)' BY <2>2, <1>9, ToldWritten
    <3>2. BytesRead(start)' BY <2>1, <2>2, <1>3, ReadSame
    <3> QED BY <3>1, <3>2
  <2> QED BY <2>1, <2>2, <1>4
<1>10. CASE WriterStep /\ UNCHANGED <<side, ringVars, readerVars>>
  <2>1. failures' = failures
    BY <1>10 DEF WriterStep, WriteIdle, WriteDropped, WriteFirst, EvalSecond, WriteAligned, WriteSecond, WriteResidue, MemoryWrites
  <2>2. UNCHANGED <<side, requested, freed, readerVars>> /\ UNCHANGED <<side, ringVars>> BY <1>10 DEF ringVars
  <2>3. ASSUME NEW start, BytesWritten(start), BytesRead(start) PROVE (BytesWritten(start) /\ BytesRead(start))'
    <3>1. BytesWritten(start)' BY <2>2, <2>3, <1>10, WriterPlaced
    <3>2. BytesRead(start)' BY <2>2, <2>3, <1>3, ReadSame
    <3> QED BY <3>1, <3>2
  <2> QED BY <2>1, <2>3, <1>4
<1>11. CASE ReaderStep /\ UNCHANGED <<side, ringVars, writerVars>>
  <2>1. failures' = failures BY <1>11 DEF writerVars
  <2>2. ASSUME NEW start, BytesWritten(start), BytesRead(start) PROVE (BytesWritten(start) /\ BytesRead(start))'
    BY <2>2, <1>11, ReaderMoves
  <2> QED BY <2>1, <2>2, <1>4
<1>12. CASE UNCHANGED vars
  <2>1. /\ failures' = failures /\ UNCHANGED <<side, requested, freed, readerVars>>
        /\ UNCHANGED <<side, written, ended, told, notices, tashState, writerVars>>
    BY <1>12 DEF vars, ringVars, writerVars
  <2>2. ASSUME NEW start, BytesWritten(start), BytesRead(start) PROVE (BytesWritten(start) /\ BytesRead(start))'
    <3>1. freed' \in Nat /\ requested' \in Nat /\ freed <= freed' /\ freed' <= requested' /\ requested' <= told BY <2>1, <2>2, <1>3
    <3>2. BytesWritten(start)' BY <3>1, <2>1, <2>2, FreedKeeps
    <3>3. BytesRead(start)' BY <2>1, <2>2, <1>3, ReadSame
    <3> QED BY <3>2, <3>3
  <2> QED BY <2>1, <2>2, <1>4
<1> QED BY <1>5, <1>6, <1>7, <1>8, <1>9, <1>10, <1>11, <1>12 DEF Next, Engine

LEMMA BytesPlaced ==
  ASSUME BytesInv PROVE BytesKeepPlace
<1>1. CASE failures # 0 BY <1>1 DEF BytesKeepPlace, ToldIsInPlace, AnswersWhole
<1>2. CASE failures = 0
  <2>1. PICK start : BytesWritten(start) /\ BytesRead(start) BY <1>2 DEF BytesInv
  <2>2. ToldIsInPlace
    <3>1. ASSUME NEW pos \in requested .. told - 1
          PROVE  memory[Addr(pos)] = pos \/ (Overrun(pos) /\ Brings(memory[Addr(pos)], pos))
      <4>1. /\ freed \in Nat /\ requested \in Nat /\ told \in Nat /\ start \in Nat /\ written \in Nat /\ B \in Nat
            /\ freed <= requested /\ start <= freed /\ (~ended => written <= freed + (B - 1)) /\ (ended => side = "rx")
            /\ memory \in [0 .. B - 1 -> Int]
        BY <2>1, WrittenIs, RingAssumption
      <4>2. pos \in Int /\ pos \in freed .. told - 1 /\ pos \in start .. told - 1 BY <4>1
      <4>3. CASE written <= pos + B
        <5>1. memory[Addr(pos)] = pos BY <4>2, <4>3, <2>1, WrittenIs
        <5> QED BY <5>1
      <4>4. CASE ~(written <= pos + B)
        <5>1. pos + B < written BY <4>1, <4>2, <4>4
        <5>2. ended BY <4>1, <4>2, <4>4
        <5>3. Later(memory[Addr(pos)], pos) BY <4>2, <2>1, WrittenIs
        <5>4. memory[Addr(pos)] \in Int
          <6>1. Addr(pos) \in 0 .. B - 1 BY <4>2, AddrIs
          <6> QED BY <6>1, <4>1
        <5>5. Brings(memory[Addr(pos)], pos) BY <5>2, <5>3, <5>4, <4>1, <4>2 DEF Brings, Later
        <5> QED BY <5>1, <5>2, <5>5 DEF Overrun
      <4> QED BY <4>3, <4>4
    <3> QED BY <3>1 DEF ToldIsInPlace
  <2>3. AnswersWhole BY <2>1, WholeAnswers
  <2> QED BY <2>2, <2>3 DEF BytesKeepPlace
<1> QED BY <1>1, <1>2

(* What is written to a ring is read from it (rxEngMemWrite, tx_app_stream_if; rxAppMemDataRead,    *)
(* tcpPkgStitcher): for every size of the ring and of a word, every position and every portion in  *)
(* which the stream is read, as long as no access to the memory fails, what has been made known is  *)
(* in its place until it is asked for, and an answer brings the bytes that were asked for, each in  *)
(* its place, in full words, and ends with the last of them.  A segment is taken only when there is *)
(* space for it, but a FIN is taken with all it carries (rx_engine.cpp:897): what it writes beyond  *)
(* the free space is found where bytes a lap earlier were, and harms nothing else.                  *)
THEOREM BytesStayInPlace == Spec => []BytesKeepPlace
<1>1. Init => BytesInv
  <2> SUFFICES ASSUME Init PROVE BytesInv OBVIOUS
  <2>1. PICK start : start = written OBVIOUS
  <2>2. BytesWritten(start) /\ BytesRead(start) BY <2>1, WrittenStarts, ReadStarts
  <2>3. failures = 0 BY DEF Init, WriterInit
  <2> QED BY <2>2, <2>3 DEF BytesInv
<1>2. BytesInv /\ [Next]_vars => BytesInv' BY BytesNext
<1>3. BytesInv => BytesKeepPlace BY BytesPlaced
<1> QED BY <1>1, <1>2, <1>3, PTL DEF Spec
=============================================================================
