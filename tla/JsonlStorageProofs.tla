------------------------- MODULE JsonlStorageProofs -------------------------
(***************************************************************************)
(* JsonlStorage, for any number of dates, items and texts: what was saved  *)
(* is loaded again unless a save of that very file was cut, a load_items() *)
(* that returns has lost nothing, and list_dates() returns the dates that  *)
(* a save was called for, the latest first, and misses none with anything  *)
(* to load.                                                                *)
(***************************************************************************)
EXTENDS JsonlStorage, SequenceTheorems, FunctionTheorems, FiniteSetTheorems, TLAPS

Items == 1..MaxItems
Parts == {"whole", "noeol", "half"}

(* The items of a call of save_items(), by their numbers. *)
LEMMA BatchSeq ==
  ASSUME NEW b \in Nat, NEW n \in Nat, b + n <= MaxItems,
         NEW B, B = [i \in 1..n |-> b + i]
  PROVE  B \in Seq(Items) /\ Len(B) = n /\ \A i \in 1..n : B[i] = b + i
<1>1. MaxItems \in Nat BY StorageBounds
<1>2. \A i \in 1..n : b + i \in Items BY <1>1 DEF Items
<1>3. B \in [1..n -> Items] BY <1>2
<1>4. \A f \in [1..n -> Items] : f \in Seq(Items) /\ Len(f) = n OBVIOUS
<1>5. B \in Seq(Items) /\ Len(B) = n BY <1>3, <1>4, Zenon
<1>6. QED BY <1>5

(* W is the file F and after it m new pieces, of the items that follow b, the
   first k of them whole lines. *)
IsAppend(F, W, b, k, m) ==
  /\ W \in Seq(Piece) /\ Len(W) = Len(F) + m
  /\ \A i \in 1..Len(F) : W[i] = F[i]
  /\ \A i \in 1..m : /\ W[Len(F) + i].item = b + i
                     /\ i <= k => W[Len(F) + i].part = "whole"

(* A file after save_items() wrote k lines and, perhaps, part of the next. *)
LEMMA WrittenFile ==
  ASSUME NEW F \in Seq(Piece), NEW b \in Nat, NEW n \in Nat, b + n <= MaxItems,
         NEW k \in 0..n, NEW part \in {"none", "noeol", "half"}, k = n => part = "none",
         NEW B, B = [i \in 1..n |-> b + i]
  PROVE  \E m \in k..n : IsAppend(F, Written(F, B, k, part), b, k, m)
<1>1. PICK m : m = IF part = "none" THEN k ELSE k + 1 OBVIOUS
<1>2. PICK W : W = Written(F, B, k, part) OBVIOUS
<1> DEFINE X == [i \in 1..k |-> [item |-> B[i], part |-> "whole"]]
           Y == IF part = "none" THEN <<>> ELSE <<[item |-> B[k + 1], part |-> part]>>
<1>3. MaxItems \in Nat /\ k \in Nat /\ Len(F) \in Nat BY StorageBounds
<1>4. m \in k..n BY <1>1, <1>3
<1>5. \A i \in 1..n : B[i] = b + i /\ b + i \in 1..MaxItems BY <1>3
<1>6. X \in Seq(Piece) /\ Len(X) = k
  <2>1. \A i \in 1..k : [item |-> B[i], part |-> "whole"] \in Piece BY <1>3, <1>5 DEF Piece
  <2>2. X \in [1..k -> Piece] BY <2>1
  <2>3. \A f \in [1..k -> Piece] : f \in Seq(Piece) /\ Len(f) = k BY <1>3
  <2>4. QED BY <2>2, <2>3
<1>7. \A i \in 1..k : X[i].item = b + i /\ X[i].part = "whole" BY <1>3, <1>5
<1>8. /\ Y \in Seq(Piece) /\ Len(Y) = m - k
      /\ m # k => Y[1].item = b + k + 1
  <2>1. CASE part = "none" BY <1>1, <1>3, <2>1
  <2>2. CASE part # "none"
    <3>1. k + 1 \in 1..n BY <1>3, <2>2
    <3>2. PICK y : y = [item |-> B[k + 1], part |-> part] OBVIOUS
    <3>3. y \in Piece /\ y.item = b + k + 1 BY <1>3, <1>5, <2>2, <3>1, <3>2 DEF Piece
    <3>4. Y = <<y>> BY <2>2, <3>2
    <3>5. QED BY <1>1, <1>3, <2>2, <3>3, <3>4
  <2>3. QED BY <2>1, <2>2
<1> HIDE DEF X, Y
<1>9. W = (F \o X) \o Y BY <1>2 DEF Written, X, Y
<1>10. /\ F \o X \in Seq(Piece) /\ Len(F \o X) = Len(F) + k
       /\ \A i \in 1..(Len(F) + k) : (F \o X)[i] = IF i <= Len(F) THEN F[i] ELSE X[i - Len(F)]
  BY <1>6, ConcatProperties
<1>11. PICK V : V = F \o X OBVIOUS
<1>12. /\ W \in Seq(Piece) /\ Len(W) = Len(F) + k + (m - k)
       /\ \A i \in 1..(Len(F) + k + (m - k)) :
            W[i] = IF i <= Len(F) + k THEN V[i] ELSE Y[i - (Len(F) + k)]
  <2>1. V \in Seq(Piece) /\ Len(V) = Len(F) + k /\ W = V \o Y BY <1>9, <1>10, <1>11
  <2>2. Y \in Seq(Piece) /\ Len(Y) = m - k BY <1>8
  <2>3. /\ V \o Y \in Seq(Piece) /\ Len(V \o Y) = Len(V) + Len(Y)
        /\ \A i \in 1..(Len(V) + Len(Y)) :
             (V \o Y)[i] = IF i <= Len(V) THEN V[i] ELSE Y[i - Len(V)]
    BY <2>1, <2>2, ConcatProperties
  <2>4. QED BY <2>1, <2>2, <2>3, Zenon
<1>13. Len(W) = Len(F) + m BY <1>3, <1>4, <1>12
<1>14. ASSUME NEW i \in 1..Len(F) PROVE W[i] = F[i]
  <2>1. i \in 1..(Len(F) + k) /\ i \in 1..(Len(F) + k + (m - k)) /\ i <= Len(F) + k /\ i <= Len(F)
    BY <1>3, <1>4
  <2>2. QED BY <1>10, <1>11, <1>12, <2>1
<1>15. ASSUME NEW i \in 1..m
       PROVE  W[Len(F) + i].item = b + i /\ (i <= k => W[Len(F) + i].part = "whole")
  <2>1. PICK l : l = Len(F) + i OBVIOUS
  <2>2. /\ l \in 1..(Len(F) + k + (m - k)) /\ i \in Nat /\ i # 0 /\ l - Len(F) = i
        /\ ~(l <= Len(F)) /\ (i <= k <=> l <= Len(F) + k)
    BY <1>3, <1>4, <2>1
  <2>3. CASE i <= k
    <3>1. l \in 1..(Len(F) + k) /\ i \in 1..k /\ l <= Len(F) + k BY <1>3, <2>2, <2>3
    <3>2. W[l] = X[i] BY <1>10, <1>11, <1>12, <2>2, <3>1
    <3>3. QED BY <1>7, <2>1, <3>1, <3>2
  <2>4. CASE ~(i <= k)
    <3>1. i = k + 1 /\ m # k /\ l - (Len(F) + k) = 1 /\ ~(l <= Len(F) + k)
      BY <1>1, <1>3, <1>4, <2>1, <2>2, <2>4
    <3>2. W[l] = Y[1] BY <1>12, <2>2, <3>1
    <3>3. b + k + 1 = b + i BY <1>3, <3>1
    <3>4. QED BY <1>8, <2>1, <2>4, <3>1, <3>2, <3>3
  <2>5. QED BY <2>3, <2>4
<1>16. QED BY <1>2, <1>4, <1>12, <1>13, <1>14, <1>15 DEF IsAppend

(* Two sequences put together: where their elements are. *)
LEMMA Joined ==
  ASSUME NEW S, NEW s \in Seq(S), NEW t \in Seq(S)
  PROVE  /\ s \o t \in Seq(S) /\ Len(s \o t) = Len(s) + Len(t)
         /\ \A i \in 1..Len(s) : (s \o t)[i] = s[i]
         /\ \A i \in 1..Len(t) : (s \o t)[Len(s) + i] = t[i]
<1>1. Len(s) \in Nat /\ Len(t) \in Nat OBVIOUS
<1>2. /\ s \o t \in Seq(S) /\ Len(s \o t) = Len(s) + Len(t)
      /\ \A i \in 1..(Len(s) + Len(t)) :
           (s \o t)[i] = IF i <= Len(s) THEN s[i] ELSE t[i - Len(s)]
  BY ConcatProperties
<1>3. ASSUME NEW i \in 1..Len(s) PROVE (s \o t)[i] = s[i]
  <2>1. i \in 1..(Len(s) + Len(t)) /\ i <= Len(s) BY <1>1
  <2>2. QED BY <1>2, <2>1, Zenon
<1>4. ASSUME NEW i \in 1..Len(t) PROVE (s \o t)[Len(s) + i] = t[i]
  <2>1. PICK l : l = Len(s) + i OBVIOUS
  <2>2. l \in 1..(Len(s) + Len(t)) /\ ~(l <= Len(s)) /\ l - Len(s) = i BY <1>1, <2>1
  <2>3. (s \o t)[l] = t[l - Len(s)] BY <1>2, <2>2, Zenon
  <2>4. QED BY <2>1, <2>2, <2>3
<1>5. QED BY <1>2, <1>3, <1>4

(* save_items() keeps a file in order, wherever it is cut. *)
LEMMA Appended ==
  ASSUME NEW F \in Seq(Piece), NEW G \in Seq(Items), NEW V \in Seq(Items),
         NEW b \in Nat, NEW n \in Nat, b + n <= MaxItems,
         NEW k \in 0..n, NEW part \in {"none", "noeol", "half"}, k = n => part = "none",
         NEW c, FileOk(F, G, V, b, c),
         NEW C, C = [i \in 1..n |-> b + i]
  PROVE  FileOk(Written(F, C, k, part), G \o C, IF k = n THEN V \o C ELSE V, b + n,
                c \/ k < n)
<1>1. PICK W : W = Written(F, C, k, part) OBVIOUS
<1>2. PICK m \in k..n : IsAppend(F, W, b, k, m) BY <1>1, WrittenFile
<1>3. PICK H : H = G \o C OBVIOUS
<1>4. PICK U : U = IF k = n THEN V \o C ELSE V OBVIOUS
<1>5. /\ W \in Seq(Piece) /\ Len(W) = Len(F) + m /\ m \in k..n
      /\ \A i \in 1..Len(F) : W[i] = F[i]
      /\ \A i \in 1..m : /\ W[Len(F) + i].item = b + i
                         /\ i <= k => W[Len(F) + i].part = "whole"
  BY <1>2 DEF IsAppend
<1>6. C \in Seq(Items) /\ Len(C) = n /\ \A i \in 1..n : C[i] = b + i BY BatchSeq
<1>7. /\ Len(F) \in Nat /\ Len(G) \in Nat /\ Len(V) \in Nat /\ m \in Nat /\ k \in Nat
      /\ m <= n /\ k <= m /\ k <= n
  BY <1>5
<1>8. /\ \A i \in 1..Len(F) : F[i].item <= b /\ \E j \in 1..Len(G) : G[j] = F[i].item
      /\ \A i, j \in 1..Len(F) : i < j => F[i].item < F[j].item
      /\ \A i \in 1..Len(V) : \E j \in 1..Len(F) : F[j].item = V[i]
      /\ ~c => /\ Len(F) = Len(V)
               /\ \A i \in 1..Len(F) : F[i].item = V[i] /\ F[i].part = "whole"
  BY DEF FileOk
<1>9. /\ Len(H) = Len(G) + n
      /\ \A i \in 1..Len(G) : H[i] = G[i]
      /\ \A i \in 1..n : H[Len(G) + i] = b + i
  <2>1. /\ Len(G \o C) = Len(G) + Len(C)
        /\ \A i \in 1..Len(G) : (G \o C)[i] = G[i]
        /\ \A i \in 1..Len(C) : (G \o C)[Len(G) + i] = C[i]
    <3>1. C \in Seq(Items) BY <1>6
    <3>2. QED BY <3>1, Joined
  <2>2. QED BY <1>3, <1>6, <2>1
<1>10. k = n => /\ Len(U) = Len(V) + n
                /\ \A i \in 1..Len(V) : U[i] = V[i]
                /\ \A i \in 1..n : U[Len(V) + i] = b + i
  <2>1. /\ Len(V \o C) = Len(V) + Len(C)
        /\ \A i \in 1..Len(V) : (V \o C)[i] = V[i]
        /\ \A i \in 1..Len(C) : (V \o C)[Len(V) + i] = C[i]
    <3>1. C \in Seq(Items) BY <1>6
    <3>2. QED BY <3>1, Joined
  <2>2. QED BY <1>4, <1>6, <2>1
<1>11. \A i \in 1..Len(F) : F[i].item \in Nat
  <2>1. \A i \in 1..Len(F) : F[i] \in Piece OBVIOUS
  <2>2. \A x \in Piece : x.item \in Nat BY StorageBounds DEF Piece
  <2>3. QED BY <2>1, <2>2
<1>12. ASSUME NEW i \in 1..Len(W)
       PROVE  i \in 1..Len(F) \/ \E a \in 1..m : i = Len(F) + a
  <2>1. CASE i <= Len(F) BY <1>5, <1>7, <2>1
  <2>2. CASE ~(i <= Len(F))
    <3>1. i - Len(F) \in 1..m /\ i = Len(F) + (i - Len(F)) BY <1>5, <1>7, <2>2
    <3>2. QED BY <3>1
  <2>3. QED BY <2>1, <2>2
<1>13. ASSUME k = n, NEW i \in 1..Len(U)
       PROVE  i \in 1..Len(V) \/ \E a \in 1..n : i = Len(V) + a
  <2>0. Len(U) = Len(V) + n BY <1>13, <1>10
  <2>1. CASE i <= Len(V) BY <1>7, <2>0, <2>1
  <2>2. CASE ~(i <= Len(V))
    <3>1. i - Len(V) \in 1..n /\ i = Len(V) + (i - Len(V)) BY <1>7, <2>0, <2>2
    <3>2. QED BY <3>1
  <2>3. QED BY <2>1, <2>2
<1>14. ASSUME NEW i \in 1..Len(W)
       PROVE  W[i].item <= b + n /\ \E j \in 1..Len(H) : H[j] = W[i].item
  <2>1. i \in 1..Len(F) \/ \E a \in 1..m : i = Len(F) + a BY <1>12
  <2>2. CASE i \in 1..Len(F)
    <3>1. W[i].item <= b /\ W[i].item \in Nat /\ W[i] = F[i] BY <1>5, <1>8, <1>11, <2>2
    <3>2. PICK j \in 1..Len(G) : G[j] = F[i].item BY <1>8, <2>2
    <3>3. j \in 1..Len(H) /\ H[j] = G[j] BY <1>7, <1>9
    <3>4. QED BY <3>1, <3>2, <3>3
  <2>3. CASE \E a \in 1..m : i = Len(F) + a
    <3>1. PICK a \in 1..m : i = Len(F) + a BY <2>3
    <3>2. W[i].item = b + a BY <1>5, <3>1
    <3>3. a \in 1..n /\ Len(G) + a \in 1..Len(H) BY <1>7, <1>9
    <3>4. H[Len(G) + a] = b + a BY <1>9, <3>3, Zenon
    <3>5. b + a <= b + n BY <3>3
    <3>6. QED BY <3>2, <3>3, <3>4, <3>5
  <2>4. QED BY <2>1, <2>2, <2>3
<1>15. ASSUME NEW i \in 1..Len(W), NEW j \in 1..Len(W), i < j
       PROVE  W[i].item < W[j].item
  <2>1. i \in 1..Len(F) \/ \E a \in 1..m : i = Len(F) + a BY <1>12
  <2>2. j \in 1..Len(F) \/ \E a \in 1..m : j = Len(F) + a BY <1>12
  <2>3. CASE i \in 1..Len(F) /\ j \in 1..Len(F) BY <1>5, <1>8, <1>15, <2>3
  <2>4. CASE i \in 1..Len(F) /\ \E a \in 1..m : j = Len(F) + a
    <3>1. PICK a \in 1..m : j = Len(F) + a BY <2>4
    <3>2. W[j].item = b + a BY <1>5, <3>1
    <3>3. W[i].item <= b /\ W[i].item \in Nat BY <1>5, <1>8, <1>11, <2>4
    <3>4. \A x \in Nat : x <= b => x < b + a OBVIOUS
    <3>5. QED BY <3>2, <3>3, <3>4
  <2>5. CASE (\E a \in 1..m : i = Len(F) + a) /\ (\E a \in 1..m : j = Len(F) + a)
    <3>1. PICK a \in 1..m : i = Len(F) + a BY <2>5
    <3>2. PICK e \in 1..m : j = Len(F) + e BY <2>5
    <3>3. W[i].item = b + a /\ W[j].item = b + e BY <1>5, <3>1, <3>2
    <3>4. a < e BY <1>7, <1>15, <3>1, <3>2
    <3>5. b + a < b + e BY <3>4
    <3>6. QED BY <3>3, <3>5
  <2>6. ~((\E a \in 1..m : i = Len(F) + a) /\ j \in 1..Len(F)) BY <1>7, <1>15
  <2>7. QED BY <2>1, <2>2, <2>3, <2>4, <2>5, <2>6
<1>16. ASSUME NEW i \in 1..Len(U) PROVE \E j \in 1..Len(W) : W[j].item = U[i]
  <2>1. ASSUME NEW v \in 1..Len(V) PROVE \E j \in 1..Len(W) : W[j].item = V[v]
    <3>1. PICK j \in 1..Len(F) : F[j].item = V[v] BY <1>8
    <3>2. j \in 1..Len(W) /\ W[j] = F[j] BY <1>5, <1>7
    <3>3. QED BY <3>1, <3>2
  <2>2. CASE k # n
    <3>1. U = V BY <1>4, <2>2
    <3>2. QED BY <2>1, <3>1
  <2>3. CASE k = n
    <3>1. i \in 1..Len(V) \/ \E a \in 1..n : i = Len(V) + a BY <1>13, <2>3
    <3>2. CASE i \in 1..Len(V) BY <1>10, <2>1, <2>3, <3>2
    <3>3. CASE \E a \in 1..n : i = Len(V) + a
      <4>1. PICK a \in 1..n : i = Len(V) + a BY <3>3
      <4>2. U[i] = b + a BY <1>10, <2>3, <4>1
      <4>3. a \in 1..m /\ Len(F) + a \in 1..Len(W) BY <1>5, <1>7, <2>3
      <4>4. W[Len(F) + a].item = b + a BY <1>5, <4>3
      <4>5. QED BY <4>2, <4>3, <4>4
    <3>4. QED BY <3>1, <3>2, <3>3
  <2>4. QED BY <2>2, <2>3
<1>17. ASSUME ~(c \/ k < n)
       PROVE  /\ Len(W) = Len(U)
              /\ \A i \in 1..Len(W) : W[i].item = U[i] /\ W[i].part = "whole"
  <2>1. ~c /\ k = n /\ m = n BY <1>7, <1>17
  <2>2. Len(F) = Len(V) /\ Len(W) = Len(U) BY <1>5, <1>8, <1>10, <2>1
  <2>3. ASSUME NEW i \in 1..Len(W) PROVE W[i].item = U[i] /\ W[i].part = "whole"
    <3>1. i \in 1..Len(F) \/ \E a \in 1..m : i = Len(F) + a BY <1>12
    <3>2. CASE i \in 1..Len(F)
      <4>1. W[i] = F[i] /\ U[i] = V[i] BY <1>5, <1>10, <2>1, <2>2, <3>2
      <4>2. QED BY <1>8, <2>1, <3>2, <4>1
    <3>3. CASE \E a \in 1..m : i = Len(F) + a
      <4>1. PICK a \in 1..m : i = Len(F) + a BY <3>3
      <4>2. a <= k /\ a \in 1..n BY <1>7, <2>1
      <4>3. W[i].item = b + a /\ W[i].part = "whole" BY <1>5, <4>1, <4>2
      <4>4. U[i] = b + a BY <1>10, <2>1, <2>2, <4>1, <4>2
      <4>5. QED BY <4>3, <4>4
    <3>4. QED BY <3>1, <3>2, <3>3
  <2>4. QED BY <2>2, <2>3
<1>18. FileOk(W, H, U, b + n, c \/ k < n) BY <1>14, <1>15, <1>16, <1>17 DEF FileOk
<1>19. QED BY <1>1, <1>3, <1>4, <1>18

(* A file is not disturbed by items given to another. *)
LEMMA OtherFile ==
  ASSUME NEW F \in Seq(Piece), NEW G, NEW V, NEW b \in Nat, NEW n \in Nat, NEW c,
         FileOk(F, G, V, b, c)
  PROVE  FileOk(F, G, V, b + n, c)
<1>1. \A i \in 1..Len(F) : F[i].item \in Nat
  <2>1. \A i \in 1..Len(F) : F[i] \in Piece OBVIOUS
  <2>2. \A x \in Piece : x.item \in Nat BY StorageBounds DEF Piece
  <2>3. QED BY <2>1, <2>2
<1>2. \A x \in Nat : x <= b => x <= b + n OBVIOUS
<1>3. QED BY <1>1, <1>2 DEF FileOk

-----------------------------------------------------------------------------
(* Nothing was saved yet. *)
LEMMA StorageInit == Init => StorageInv
<1> SUFFICES ASSUME Init PROVE StorageInv OBVIOUS
<1> USE DEF Init
<1>1. TypeOK
  <2>1. 0 \in 0..MaxItems /\ 0 \in 0..MaxTexts BY StorageBounds
  <2>2. [text |-> 0, part |-> "absent"] \in Text BY <2>1 DEF Text
  <2>3. docs \in [Dates -> [Docs -> Text]] BY <2>2
  <2>4. /\ items \in [Dates -> Seq(Piece)] /\ saved \in [Dates -> Seq(1..MaxItems)]
        /\ given \in [Dates -> Seq(1..MaxItems)]
    OBVIOUS
  <2>5. last \in [Dates -> [Docs -> 0..MaxTexts]] BY <2>1
  <2>6. dirs \subseteq Dates \cup {sessions} OBVIOUS
  <2>7. QED BY <2>1, <2>3, <2>4, <2>5, <2>6 DEF TypeOK
<1>2. FileInv BY DEF FileInv, FileOk
<1>3. DocInv BY DEF DocInv
<1>4. DirInv
  <2>1. \A d \in Dates : items[d] = <<>> /\ \A f \in Docs : docs[d][f].part = "absent" OBVIOUS
  <2>2. dirs \ {sessions} = {} OBVIOUS
  <2>3. QED BY <2>1, <2>2 DEF DirInv
<1>5. QED BY <1>1, <1>2, <1>3, <1>4 DEF StorageInv

(* What a call is asked to save for is a date. *)
LEMMA DateGiven ==
  ASSUME today \in Dates, NEW date \in 0..MaxDate PROVE DateOr(date) \in Dates
BY StorageBounds DEF DateOr, Dates

(* The directory of the sessions is that of no date. *)
LEMMA NotSessions == sessions \notin Dates
BY StorageBounds DEF sessions, Dates

(* save_items(), wherever it is cut. *)
LEMMA SaveItemsStep ==
  ASSUME StorageInv, NEW n \in 0..MaxBatch, NEW date \in 0..MaxDate, NEW k \in 0..n,
         NEW part \in {"none", "noeol", "half"}, NEW dies \in BOOLEAN,
         save_items(n, date, k, part, dies)
  PROVE  StorageInv'
<1>1. PICK d \in Dates : d = DateOr(date) BY DateGiven DEF StorageInv, TypeOK
<1>2. PICK b \in Nat : b = nitem BY StorageBounds DEF StorageInv, TypeOK
<1>3. PICK B : B = [i \in 1..n |-> b + i] OBVIOUS
<1>4. PICK F : F = items[d] OBVIOUS
<1>5. PICK W : W = Written(F, B, k, part) OBVIOUS
<1>6. PICK G : G = given[d] \o B OBVIOUS
<1>7. PICK V : V = IF k = n THEN saved[d] \o B ELSE saved[d] OBVIOUS
<1>8. /\ nitem + n <= MaxItems /\ (k = n => part = "none")
      /\ dirs' = dirs \cup {DateOr(date)}
      /\ items' = [items EXCEPT ![DateOr(date)] =
                     Written(items[DateOr(date)], [i \in 1..n |-> nitem + i], k, part)]
      /\ nitem' = nitem + n
      /\ given' = [given EXCEPT ![DateOr(date)] =
                     given[DateOr(date)] \o [i \in 1..n |-> nitem + i]]
      /\ saved' = IF k = n THEN [saved EXCEPT ![DateOr(date)] =
                                   saved[DateOr(date)] \o [i \in 1..n |-> nitem + i]]
                  ELSE saved
      /\ named' = named \cup {DateOr(date)}
      /\ cut' = IF k < n THEN cut \cup {<<DateOr(date), "items">>} ELSE cut
      /\ up' = ~dies
      /\ UNCHANGED <<today, docs, ntext, last>>
  BY DEF save_items
<1>9. /\ b + n <= MaxItems /\ (k = n => part = "none")
      /\ dirs' = dirs \cup {d} /\ nitem' = b + n
      /\ items' = [items EXCEPT ![d] = W]
      /\ given' = [given EXCEPT ![d] = G]
      /\ named' = named \cup {d}
      /\ cut' = (IF k < n THEN cut \cup {<<d, "items">>} ELSE cut)
      /\ up' = ~dies
      /\ UNCHANGED <<today, docs, ntext, last>>
  BY <1>1, <1>2, <1>3, <1>4, <1>5, <1>6, <1>8
<1>10. TypeOK BY DEF StorageInv
<1>11. /\ items \in [Dates -> Seq(Piece)] /\ given \in [Dates -> Seq(Items)]
       /\ saved \in [Dates -> Seq(Items)]
  BY <1>10 DEF TypeOK, Items
<1>12. saved' = [saved EXCEPT ![d] = V]
  <2>1. CASE k = n
    <3>1. saved' = [saved EXCEPT ![DateOr(date)] =
                      saved[DateOr(date)] \o [i \in 1..n |-> nitem + i]]
      BY <1>8, <2>1
    <3>2. V = saved[d] \o B BY <1>7, <2>1
    <3>3. QED BY <1>1, <1>2, <1>3, <3>1, <3>2
  <2>2. CASE k # n
    <3>1. saved' = saved /\ V = saved[d] BY <1>7, <1>8, <2>2
    <3>2. QED BY <1>11, <3>1
  <2>3. QED BY <2>1, <2>2
<1>13. n \in Nat /\ k \in Nat /\ k <= n BY StorageBounds
<1>14. B \in Seq(Items) /\ Len(B) = n
  <2>1. b + n <= MaxItems BY <1>9
  <2>2. QED BY <1>3, <1>13, <2>1, BatchSeq
<1>15. /\ F \in Seq(Piece) /\ given[d] \in Seq(Items) /\ saved[d] \in Seq(Items) BY <1>4, <1>11
<1>16. W \in Seq(Piece)
  <2>1. PICK m \in k..n : IsAppend(F, W, b, k, m)
    <3>1. b + n <= MaxItems /\ (k = n => part = "none") /\ F \in Seq(Piece) BY <1>9, <1>15
    <3>2. QED BY <1>3, <1>5, <1>13, <3>1, WrittenFile
  <2>2. QED BY <2>1 DEF IsAppend
<1>17. G \in Seq(Items) /\ Len(G) = Len(given[d]) + n
  <2>1. PICK g \in Seq(Items) : g = given[d] BY <1>15
  <2>2. B \in Seq(Items) BY <1>14
  <2>3. g \o B \in Seq(Items) /\ Len(g \o B) = Len(g) + Len(B) BY <2>2, Joined
  <2>4. QED BY <1>6, <1>14, <2>1, <2>3, Zenon
<1>18. V \in Seq(Items) BY <1>7, <1>14, <1>15, Joined
<1>19. TypeOK'
  <2>1. items' \in [Dates -> Seq(Piece)] BY <1>9, <1>11, <1>16
  <2>2. given' \in [Dates -> Seq(Items)] BY <1>9, <1>11, <1>17
  <2>3. saved' \in [Dates -> Seq(Items)] BY <1>11, <1>12, <1>18
  <2>4. nitem' \in 0..MaxItems
    <3>1. b + n <= MaxItems /\ nitem' = b + n BY <1>9
    <3>2. b + n \in 0..MaxItems BY <1>13, <3>1, StorageBounds
    <3>3. QED BY <3>1, <3>2
  <2>5. dirs' \subseteq Dates \cup {sessions} BY <1>9, <1>10 DEF TypeOK
  <2>6. cut' \subseteq Dates \X (Docs \cup {"items"})
    <3>1. <<d, "items">> \in Dates \X (Docs \cup {"items"}) OBVIOUS
    <3>2. cut \subseteq Dates \X (Docs \cup {"items"}) BY <1>10 DEF TypeOK
    <3>3. cut' = cut \/ cut' = cut \cup {<<d, "items">>} BY <1>9
    <3>4. QED BY <3>1, <3>2, <3>3
  <2>7. up' \in BOOLEAN BY <1>9
  <2>8. /\ today' \in Dates /\ docs' \in [Dates -> [Docs -> Text]]
        /\ ntext' \in 0..MaxTexts /\ last' \in [Dates -> [Docs -> 0..MaxTexts]]
    BY <1>9, <1>10 DEF TypeOK
  <2>9. named' \subseteq Dates BY <1>9, <1>10 DEF TypeOK
  <2>10. QED BY <2>1, <2>2, <2>3, <2>4, <2>5, <2>6, <2>7, <2>8, <2>9 DEF TypeOK, Items
<1>20. FileInv'
  <2>1. SUFFICES ASSUME NEW e \in Dates
                 PROVE  FileOk(items'[e], given'[e], saved'[e], nitem', <<e, "items">> \in cut')
    BY DEF FileInv
  <2>2. PICK c : c = (<<e, "items">> \in cut) OBVIOUS
  <2>3. FileOk(items[e], given[e], saved[e], b, c)
    BY <1>2, <2>2 DEF StorageInv, FileInv
  <2>4. CASE e = d
    <3>1. items'[e] = W /\ given'[e] = G /\ saved'[e] = V BY <1>9, <1>11, <1>12, <2>4
    <3>2. (<<e, "items">> \in cut') <=> (c \/ k < n) BY <1>9, <2>2, <2>4
    <3>3. FileOk(F, given[d], saved[d], b, c) BY <1>4, <2>3, <2>4
    <3>4. b + n <= MaxItems /\ (k = n => part = "none") BY <1>9
    <3>5. PICK g \in Seq(Items), v \in Seq(Items) : g = given[d] /\ v = saved[d] BY <1>15
    <3>6. FileOk(W, G, V, b + n, c \/ k < n)
      <4>1. FileOk(F, g, v, b, c) BY <3>3, <3>5
      <4>2. G = g \o B /\ V = (IF k = n THEN v \o B ELSE v) BY <1>6, <1>7, <3>5
      <4>3. F \in Seq(Piece) /\ n \in Nat BY <1>13, <1>15
      <4>4. FileOk(Written(F, B, k, part), g \o B, IF k = n THEN v \o B ELSE v, b + n, c \/ k < n)
        BY <1>3, <3>4, <4>1, <4>3, Appended
      <4>5. QED BY <1>5, <4>2, <4>4
    <3>7. FileOk(W, G, V, b + n, <<e, "items">> \in cut') BY <3>2, <3>6 DEF FileOk
    <3>8. QED BY <1>9, <3>1, <3>7
  <2>5. CASE e # d
    <3>1. items'[e] = items[e] /\ given'[e] = given[e] /\ saved'[e] = saved[e]
      BY <1>9, <1>11, <1>12, <2>5
    <3>2. (<<e, "items">> \in cut') = c BY <1>9, <2>2, <2>5
    <3>3. items[e] \in Seq(Piece) BY <1>11
    <3>4. FileOk(items[e], given[e], saved[e], b + n, c) BY <1>13, <2>3, <3>3, OtherFile
    <3>5. QED BY <1>9, <3>1, <3>2, <3>4
  <2>6. QED BY <2>4, <2>5
<1>21. DocInv'
  <2>1. ASSUME NEW e \in Dates, NEW f \in Docs PROVE <<e, f>> \in cut' <=> <<e, f>> \in cut
    <3>1. f # "items" BY DEF Docs
    <3>2. QED BY <1>9, <3>1
  <2>2. QED BY <1>9, <2>1 DEF StorageInv, DocInv
<1>22. DirInv'
  <2>1. dirs' \ {sessions} = (dirs \ {sessions}) \cup {d} BY <1>9, NotSessions
  <2>2. \A e \in Dates : e # d => items'[e] = items[e] BY <1>9, <1>11
  <2>3. QED BY <1>9, <2>1, <2>2 DEF StorageInv, DirInv
<1>23. QED BY <1>19, <1>20, <1>21, <1>22 DEF StorageInv

(* save_report() and save_summary(), wherever they are cut. *)
LEMMA SaveDocStep ==
  ASSUME StorageInv, NEW f \in Docs, NEW date \in 0..MaxDate,
         NEW part \in {"empty", "half", "full"}, NEW dies \in BOOLEAN,
         SaveDoc(f, date, part, dies)
  PROVE  StorageInv'
<1>1. PICK d \in Dates : d = DateOr(date) BY DateGiven DEF StorageInv, TypeOK
<1>2. PICK t : t = ntext + 1 OBVIOUS
<1>3. PICK x : x = [text |-> t, part |-> part] OBVIOUS
<1>4. /\ ntext < MaxTexts /\ ntext' = t
      /\ dirs' = dirs \cup {d}
      /\ docs' = [docs EXCEPT ![d][f] = x]
      /\ last' = [last EXCEPT ![d][f] = t]
      /\ named' = named \cup {d}
      /\ cut' = (IF part = "full" THEN cut \ {<<d, f>>} ELSE cut \cup {<<d, f>>})
      /\ up' = ~dies
      /\ UNCHANGED <<today, items, nitem, saved, given>>
  BY <1>1, <1>2, <1>3 DEF SaveDoc
<1>5. TypeOK BY DEF StorageInv
<1>6. t \in 0..MaxTexts /\ t # 0
  <2>1. ntext \in 0..MaxTexts /\ ntext < MaxTexts BY <1>4, <1>5 DEF TypeOK
  <2>2. QED BY <1>2, <2>1, StorageBounds
<1>7. x \in Text /\ x.text = t /\ x.part = part BY <1>3, <1>6 DEF Text
<1>8. /\ docs \in [Dates -> [Docs -> Text]] /\ last \in [Dates -> [Docs -> 0..MaxTexts]]
  BY <1>5 DEF TypeOK
<1>9. \A e \in Dates, g \in Docs :
        /\ docs'[e][g] = IF e = d /\ g = f THEN x ELSE docs[e][g]
        /\ last'[e][g] = IF e = d /\ g = f THEN t ELSE last[e][g]
  BY <1>4, <1>8
<1>10. TypeOK'
  <2>1. docs' \in [Dates -> [Docs -> Text]] BY <1>4, <1>7, <1>8
  <2>2. last' \in [Dates -> [Docs -> 0..MaxTexts]] BY <1>4, <1>6, <1>8
  <2>3. cut' \subseteq Dates \X (Docs \cup {"items"})
    <3>1. <<d, f>> \in Dates \X (Docs \cup {"items"}) OBVIOUS
    <3>2. cut \subseteq Dates \X (Docs \cup {"items"}) BY <1>5 DEF TypeOK
    <3>3. cut' \subseteq cut \cup {<<d, f>>} BY <1>4
    <3>4. QED BY <3>1, <3>2, <3>3
  <2>4. dirs' \subseteq Dates \cup {sessions} BY <1>4, <1>5 DEF TypeOK
  <2>5. ntext' \in 0..MaxTexts BY <1>4, <1>6
  <2>6. up' \in BOOLEAN BY <1>4
  <2>7. named' \subseteq Dates BY <1>4, <1>5 DEF TypeOK
  <2>8. QED BY <1>4, <1>5, <2>1, <2>2, <2>3, <2>4, <2>5, <2>6, <2>7 DEF TypeOK
<1>11. FileInv'
  <2>1. SUFFICES ASSUME NEW e \in Dates
                 PROVE  FileOk(items[e], given[e], saved[e], nitem, <<e, "items">> \in cut')
    BY <1>4 DEF FileInv
  <2>2. <<e, "items">> \in cut' <=> <<e, "items">> \in cut
    <3>1. f # "items" BY DEF Docs
    <3>2. QED BY <1>4, <3>1
  <2>3. FileOk(items[e], given[e], saved[e], nitem, <<e, "items">> \in cut)
    BY DEF StorageInv, FileInv
  <2>4. QED BY <2>2, <2>3 DEF FileOk
<1>12. DocInv'
  <2>1. SUFFICES ASSUME NEW e \in Dates, NEW g \in Docs
                 PROVE  /\ docs'[e][g].text = last'[e][g]
                        /\ <<e, g>> \notin cut' => docs'[e][g].part \in {"full", "absent"}
    BY DEF DocInv
  <2>2. CASE e = d /\ g = f
    <3>1. docs'[e][g] = x /\ last'[e][g] = t BY <1>9, <2>2
    <3>2. <<e, g>> \notin cut' => part = "full" BY <1>4, <2>2
    <3>3. QED BY <1>7, <3>1, <3>2
  <2>3. CASE ~(e = d /\ g = f)
    <3>1. docs'[e][g] = docs[e][g] /\ last'[e][g] = last[e][g] BY <1>9, <2>3
    <3>2. <<e, g>> \in cut' <=> <<e, g>> \in cut BY <1>4, <2>3
    <3>3. /\ docs[e][g].text = last[e][g]
          /\ <<e, g>> \notin cut => docs[e][g].part \in {"full", "absent"}
      BY DEF StorageInv, DocInv
    <3>4. QED BY <3>1, <3>2, <3>3
  <2>4. QED BY <2>2, <2>3
<1>13. DirInv'
  <2>1. dirs' \ {sessions} = (dirs \ {sessions}) \cup {d} BY <1>4, NotSessions
  <2>2. \A e \in Dates : e # d => \A g \in Docs : docs'[e][g] = docs[e][g] BY <1>9
  <2>3. QED BY <1>4, <2>1, <2>2 DEF StorageInv, DirInv
<1>14. QED BY <1>10, <1>11, <1>12, <1>13 DEF StorageInv

(* Every step preserves the invariant. *)
LEMMA StorageNext == StorageInv /\ [Next]_vars => StorageInv'
<1> SUFFICES ASSUME StorageInv, [Next]_vars PROVE StorageInv' OBVIOUS
<1>1. CASE \E n \in 0..MaxBatch, date \in 0..MaxDate, dies \in BOOLEAN,
             part \in {"none", "noeol", "half"} :
             \E k \in 0..n : save_items(n, date, k, part, dies)
  BY <1>1, SaveItemsStep
<1>2. CASE \E f \in Docs, date \in 0..MaxDate, dies \in BOOLEAN,
             part \in {"empty", "half", "full"} : SaveDoc(f, date, part, dies)
  BY <1>2, SaveDocStep
<1>3. CASE start
  <2>1. TypeOK' BY <1>3 DEF StorageInv, TypeOK, start
  <2>2. (FileInv /\ DocInv /\ DirInv)' BY <1>3 DEF StorageInv, FileInv, DocInv, DirInv, start
  <2>3. QED BY <2>1, <2>2 DEF StorageInv
<1>4. CASE Midnight
  <2>1. today' \in Dates
    <3>1. today \in 1..MaxDate /\ today < MaxDate /\ today' = today + 1
      BY <1>4 DEF StorageInv, TypeOK, Midnight, Dates
    <3>2. \A x \in 1..MaxDate : x < MaxDate => x + 1 \in 1..MaxDate BY StorageBounds
    <3>3. QED BY <3>1, <3>2 DEF Dates
  <2>2. TypeOK' BY <1>4, <2>1 DEF StorageInv, TypeOK, Midnight
  <2>3. (FileInv /\ DocInv /\ DirInv)'
    BY <1>4 DEF StorageInv, FileInv, DocInv, DirInv, Midnight
  <2>4. QED BY <2>2, <2>3 DEF StorageInv
<1>5. CASE UNCHANGED vars
  <2>1. TypeOK' BY <1>5 DEF StorageInv, TypeOK, vars
  <2>2. (FileInv /\ DocInv /\ DirInv)' BY <1>5 DEF StorageInv, FileInv, DocInv, DirInv, vars
  <2>3. QED BY <2>1, <2>2 DEF StorageInv
<1>6. QED BY <1>1, <1>2, <1>3, <1>4, <1>5 DEF Next

-----------------------------------------------------------------------------
(* A file without a cut append loads as what was saved. *)
LEMMA LoadsSaved ==
  ASSUME StorageInv, NEW d \in Dates, <<d, "items">> \notin cut, NEW p
  PROVE  /\ ~load_items(d, p).throws
         /\ load_items(d, p).value
              = IF p = NoPlatform THEN saved[d]
                ELSE SelectSeq(saved[d], LAMBDA x : platform(x) = p)
<1>1. PICK F : F = items[d] OBVIOUS
<1>2. PICK V : V = saved[d] OBVIOUS
<1>3. F \in Seq(Piece) /\ V \in Seq(Items)
  BY <1>1, <1>2 DEF StorageInv, TypeOK, Items
<1>4. /\ Len(F) = Len(V)
      /\ \A i \in 1..Len(F) : F[i].item = V[i] /\ F[i].part = "whole"
  BY <1>1, <1>2 DEF StorageInv, FileInv, FileOk
<1>5. PICK all : all = [i \in 1..Len(F) |-> F[i].item] OBVIOUS
<1>6. all = V
  <2>1. V = [i \in 1..Len(V) |-> V[i]] BY <1>3
  <2>2. QED BY <1>4, <1>5, <2>1
<1>7. load_items(d, p) =
        [throws |-> \E i \in 1..Len(F) :
                      F[i].part = "half" \/ (F[i].part = "noeol" /\ i < Len(F)),
         value  |-> IF p = NoPlatform THEN all
                    ELSE SelectSeq(all, LAMBDA x : platform(x) = p)]
  BY <1>1, <1>5 DEF load_items
<1>8. ~load_items(d, p).throws BY <1>4, <1>7
<1>9. load_items(d, p).value = IF p = NoPlatform THEN V
                               ELSE SelectSeq(V, LAMBDA x : platform(x) = p)
  BY <1>6, <1>7
<1>10. QED BY <1>2, <1>8, <1>9

(* The invariant of the files, whatever is cut, at whatever place, and however
   often the process dies and starts again. *)
THEOREM StorageInvariant == Spec => []StorageInv
<1>1. Init => StorageInv BY StorageInit
<1>2. StorageInv /\ [Next]_vars => StorageInv' BY StorageNext
<1>3. QED BY <1>1, <1>2, PTL DEF Spec

(* What was saved for a date is loaded again, all of it or one platform's, unless
   a save of that very file was cut. *)
THEOREM SavedIsLoaded == Spec => []RoundTrip
<1>1. StorageInv => RoundTrip
  <2> SUFFICES ASSUME StorageInv, NEW d \in Dates
               PROVE  /\ <<d, "items">> \notin cut =>
                           /\ ~load_items(d, NoPlatform).throws
                           /\ load_items(d, NoPlatform).value = saved[d]
                           /\ \A p \in Platforms :
                                /\ ~load_items(d, p).throws
                                /\ load_items(d, p).value
                                     = SelectSeq(saved[d], LAMBDA x : platform(x) = p)
                      /\ <<d, "report">> \notin cut =>
                           /\ load_report(d).part \in {"full", "absent"}
                           /\ load_report(d).text = last[d]["report"]
                      /\ <<d, "summary">> \notin cut =>
                           /\ ~load_summary(d).throws
                           /\ load_summary(d).text = last[d]["summary"]
    BY DEF RoundTrip
  <2>1. ASSUME <<d, "items">> \notin cut
        PROVE  /\ ~load_items(d, NoPlatform).throws
               /\ load_items(d, NoPlatform).value = saved[d]
    BY <2>1, LoadsSaved
  <2>2. ASSUME <<d, "items">> \notin cut, NEW p \in Platforms
        PROVE  /\ ~load_items(d, p).throws
               /\ load_items(d, p).value = SelectSeq(saved[d], LAMBDA x : platform(x) = p)
    <3>1. p # NoPlatform BY DEF Platforms, NoPlatform
    <3>2. QED BY <2>2, <3>1, LoadsSaved
  <2>3. \A f \in Docs : /\ docs[d][f].text = last[d][f]
                        /\ <<d, f>> \notin cut => docs[d][f].part \in {"full", "absent"}
    BY DEF StorageInv, DocInv
  <2>4. "report" \in Docs /\ "summary" \in Docs BY DEF Docs
  <2>5. ASSUME <<d, "report">> \notin cut
        PROVE  load_report(d).part \in {"full", "absent"} /\ load_report(d).text = last[d]["report"]
    BY <2>3, <2>4, <2>5 DEF load_report
  <2>6. ASSUME <<d, "summary">> \notin cut
        PROVE  ~load_summary(d).throws /\ load_summary(d).text = last[d]["summary"]
    BY <2>3, <2>4, <2>6 DEF load_summary
  <2>7. QED BY <2>1, <2>2, <2>5, <2>6
<1>2. QED BY <1>1, StorageInvariant, PTL

(* A load_items() that returns has every saved item, in order, and none that was
   not given, wherever the appends to the file were cut. *)
THEOREM NothingSilentlyLost == Spec => []NeverSilentlyLost
<1>1. StorageInv => NeverSilentlyLost
  <2> SUFFICES ASSUME StorageInv, NEW d \in Dates
               PROVE  /\ InOrder(load_items(d, NoPlatform).value)
                      /\ ToSet(saved[d]) \subseteq ToSet(load_items(d, NoPlatform).value)
                      /\ ToSet(load_items(d, NoPlatform).value) \subseteq ToSet(given[d])
    BY DEF NeverSilentlyLost
  <2>1. PICK F : F = items[d] OBVIOUS
  <2>2. PICK G : G = given[d] OBVIOUS
  <2>3. PICK V : V = saved[d] OBVIOUS
  <2>4. PICK all : all = [i \in 1..Len(F) |-> F[i].item] OBVIOUS
  <2>5. load_items(d, NoPlatform).value = all BY <2>1, <2>4 DEF load_items
  <2>6. F \in Seq(Piece) /\ G \in Seq(Items) /\ V \in Seq(Items)
    BY <2>1, <2>2, <2>3 DEF StorageInv, TypeOK, Items
  <2>7. Len(F) \in Nat /\ Len(G) \in Nat /\ Len(V) \in Nat BY <2>6
  <2>8. /\ \A i \in 1..Len(F) : F[i].item <= nitem /\ \E j \in 1..Len(G) : G[j] = F[i].item
        /\ \A i, j \in 1..Len(F) : i < j => F[i].item < F[j].item
        /\ \A i \in 1..Len(V) : \E j \in 1..Len(F) : F[j].item = V[i]
    BY <2>1, <2>2, <2>3 DEF StorageInv, FileInv, FileOk
  <2>9. /\ DOMAIN all = 1..Len(F) /\ Len(all) = Len(F)
        /\ \A i \in 1..Len(F) : all[i] = F[i].item
    BY <2>4, <2>7
  <2>10. DOMAIN G = 1..Len(G) /\ DOMAIN V = 1..Len(V) BY <2>6, LenProperties
  <2>11. InOrder(all) BY <2>8, <2>9 DEF InOrder
  <2>12. ToSet(V) \subseteq ToSet(all)
    <3>1. ASSUME NEW x \in ToSet(V) PROVE x \in ToSet(all)
      <4>1. PICK i \in 1..Len(V) : x = V[i] BY <2>10 DEF ToSet
      <4>2. PICK j \in 1..Len(F) : F[j].item = V[i] BY <2>8
      <4>3. j \in DOMAIN all /\ all[j] = x BY <2>9, <4>1, <4>2
      <4>4. QED BY <4>3 DEF ToSet
    <3>2. QED BY <3>1
  <2>13. ToSet(all) \subseteq ToSet(G)
    <3>1. ASSUME NEW x \in ToSet(all) PROVE x \in ToSet(G)
      <4>1. PICK i \in 1..Len(F) : x = all[i] BY <2>9 DEF ToSet
      <4>2. PICK j \in 1..Len(G) : G[j] = F[i].item BY <2>8
      <4>3. j \in DOMAIN G /\ G[j] = x BY <2>9, <2>10, <4>1, <4>2
      <4>4. QED BY <4>3 DEF ToSet
    <3>2. QED BY <3>1
  <2>14. QED BY <2>2, <2>3, <2>5, <2>11, <2>12, <2>13
<1>2. QED BY <1>1, StorageInvariant, PTL

(* A finite set of dates can be put in order: each date at the place that the
   number of dates not before it gives. *)
LEMMA OrderExists ==
  ASSUME NEW D \in SUBSET Nat, IsFiniteSet(D)
  PROVE  \E s \in [1..Cardinality(D) -> D] : \A i, j \in DOMAIN s : i < j => s[i] > s[j]
<1> DEFINE n == Cardinality(D)
           Later(d) == {e \in D : e >= d}
           rank == [d \in D |-> Cardinality(Later(d))]
<1>1. n \in Nat BY FS_CardinalityType
<1>2. \A d \in D : IsFiniteSet(Later(d)) /\ rank[d] \in Nat /\ rank[d] <= n
  <2> TAKE d \in D
  <2>1. Later(d) \in SUBSET D OBVIOUS
  <2>2. IsFiniteSet(Later(d)) /\ Cardinality(Later(d)) <= n BY <2>1, FS_Subset
  <2>3. Cardinality(Later(d)) \in Nat BY <2>2, FS_CardinalityType
  <2>4. QED BY <2>2, <2>3
<1>3. \A d \in D : rank[d] \in 1..n
  <2> TAKE d \in D
  <2>1. d \in Later(d) OBVIOUS
  <2>2. Cardinality(Later(d)) # 0 BY <1>2, <2>1, FS_EmptySet
  <2>3. QED BY <1>1, <1>2, <2>2
<1>4. \A d, e \in D : d < e => rank[e] < rank[d]
  <2> SUFFICES ASSUME NEW d \in D, NEW e \in D, d < e PROVE rank[e] < rank[d] OBVIOUS
  <2>1. Later(e) \in SUBSET Later(d)
    <3>1. \A x \in D : x \in Nat OBVIOUS
    <3>2. \A x \in D : x >= e => x >= d BY <3>1
    <3>3. QED BY <3>2
  <2>2. d \in Later(d) /\ d \notin Later(e) OBVIOUS
  <2>3. Cardinality(Later(e)) <= Cardinality(Later(d)) BY <1>2, <2>1, FS_Subset
  <2>4. Cardinality(Later(d)) # Cardinality(Later(e)) BY <1>2, <2>1, <2>2, FS_Subset
  <2>5. QED BY <1>2, <2>3, <2>4
<1>5. rank \in Injection(D, 1..n)
  <2>1. rank \in [D -> 1..n] BY <1>3
  <2>2. \A d, e \in D : rank[d] = rank[e] => d = e
    <3>1. \A d, e \in D : d < e \/ e < d \/ d = e OBVIOUS
    <3>2. \A d \in D : rank[d] \in Nat BY <1>2
    <3>3. QED BY <1>4, <3>1, <3>2
  <2>3. QED BY <2>1, <2>2, Fun_IsInj
<1>6. IsFiniteSet(1..n) /\ Cardinality(1..n) = n BY <1>1, FS_Interval
<1>7. rank \in Surjection(D, 1..n) BY <1>5, <1>6, FS_Injection
<1>8. \A i \in 1..n : \E d \in D : rank[d] = i BY <1>7 DEF Surjection
<1>9. PICK s : s = [i \in 1..n |-> CHOOSE d \in D : rank[d] = i] OBVIOUS
<1>10. s \in [1..n -> D] /\ \A i \in 1..n : rank[s[i]] = i
  <2>1. \A i \in 1..n : (CHOOSE d \in D : rank[d] = i) \in D
                        /\ rank[CHOOSE d \in D : rank[d] = i] = i
    <3> HIDE DEF rank
    <3> QED BY <1>8
  <2> HIDE DEF rank
  <2>2. QED BY <1>9, <2>1
<1>11. ASSUME NEW i \in 1..n, NEW j \in 1..n, i < j PROVE s[i] > s[j]
  <2> HIDE DEF rank
  <2>1. s[i] \in D /\ s[j] \in D /\ rank[s[i]] = i /\ rank[s[j]] = j BY <1>10
  <2>2. s[i] < s[j] => j < i BY <1>4, <2>1, Zenon
  <2>3. s[i] # s[j] BY <1>1, <1>11, <2>1
  <2>4. s[i] \in Nat /\ s[j] \in Nat BY <2>1
  <2>5. QED BY <1>1, <1>11, <2>2, <2>3, <2>4
<1>12. QED BY <1>10, <1>11

(* std::sort of the names found: each once, the latest date first. *)
LEMMA Ordered ==
  ASSUME NEW D \in SUBSET Nat, IsFiniteSet(D)
  PROVE  LET s == NewestFirst(D)
         IN /\ s \in Seq(D) /\ ToSet(s) = D
            /\ \A i, j \in 1..Len(s) : i < j => s[i] > s[j]
<1>1. PICK s : s = NewestFirst(D) OBVIOUS
<1>2. PICK n : n = Cardinality(D) OBVIOUS
<1>3. n \in Nat BY <1>2, FS_CardinalityType
<1>4. s \in [1..n -> D] /\ \A i, j \in DOMAIN s : i < j => s[i] > s[j]
  BY <1>1, <1>2, OrderExists DEF NewestFirst
<1>5. s \in Seq(D) /\ Len(s) = n /\ DOMAIN s = 1..n BY <1>3, <1>4
<1>6. s \in Injection(1..n, D)
  <2>1. \A i, j \in 1..n : s[i] = s[j] => i = j
    <3>1. \A i \in 1..n : s[i] \in Nat BY <1>4
    <3>2. QED BY <1>3, <1>4, <3>1
  <2>2. QED BY <1>4, <2>1, Fun_IsInj
<1>7. Cardinality(1..n) = n BY <1>3, FS_Interval
<1>8. s \in Surjection(1..n, D) BY <1>2, <1>6, <1>7, FS_Injection
<1>9. ToSet(s) = D BY <1>4, <1>5, <1>8 DEF Surjection, ToSet
<1>10. \A i, j \in 1..Len(s) : i < j => s[i] > s[j] BY <1>4, <1>5
<1>11. QED BY <1>1, <1>5, <1>9, <1>10

(* list_dates() returns the dates that a save was called for, all of them and the
   latest first, without the directory of the sessions; a date that it leaves out
   loads as nothing. *)
THEOREM DatesSorted == Spec => []DatesListed
<1>1. StorageInv => DatesListed
  <2> SUFFICES ASSUME StorageInv PROVE DatesListed OBVIOUS
  <2>1. dirs \ {sessions} = named /\ named \subseteq Dates BY DEF StorageInv, DirInv, TypeOK
  <2>2. MaxDate \in Nat BY StorageBounds
  <2>3. named \in SUBSET Nat /\ named \in SUBSET (1..MaxDate) BY <2>1, <2>2 DEF Dates
  <2>4. IsFiniteSet(named)
    <3>1. IsFiniteSet(1..MaxDate) BY <2>2, FS_Interval
    <3>2. QED BY <2>3, <3>1, FS_Subset
  <2>5. list_dates = NewestFirst(named) BY <2>1 DEF list_dates
  <2>6. /\ \A i, j \in 1..Len(list_dates) : i < j => list_dates[i] > list_dates[j]
        /\ ToSet(list_dates) = named
    BY <2>3, <2>4, <2>5, Ordered
  <2>7. ASSUME NEW d \in Dates \ named
        PROVE  /\ ~load_items(d, NoPlatform).throws /\ load_items(d, NoPlatform).value = <<>>
               /\ load_report(d).part = "absent"
               /\ ~load_summary(d).throws /\ load_summary(d).part = "absent"
    <3>1. items[d] = <<>> /\ \A f \in Docs : docs[d][f].part = "absent"
      BY DEF StorageInv, DirInv
    <3>2. ~load_items(d, NoPlatform).throws /\ load_items(d, NoPlatform).value = <<>>
      BY <3>1 DEF load_items
    <3>3. QED BY <3>1, <3>2 DEF load_report, load_summary, Docs
  <2>8. QED BY <2>6, <2>7 DEF DatesListed
<1>2. QED BY <1>1, StorageInvariant, PTL
=============================================================================
