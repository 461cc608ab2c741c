----------------------- MODULE ConnectionDialogsProofs -----------------------
(***************************************************************************)
(* What is proved of ConnectionDialogs for any profiles, any number of     *)
(* imported aliases and any depth of dialogs: ids stay apart, the rows of  *)
(* the tree are those of the list, the keyring follows the profiles, and   *)
(* secrets leave it only by name.                                          *)
(***************************************************************************)
EXTENDS ConnectionDialogs, SequenceTheorems, WellFoundedInduction, TLAPS

-----------------------------------------------------------------------------
(* Induction over the natural numbers, by sets: every set of them that is  *)
(* not empty has a least element.                                          *)

LEMMA LeastElement ==
  ASSUME NEW T \in SUBSET Nat, T # {}
  PROVE  \E m \in T : \A n \in T : m <= n
<1>1. PICK m \in T : \A n \in T : ~(<<n, m>> \in OpToRel(<, Nat))
  BY WFMin, NatLessThanWellFounded
<1>2. \A n \in T : ~(n < m)
  BY <1>1 DEF OpToRel
<1>3. QED
  BY <1>2

LEMMA InductiveSet ==
  ASSUME NEW T, 0 \in T, \A n \in Nat : n \in T => n + 1 \in T
  PROVE  Nat \subseteq T
<1> SUFFICES ASSUME Nat \ T # {} PROVE FALSE
  OBVIOUS
<1>1. PICK m \in Nat \ T : \A n \in Nat \ T : m <= n
  BY LeastElement
<1>2. m # 0 /\ m - 1 \in Nat /\ m - 1 < m
  BY <1>1
<1>3. m - 1 \in T
  BY <1>1, <1>2
<1>4. (m - 1) + 1 \in T
  BY <1>2, <1>3
<1>5. QED
  BY <1>4, <1>1

-----------------------------------------------------------------------------
(* Lists of profiles *)

\* A list the model may hold: no id occurs twice.
IsList(profiles) ==
  /\ profiles \in Seq(Profile)
  /\ \A i, j \in DOMAIN profiles : profiles[i].id = profiles[j].id => i = j

LEMMA RowOfIs ==
  ASSUME NEW profiles, IsList(profiles), NEW id \in IdsOf(profiles)
  PROVE  RowOf(profiles, id) \in DOMAIN profiles /\ profiles[RowOf(profiles, id)].id = id
<1> DEFINE rows == {i \in 1 .. Len(profiles) : profiles[i].id = id}
<1>1. rows # {} /\ rows \in SUBSET Nat /\ DOMAIN profiles = 1 .. Len(profiles)
  BY DEF IsList, IdsOf, ToSet
<1>2. PICK m \in rows : \A n \in rows : m <= n
  BY <1>1, LeastElement
<1>3. Min(rows) \in rows
  BY <1>2 DEF Min
<1>4. RowOf(profiles, id) = Min(rows)
  BY <1>1 DEF RowOf, SelectInSeq
<1>5. QED
  BY <1>1, <1>3, <1>4

\* Put keeps ids apart, and changes nothing but the place of its profile.
LEMMA PutKeepsList ==
  ASSUME NEW profiles, IsList(profiles), NEW p \in Profile
  PROVE  /\ IsList(Put(profiles, p))
         /\ ToSet(Put(profiles, p)) = {q \in ToSet(profiles) : q.id # p.id} \cup {p}
<1>1. DOMAIN profiles = 1 .. Len(profiles) /\ Len(profiles) \in Nat /\ profiles \in Seq(Profile)
      /\ \A i \in DOMAIN profiles : profiles[i] \in Profile
  BY DEF IsList
<1>2. CASE p.id \in IdsOf(profiles)
  <2> DEFINE r == RowOf(profiles, p.id)
             new == [profiles EXCEPT ![r] = p]
  <2>1. r \in DOMAIN profiles /\ profiles[r].id = p.id
    BY <1>2, RowOfIs
  <2>2. Put(profiles, p) = new
    BY <1>2 DEF Put, ReplaceAt
  <2> HIDE DEF r
  <2>3. new \in Seq(Profile) /\ DOMAIN new = DOMAIN profiles
    BY <1>1, <2>1, ExceptSeq
  <2>4. new[r] = p /\ \A i \in DOMAIN new : i # r => new[i] = profiles[i]
    BY <2>1
  <2>5. \A i \in DOMAIN profiles : profiles[i].id = p.id => i = r
    BY <2>1 DEF IsList
  <2>6. \A i \in DOMAIN new : new[i].id = profiles[i].id
    BY <2>1, <2>3, <2>4
  <2>7. IsList(new)
    BY <2>3, <2>6 DEF IsList
  <2>8. ToSet(new) = {q \in ToSet(profiles) : q.id # p.id} \cup {p}
    <3> HIDE DEF new
    <3>1. ASSUME NEW i \in DOMAIN new PROVE new[i] \in {q \in ToSet(profiles) : q.id # p.id} \cup {p}
      BY <3>1, <2>3, <2>4, <2>5 DEF ToSet
    <3>2. ASSUME NEW i \in DOMAIN profiles, profiles[i].id # p.id PROVE profiles[i] \in ToSet(new)
      BY <3>2, <2>1, <2>3, <2>4 DEF ToSet
    <3>3. p \in ToSet(new)
      BY <2>1, <2>3, <2>4 DEF ToSet
    <3>4. QED
      BY <3>1, <3>2, <3>3 DEF ToSet
  <2>9. QED
    BY <2>2, <2>7, <2>8
<1>3. CASE p.id \notin IdsOf(profiles)
  <2> DEFINE new == Append(profiles, p)
  <2>1. Put(profiles, p) = new
    BY <1>3 DEF Put
  <2>2. /\ new \in Seq(Profile) /\ DOMAIN new = 1 .. Len(profiles) + 1
        /\ new[Len(profiles) + 1] = p /\ \A i \in DOMAIN profiles : new[i] = profiles[i]
    BY <1>1, AppendProperties
  <2>3. \A i \in DOMAIN profiles : profiles[i].id # p.id
    BY <1>3 DEF IdsOf, ToSet
  <2> HIDE DEF new
  <2>4. IsList(new)
    BY <1>1, <2>2, <2>3 DEF IsList
  <2>5. ToSet(new) = {q \in ToSet(profiles) : q.id # p.id} \cup {p}
    <3>1. ASSUME NEW i \in DOMAIN new PROVE new[i] \in {q \in ToSet(profiles) : q.id # p.id} \cup {p}
      BY <1>1, <3>1, <2>2, <2>3 DEF ToSet
    <3>2. \A i \in DOMAIN profiles : profiles[i] \in ToSet(new)
      BY <1>1, <2>2 DEF ToSet
    <3>3. p \in ToSet(new)
      BY <1>1, <2>2 DEF ToSet
    <3>4. QED
      BY <3>1, <3>2, <3>3 DEF ToSet
  <2>6. QED
    BY <2>1, <2>4, <2>5
<1>4. QED
  BY <1>2, <1>3

\* One profile after the other: the function that Imported defines by recursion.
LEMMA ImportedIs ==
  ASSUME NEW profiles, NEW ids \in Seq(ImportedIds)
  PROVE  \E after :
           /\ Imported(profiles, ids) = after[Len(ids)]
           /\ after[0] = profiles
           /\ \A n \in 1 .. Len(ids) : after[n] = Put(after[n - 1], [id |-> ids[n], secret |-> FALSE])
<1> DEFINE new(n) == [id |-> ids[n], secret |-> FALSE]
           Good(f, m) == f = [n \in 0 .. m |-> IF n = 0 THEN profiles ELSE Put(f[n - 1], new(n))]
           T == {m \in Nat : \E f : Good(f, m)}
           after == CHOOSE f : Good(f, Len(ids))
<1>0. Len(ids) \in Nat
  OBVIOUS
<1>1. Imported(profiles, ids) = after[Len(ids)]
  BY DEF Imported
<1> HIDE DEF new
<1>2. 0 \in T
  <2> DEFINE f == [n \in 0 .. 0 |-> profiles]
  <2>1. f = [n \in 0 .. 0 |-> IF n = 0 THEN profiles ELSE Put(f[n - 1], new(n))]
    OBVIOUS
  <2>2. QED
    BY <2>1
<1>3. ASSUME NEW m \in Nat, m \in T PROVE m + 1 \in T
  <2>1. PICK f : Good(f, m)
    BY <1>3
  <2> DEFINE g == [n \in 0 .. m + 1 |-> IF n <= m THEN f[n] ELSE Put(f[m], new(m + 1))]
  <2>2. ASSUME NEW n \in 0 .. m + 1 PROVE g[n] = IF n = 0 THEN profiles ELSE Put(g[n - 1], new(n))
    <3>1. CASE n <= m
      <4>1. n \in 0 .. m /\ (n # 0 => n - 1 \in 0 .. m + 1 /\ n - 1 <= m)
        BY <3>1
      <4>2. g[n] = f[n] /\ (n # 0 => g[n - 1] = f[n - 1])
        BY <3>1, <4>1
      <4>3. f[n] = IF n = 0 THEN profiles ELSE Put(f[n - 1], new(n))
        BY <2>1, <4>1
      <4> HIDE DEF g
      <4>4. QED
        BY <4>2, <4>3
    <3>2. CASE ~(n <= m)
      <4>1. n = m + 1 /\ n # 0 /\ n - 1 = m /\ m \in 0 .. m + 1
        BY <3>2
      <4>2. g[n] = Put(f[m], new(n)) /\ g[m] = f[m]
        BY <4>1, <3>2
      <4> HIDE DEF g
      <4>3. QED
        BY <4>1, <4>2
    <3>3. QED
      BY <3>1, <3>2
  <2>3. g = [n \in 0 .. m + 1 |-> g[n]]
    OBVIOUS
  <2> HIDE DEF g
  <2>4. Good(g, m + 1)
    BY <2>2, <2>3
  <2>5. QED
    BY <2>4
<1>4. \A n \in Nat : n \in T => n + 1 \in T
  BY <1>3
<1>5. Len(ids) \in T
  <2> HIDE DEF T
  <2>1. QED
    BY <1>0, <1>2, <1>4, InductiveSet
<1>6. Good(after, Len(ids))
  BY <1>5
<1> HIDE DEF after
<1>7. after[0] = profiles
  BY <1>0, <1>6
<1>8. \A n \in 1 .. Len(ids) : after[n] = Put(after[n - 1], new(n))
  BY <1>0, <1>6
<1>9. QED
  BY <1>1, <1>7, <1>8 DEF new

\* Importing keeps ids apart, however many profiles the file names.
LEMMA ImportedKeepsList ==
  ASSUME NEW profiles, IsList(profiles), NEW ids \in Seq(ImportedIds)
  PROVE  IsList(Imported(profiles, ids))
<1>1. PICK after :
        /\ Imported(profiles, ids) = after[Len(ids)]
        /\ after[0] = profiles
        /\ \A n \in 1 .. Len(ids) : after[n] = Put(after[n - 1], [id |-> ids[n], secret |-> FALSE])
  BY ImportedIs
<1> DEFINE T == {n \in Nat : n <= Len(ids) => IsList(after[n])}
<1>2. 0 \in T
  BY <1>1
<1>3. ASSUME NEW n \in Nat, n \in T PROVE n + 1 \in T
  <2> SUFFICES ASSUME n + 1 <= Len(ids) PROVE IsList(after[n + 1])
    OBVIOUS
  <2>1. after[n + 1] = Put(after[n], [id |-> ids[n + 1], secret |-> FALSE])
    BY <1>1
  <2>2. [id |-> ids[n + 1], secret |-> FALSE] \in Profile
    BY DEF Profile, Ids
  <2>3. QED
    BY <1>3, <2>1, <2>2, PutKeepsList
<1>4. \A n \in Nat : n \in T => n + 1 \in T
  BY <1>3
<1>5. Len(ids) \in T
  <2> HIDE DEF T
  <2>1. QED
    BY <1>2, <1>4, InductiveSet
<1>6. QED
  BY <1>1, <1>5

\* Taking a row out keeps ids apart, and takes one profile.
LEMMA RemoveKeepsList ==
  ASSUME NEW profiles, IsList(profiles), NEW r \in DOMAIN profiles
  PROVE  /\ IsList(RemoveAt(profiles, r))
         /\ ToSet(RemoveAt(profiles, r)) = ToSet(profiles) \ {profiles[r]}
         /\ Len(RemoveAt(profiles, r)) = Len(profiles) - 1
<1> DEFINE before == SubSeq(profiles, 1, r - 1)
           behind == SubSeq(profiles, r + 1, Len(profiles))
           new == before \o behind
           old(i) == IF i < r THEN i ELSE i + 1
<1>1. /\ profiles \in Seq(Profile) /\ Len(profiles) \in Nat /\ DOMAIN profiles = 1 .. Len(profiles)
      /\ r \in 1 .. Len(profiles) /\ \A i \in 1 .. Len(profiles) : profiles[i] \in Profile
  BY DEF IsList
<1>2. /\ before \in Seq(Profile) /\ Len(before) = r - 1
      /\ \A i \in 1 .. r - 1 : before[i] = profiles[i]
  BY <1>1, SubSeqProperties
<1>3. /\ behind \in Seq(Profile) /\ Len(behind) = Len(profiles) - r
      /\ \A i \in 1 .. Len(profiles) - r : behind[i] = profiles[i + r]
  <2>1. r + 1 \in Int /\ Len(profiles) \in Int /\ \A i \in r + 1 .. Len(profiles) : profiles[i] \in Profile
    BY <1>1
  <2>2. behind \in Seq(Profile)
    BY <2>1, SubSeqProperties
  <2>3. Len(behind) = IF r + 1 <= Len(profiles) THEN Len(profiles) - (r + 1) + 1 ELSE 0
    BY <2>1, SubSeqProperties
  <2>4. \A i \in 1 .. Len(profiles) - (r + 1) + 1 : behind[i] = profiles[(r + 1) + i - 1]
    BY <2>1, SubSeqProperties
  <2> HIDE DEF behind
  <2>5. \A i \in 1 .. Len(profiles) - r : i \in 1 .. Len(profiles) - (r + 1) + 1 /\ (r + 1) + i - 1 = i + r
    BY <1>1
  <2>6. QED
    BY <1>1, <2>2, <2>3, <2>4, <2>5
<1>4. RemoveAt(profiles, r) = new
  BY DEF RemoveAt
<1> HIDE DEF before, behind
<1>5. /\ new \in Seq(Profile) /\ Len(new) = Len(profiles) - 1 /\ DOMAIN new = 1 .. Len(profiles) - 1
      /\ \A i \in 1 .. Len(profiles) - 1 : new[i] = IF i <= r - 1 THEN before[i] ELSE behind[i - (r - 1)]
  <2>1. /\ new \in Seq(Profile) /\ Len(new) = Len(before) + Len(behind)
        /\ \A i \in 1 .. Len(before) + Len(behind) :
              new[i] = IF i <= Len(before) THEN before[i] ELSE behind[i - Len(before)]
    BY <1>2, <1>3, ConcatProperties
  <2>2. Len(before) + Len(behind) = Len(profiles) - 1
    BY <1>1, <1>2, <1>3
  <2> HIDE DEF new
  <2>3. QED
    BY <1>2, <2>1, <2>2
<1> HIDE DEF new
<1>6. \A i \in DOMAIN new : new[i] = profiles[old(i)] /\ old(i) \in DOMAIN profiles \ {r}
  <2> SUFFICES ASSUME NEW i \in DOMAIN new
               PROVE  new[i] = profiles[old(i)] /\ old(i) \in DOMAIN profiles \ {r}
    OBVIOUS
  <2>1. CASE i < r
    BY <2>1, <1>1, <1>2, <1>5
  <2>2. CASE ~(i < r)
    <3>1. i - (r - 1) \in 1 .. Len(profiles) - r /\ (i - (r - 1)) + r = i + 1
      BY <2>2, <1>1, <1>5
    <3>2. new[i] = behind[i - (r - 1)]
      <4>1. i \in 1 .. Len(profiles) - 1 /\ ~(i <= r - 1)
        BY <2>2, <1>1, <1>5
      <4>2. QED
        BY <4>1, <1>5
    <3>3. QED
      BY <2>2, <1>1, <1>3, <1>5, <3>1, <3>2
  <2>3. QED
    BY <2>1, <2>2
<1>7. \A i \in DOMAIN profiles \ {r} : \E k \in DOMAIN new : old(k) = i
  <2> SUFFICES ASSUME NEW i \in DOMAIN profiles \ {r} PROVE \E k \in DOMAIN new : old(k) = i
    OBVIOUS
  <2>1. CASE i < r
    BY <2>1, <1>1, <1>5
  <2>2. CASE i > r
    <3>1. i - 1 \in DOMAIN new /\ old(i - 1) = i
      BY <2>2, <1>1, <1>5
    <3>2. QED
      BY <3>1
  <2>3. QED
    BY <2>1, <2>2, <1>1
<1>8. \A i, j \in DOMAIN new : old(i) = old(j) => i = j
  BY <1>1, <1>5
<1> HIDE DEF old
<1>9. IsList(new)
  BY <1>5, <1>6, <1>8 DEF IsList
<1>10. ToSet(new) = ToSet(profiles) \ {profiles[r]}
  <2>1. \A i \in DOMAIN profiles \ {r} : profiles[i] # profiles[r]
    BY DEF IsList
  <2>2. QED
    BY <1>6, <1>7, <2>1 DEF ToSet
<1>11. QED
  BY <1>4, <1>5, <1>9, <1>10

LEMMA OneProfile ==
  ASSUME NEW profiles, IsList(profiles), NEW p \in ToSet(profiles), NEW q \in ToSet(profiles),
         p.id = q.id
  PROVE  p = q
  BY DEF IsList, ToSet

LEMMA PutSecrets ==
  ASSUME NEW profiles, IsList(profiles), NEW p \in Profile
  PROVE  WithSecret(Put(profiles, p)) =
           (WithSecret(profiles) \ {p.id}) \cup (IF p.secret THEN {p.id} ELSE {})
  BY PutKeepsList DEF WithSecret

LEMMA RemoveSecrets ==
  ASSUME NEW profiles, IsList(profiles), NEW r \in DOMAIN profiles
  PROVE  WithSecret(RemoveAt(profiles, r)) = WithSecret(profiles) \ {profiles[r].id}
<1>1. profiles[r] \in ToSet(profiles)
  BY DEF ToSet
<1>2. \A q \in ToSet(profiles) : q.id = profiles[r].id <=> q = profiles[r]
  BY <1>1, OneProfile
<1>3. QED
  BY <1>2, RemoveKeepsList DEF WithSecret

-----------------------------------------------------------------------------
(***************************************************************************)
(* The invariant.  A dialog that is not a notice was opened when no other  *)
(* was, and notices do not touch the list; so the profile that a handler   *)
(* took before its dialog is still in the list, as it was, when the dialog *)
(* returns.                                                                *)
(***************************************************************************)
DialogsOK ==
  \A i \in DOMAIN dialogs :
    /\ i > 1 => dialogs[i].for = "notice"
    /\ dialogs[i].for \notin {"add", "notice"} => dialogs[i].profile \in ToSet(list)
    /\ dialogs[i].for = "deleteRow" => dialogs[i].profile.secret

DialogsInv == TypeOK /\ TreeShowsList /\ DialogsOK /\ SecretsMatchProfiles

Notice == [for |-> "notice"]

LEMMA TypeIs == TypeOK <=>
    /\ IsList(list)
    /\ tree \in Seq(Ids) /\ row \in Nat
    /\ keyring \subseteq Ids /\ mishap \in BOOLEAN
    /\ dialogs \in Seq(Dialog) /\ Len(dialogs) <= MaxDialogs
  BY DEF TypeOK, IsList

\* When a dialog that is not a notice returns, no other is open.
LEMMA TopAlone ==
  ASSUME DialogsInv, dialogs # <<>>, Top.for # "notice"
  PROVE  /\ Len(dialogs) = 1 /\ Top = dialogs[1] /\ Top \in Dialog
         /\ Top.for # "add" => Top.profile \in ToSet(list) /\ Top.profile \in Profile
         /\ Top.for = "deleteRow" => Top.profile.secret
<1>1. dialogs \in Seq(Dialog) /\ Len(dialogs) \in Nat \ {0} /\ Len(dialogs) \in DOMAIN dialogs
  BY TypeIs DEF DialogsInv
<1>2. Len(dialogs) = 1
  <2>1. ASSUME Len(dialogs) > 1 PROVE FALSE
    <3>1. Top.for = "notice"
      BY <1>1, <2>1 DEF DialogsInv, DialogsOK, Top
    <3>2. QED
      BY <3>1
  <2>2. Len(dialogs) \in Nat /\ Len(dialogs) # 0
    BY <1>1
  <2>3. ~(Len(dialogs) > 1)
    BY <2>1
  <2>4. QED
    BY <2>2, <2>3
<1>3. Top = dialogs[1] /\ Top \in Dialog
  BY <1>1, <1>2 DEF Top
<1>4. /\ Top.for # "add" => Top.profile \in ToSet(list)
      /\ Top.for = "deleteRow" => Top.profile.secret
  BY <1>1, <1>2, <1>3 DEF DialogsInv, DialogsOK
<1>5. ToSet(list) \subseteq Profile
  BY TypeIs DEF DialogsInv, IsList, ToSet
<1>6. QED
  BY <1>2, <1>3, <1>4, <1>5

LEMMA CloseTopLeaves ==
  ASSUME dialogs \in Seq(Dialog), CloseTop
  PROVE  /\ dialogs' \in Seq(Dialog) /\ Len(dialogs') = Len(dialogs) - 1
         /\ \A i \in DOMAIN dialogs' : i \in DOMAIN dialogs /\ dialogs'[i] = dialogs[i]
<1>1. Len(dialogs) \in Nat \ {0} /\ DOMAIN dialogs = 1 .. Len(dialogs)
  BY DEF CloseTop
<1>2. /\ SubSeq(dialogs, 1, Len(dialogs) - 1) \in Seq(Dialog)
      /\ Len(SubSeq(dialogs, 1, Len(dialogs) - 1)) = Len(dialogs) - 1
      /\ \A i \in 1 .. Len(dialogs) - 1 : SubSeq(dialogs, 1, Len(dialogs) - 1)[i] = dialogs[i]
  BY <1>1, SubSeqProperties
<1>3. QED
  BY <1>1, <1>2 DEF CloseTop

LEMMA OpenAdds ==
  ASSUME dialogs \in Seq(Dialog), NEW d \in Dialog, Open(d)
  PROVE  /\ dialogs' \in Seq(Dialog) /\ Len(dialogs') = Len(dialogs) + 1
         /\ Len(dialogs') <= MaxDialogs
         /\ dialogs'[Len(dialogs) + 1] = d
         /\ \A i \in DOMAIN dialogs : dialogs'[i] = dialogs[i]
  BY DialogsAssumption, AppendProperties DEF Open

\* A step that leaves the list alone keeps the invariant if it keeps the dialogs in
\* order, and the secrets unless something went wrong.
LEMMA ListUnchanged ==
  ASSUME DialogsInv, list' = list, keyring' \subseteq Ids, mishap' \in BOOLEAN,
         ~mishap' => ~mishap /\ keyring' = keyring,
         tree' = IdRows(list), row' \in 0 .. Len(list),
         dialogs' \in Seq(Dialog), Len(dialogs') <= MaxDialogs, DialogsOK'
  PROVE  DialogsInv'
<1>1. IsList(list) /\ Len(list) \in Nat
  BY TypeIs DEF DialogsInv, IsList
<1>2. tree' \in Seq(Ids) /\ row' \in Nat
  <2>1. \A p \in Profile : p.id \in Ids
    BY DEF Profile
  <2>2. \A i \in 1 .. Len(list) : list[i] \in Profile
    BY <1>1 DEF IsList
  <2>3. tree' = [i \in 1 .. Len(list) |-> list[i].id]
    BY <1>1 DEF IsList, IdRows
  <2>4. QED
    BY <1>1, <2>1, <2>2, <2>3
<1>3. TypeOK'
  BY <1>1, <1>2 DEF DialogsInv, TypeOK, IsList
<1>4. TreeShowsList'
  BY DEF TreeShowsList, IdRows
<1>5. SecretsMatchProfiles'
  BY DEF DialogsInv, SecretsMatchProfiles, WithSecret
<1>6. QED
  BY <1>3, <1>4, <1>5 DEF DialogsInv

\* The list changes only when no other dialog is left but a notice, and with the
\* secrets that go with it.
LEMMA ListChanged ==
  ASSUME NEW r, Refresh(r), IsList(list'), keyring' \subseteq Ids, mishap' \in BOOLEAN,
         dialogs' \in Seq(Dialog), Len(dialogs') <= MaxDialogs,
         \A i \in DOMAIN dialogs' : dialogs'[i].for = "notice",
         ~mishap' => keyring' = WithSecret(list')
  PROVE  DialogsInv'
<1>1. Len(list') \in Nat /\ DOMAIN list' = 1 .. Len(list') /\ list' \in Seq(Profile)
  BY DEF IsList
<1>2. tree' = IdRows(list') /\ row' \in 0 .. Len(list')
  BY <1>1 DEF Refresh
<1>3. tree' \in Seq(Ids) /\ row' \in Nat
  <2>1. \A p \in Profile : p.id \in Ids
    BY DEF Profile
  <2>2. \A i \in 1 .. Len(list') : list'[i] \in Profile
    BY <1>1
  <2>3. tree' = [i \in 1 .. Len(list') |-> list'[i].id]
    BY <1>1, <1>2 DEF IdRows
  <2>4. QED
    BY <1>1, <1>2, <2>1, <2>2, <2>3
<1>4. TypeOK'
  BY <1>3 DEF TypeOK, IsList
<1>5. TreeShowsList'
  BY <1>2 DEF TreeShowsList, IdRows
<1>6. DialogsOK'
  BY DEF DialogsOK
<1>7. SecretsMatchProfiles'
  BY DEF SecretsMatchProfiles, WithSecret
<1>8. QED
  BY <1>4, <1>5, <1>6, <1>7 DEF DialogsInv

\* Opening a notice, or a dialog when none is open, keeps the dialogs in order.
LEMMA OpenKeepsOrder ==
  ASSUME DialogsInv, NEW d \in Dialog, Open(d), list' = list,
         d = Notice \/ (/\ dialogs = <<>> /\ d.for # "deleteRow"
                        /\ d.for \notin {"add", "notice"} => d.profile \in ToSet(list))
  PROVE  DialogsOK' /\ dialogs' \in Seq(Dialog) /\ Len(dialogs') <= MaxDialogs
<1>1. dialogs \in Seq(Dialog) /\ Len(dialogs) \in Nat /\ DOMAIN dialogs = 1 .. Len(dialogs)
  BY TypeIs DEF DialogsInv
<1>2. /\ dialogs' \in Seq(Dialog) /\ DOMAIN dialogs' = 1 .. Len(dialogs) + 1
      /\ Len(dialogs') <= MaxDialogs
      /\ dialogs'[Len(dialogs) + 1] = d
      /\ \A i \in DOMAIN dialogs : dialogs'[i] = dialogs[i]
  BY <1>1, OpenAdds
<1>3. DialogsOK'
  <2> SUFFICES ASSUME NEW i \in DOMAIN dialogs'
               PROVE  /\ i > 1 => dialogs'[i].for = "notice"
                      /\ dialogs'[i].for \notin {"add", "notice"} => dialogs'[i].profile \in ToSet(list)
                      /\ dialogs'[i].for = "deleteRow" => dialogs'[i].profile.secret
    BY DEF DialogsOK, ToSet
  <2>1. CASE i \in DOMAIN dialogs
    BY <1>2, <2>1 DEF DialogsInv, DialogsOK
  <2>2. CASE i \notin DOMAIN dialogs
    <3>1. i = Len(dialogs) + 1 /\ dialogs'[i] = d
      BY <1>1, <1>2, <2>2
    <3>2. CASE d = Notice
      BY <3>1, <3>2 DEF Notice
    <3>3. CASE d # Notice
      <4>1. dialogs = <<>> /\ i = 1
        BY <3>1, <3>3
      <4>2. QED
        BY <3>1, <3>3, <4>1
    <3>4. QED
      BY <3>2, <3>3
  <2>3. QED
    BY <2>1, <2>2
<1>4. QED
  BY <1>2, <1>3

\* A dialog that returns leaves those under it as they were.
LEMMA CloseKeepsOrder ==
  ASSUME DialogsInv, CloseTop, list' = list
  PROVE  DialogsOK' /\ dialogs' \in Seq(Dialog) /\ Len(dialogs') <= MaxDialogs
<1>1. dialogs \in Seq(Dialog) /\ Len(dialogs) \in Nat /\ Len(dialogs) <= MaxDialogs
  BY TypeIs DEF DialogsInv
<1>2. /\ dialogs' \in Seq(Dialog) /\ Len(dialogs') = Len(dialogs) - 1
      /\ \A i \in DOMAIN dialogs' : i \in DOMAIN dialogs /\ dialogs'[i] = dialogs[i]
  BY <1>1, CloseTopLeaves
<1>3. DialogsOK'
  BY <1>2 DEF DialogsInv, DialogsOK, ToSet
<1>4. Len(dialogs') <= MaxDialogs
  BY <1>1, <1>2, DialogsAssumption
<1>5. QED
  BY <1>2, <1>3, <1>4

\* When the only dialog returns, none is left; if a notice comes in its place, it
\* is the only one.
LEMMA LastCloses ==
  ASSUME DialogsInv, CloseTop, Top.for # "notice"
  PROVE  /\ dialogs' \in Seq(Dialog) /\ Len(dialogs') <= MaxDialogs
         /\ \A i \in DOMAIN dialogs' : dialogs'[i].for = "notice"
<1>1. dialogs \in Seq(Dialog) /\ Len(dialogs) = 1
  BY TypeIs, TopAlone DEF DialogsInv, CloseTop
<1>2. dialogs' \in Seq(Dialog) /\ Len(dialogs') = 0
  BY <1>1, CloseTopLeaves
<1>3. QED
  BY <1>2, DialogsAssumption

LEMMA FunctionIsSeq ==
  ASSUME NEW S, NEW n \in Nat, NEW f \in [1 .. n -> S]
  PROVE  f \in Seq(S) /\ Len(f) = n
  OBVIOUS

LEMMA LastReplaced ==
  ASSUME DialogsInv, NEW d \in Dialog, ReplaceTop(d), Top.for # "notice"
  PROVE  /\ dialogs' \in Seq(Dialog) /\ Len(dialogs') <= MaxDialogs
         /\ DOMAIN dialogs' = {1} /\ dialogs'[1] = d
<1>1. dialogs \in Seq(Dialog) /\ Len(dialogs) = 1 /\ Len(dialogs) <= MaxDialogs
  BY TypeIs, TopAlone DEF DialogsInv, ReplaceTop
<1>2. dialogs' = [dialogs EXCEPT ![1] = d]
  BY <1>1 DEF ReplaceTop
<1>3. dialogs' \in Seq(Dialog) /\ Len(dialogs') = 1 /\ dialogs'[1] = d
  <2>1. 1 \in 1 .. Len(dialogs)
    BY <1>1
  <2>2. [dialogs EXCEPT ![1] = d] \in [1 .. Len(dialogs) -> Dialog]
    BY <1>1, <2>1
  <2>3. [dialogs EXCEPT ![1] = d][1] = d
    BY <1>1, <2>1
  <2>4. dialogs' \in [1 .. 1 -> Dialog] /\ dialogs'[1] = d
    BY <1>1, <1>2, <2>2, <2>3
  <2>5. dialogs' \in Seq(Dialog) /\ Len(dialogs') = 1
    BY <2>4, FunctionIsSeq
  <2>6. QED
    BY <2>4, <2>5
<1>4. QED
  BY <1>1, <1>3

LEMMA NoticeIsDialog == Notice \in Dialog /\ Notice.for = "notice" /\ [for |-> "add"] \in Dialog
  BY DEF Notice, Dialog

\* The handlers that open a dialog, and a row that is selected.
LEMMA OpeningStep ==
  ASSUME DialogsInv,
         \/ AddConnection \/ EditConnection \/ ConfigurePortForwards \/ DeleteConnection
         \/ \E r \in 0 .. Len(list) : Select(r)
         \/ \E id \in Ids : LiveRequest(id)
  PROVE  DialogsInv'
<1>0. /\ IsList(list) /\ Len(list) \in Nat /\ DOMAIN list = 1 .. Len(list)
      /\ tree = IdRows(list) /\ row \in 0 .. Len(list)
      /\ keyring \subseteq Ids /\ mishap \in BOOLEAN
      /\ dialogs \in Seq(Dialog) /\ Len(dialogs) <= MaxDialogs
  BY TypeIs DEF DialogsInv, TreeShowsList, IsList
<1>1. CASE AddConnection
  <2>1. dialogs = <<>> /\ Open([for |-> "add"]) /\ UNCHANGED <<list, tree, row, keyring, mishap>>
    BY <1>1 DEF AddConnection
  <2>2. DialogsOK' /\ dialogs' \in Seq(Dialog) /\ Len(dialogs') <= MaxDialogs
    BY <2>1, OpenKeepsOrder, NoticeIsDialog
  <2>3. QED
    BY <1>0, <2>1, <2>2, ListUnchanged
<1>2. ASSUME NEW handler \in {"edit", "forwards", "delete"}, OpenOnSelected(handler) PROVE DialogsInv'
  <2> DEFINE d == [for |-> handler, profile |-> list[row]]
  <2>1. /\ dialogs = <<>> /\ row # 0 /\ Open(d) /\ UNCHANGED <<list, tree, row, keyring, mishap>>
    BY <1>2 DEF OpenOnSelected
  <2>2. list[row] \in Profile /\ list[row] \in ToSet(list)
    BY <1>0, <2>1 DEF IsList, ToSet
  <2>3. d \in Dialog
    BY <2>2 DEF Dialog
  <2>4. d.for = handler /\ d.profile = list[row]
    OBVIOUS
  <2> HIDE DEF d
  <2>5. DialogsOK' /\ dialogs' \in Seq(Dialog) /\ Len(dialogs') <= MaxDialogs
    BY <2>1, <2>2, <2>3, <2>4, OpenKeepsOrder
  <2>6. QED
    BY <1>0, <2>1, <2>5, ListUnchanged
<1>3. CASE EditConnection \/ ConfigurePortForwards \/ DeleteConnection
  BY <1>2, <1>3 DEF EditConnection, ConfigurePortForwards, DeleteConnection
<1>4. ASSUME NEW r \in 0 .. Len(list), Select(r) PROVE DialogsInv'
  <2>1. dialogs' = dialogs /\ row' = r /\ UNCHANGED <<list, tree, keyring, mishap>>
    BY <1>4 DEF Select
  <2>2. DialogsOK'
    BY <2>1 DEF DialogsInv, DialogsOK, ToSet
  <2>3. QED
    BY <1>0, <2>1, <2>2, ListUnchanged
<1>5. ASSUME NEW id \in Ids, LiveRequest(id) PROVE DialogsInv'
  <2>1. /\ UNCHANGED <<list, keyring, mishap>> /\ Refresh(RowOf(list, id))
        /\ UNCHANGED dialogs \/ Open(Notice)
    BY <1>5 DEF LiveRequest, Notice
  <2>2. tree' = IdRows(list) /\ row' \in 0 .. Len(list)
    BY <1>0, <2>1 DEF Refresh
  <2>3. CASE dialogs' = dialogs
    <3>1. DialogsOK'
      BY <2>1, <2>3 DEF DialogsInv, DialogsOK, ToSet
    <3>2. QED
      BY <1>0, <2>1, <2>2, <2>3, <3>1, ListUnchanged
  <2>4. CASE Open(Notice)
    <3>1. DialogsOK' /\ dialogs' \in Seq(Dialog) /\ Len(dialogs') <= MaxDialogs
      BY <2>1, <2>4, OpenKeepsOrder, NoticeIsDialog
    <3>2. QED
      BY <1>0, <2>1, <2>2, <3>1, ListUnchanged
  <2>5. QED
    BY <2>1, <2>3, <2>4
<1>6. QED
  BY <1>1, <1>3, <1>4, <1>5

\* The answers that lead to no change of the list.
LEMMA DismissingStep ==
  ASSUME DialogsInv, Dismiss \/ SecretNotWritten \/ SecretNotRemoved
  PROVE  DialogsInv'
<1>0. /\ tree = IdRows(list) /\ row \in 0 .. Len(list)
      /\ keyring \subseteq Ids /\ mishap \in BOOLEAN
      /\ UNCHANGED <<list, tree, row, keyring, mishap>>
  BY TypeIs DEF DialogsInv, TreeShowsList, Dismiss, SecretNotWritten, SecretNotRemoved
<1>1. CASE Dismiss
  <2>1. DialogsOK' /\ dialogs' \in Seq(Dialog) /\ Len(dialogs') <= MaxDialogs
    BY <1>0, <1>1, CloseKeepsOrder DEF Dismiss
  <2>2. QED
    BY <1>0, <2>1, ListUnchanged
<1>2. CASE SecretNotWritten
  <2>1. ReplaceTop(Notice) /\ Top.for # "notice"
    BY <1>2 DEF SecretNotWritten, Notice
  <2>2. /\ dialogs' \in Seq(Dialog) /\ Len(dialogs') <= MaxDialogs
        /\ DOMAIN dialogs' = {1} /\ dialogs'[1] = Notice
    BY <2>1, LastReplaced, NoticeIsDialog
  <2>3. DialogsOK'
    BY <2>2, NoticeIsDialog DEF DialogsOK
  <2>4. QED
    BY <1>0, <2>2, <2>3, ListUnchanged
<1>3. CASE SecretNotRemoved
  <2> DEFINE d == [for |-> "deleteRow", profile |-> Top.profile]
  <2>1. ReplaceTop(d) /\ dialogs # <<>> /\ Top.for = "delete" /\ Top.profile.secret
    BY <1>3 DEF SecretNotRemoved
  <2>2. Top.profile \in ToSet(list) /\ Top.profile \in Profile
    BY <2>1, TopAlone
  <2>3. d \in Dialog
    BY <2>2 DEF Dialog
  <2>4. d.for = "deleteRow" /\ d.profile = Top.profile
    OBVIOUS
  <2> HIDE DEF d
  <2>5. /\ dialogs' \in Seq(Dialog) /\ Len(dialogs') <= MaxDialogs
        /\ DOMAIN dialogs' = {1} /\ dialogs'[1] = d
    BY <2>1, <2>3, LastReplaced
  <2>6. ToSet(list)' = ToSet(list)
    BY <1>0
  <2>7. DialogsOK'
    BY <2>1, <2>2, <2>4, <2>5, <2>6 DEF DialogsOK
  <2>8. QED
    BY <1>0, <2>5, <2>7, ListUnchanged
<1>4. QED
  BY <1>1, <1>2, <1>3

\* A handler that stores a profile p: the list holds it then, or is as it was.
LEMMA StoringStep ==
  ASSUME DialogsInv, NEW p \in Profile, NEW r, NEW saved \in BOOLEAN, Upsert(p, r, saved),
         dialogs' \in Seq(Dialog), Len(dialogs') <= MaxDialogs,
         \A i \in DOMAIN dialogs' : dialogs'[i].for = "notice",
         keyring' \subseteq Ids, mishap' \in BOOLEAN, ~mishap' => ~mishap,
         saved /\ ~mishap' =>
           keyring' = (keyring \ {p.id}) \cup (IF p.secret THEN {p.id} ELSE {}),
         ~saved /\ ~mishap' => keyring' = keyring
  PROVE  DialogsInv'
<1>1. IsList(list) /\ tree = IdRows(list) /\ row \in 0 .. Len(list)
  BY TypeIs DEF DialogsInv, TreeShowsList
<1>2. CASE saved
  <2>1. list' = Put(list, p) /\ Refresh(r)
    BY <1>2 DEF Upsert
  <2>2. IsList(list') /\ WithSecret(list') =
          (WithSecret(list) \ {p.id}) \cup (IF p.secret THEN {p.id} ELSE {})
    BY <1>1, <2>1, PutKeepsList, PutSecrets
  <2>3. ~mishap' => keyring' = WithSecret(list')
    BY <1>2, <2>2 DEF DialogsInv, SecretsMatchProfiles
  <2>4. QED
    BY <2>1, <2>2, <2>3, ListChanged
<1>3. CASE ~saved
  <2>1. UNCHANGED <<list, tree, row>>
    BY <1>3 DEF Upsert
  <2>2. DialogsOK'
    BY DEF DialogsOK
  <2>3. QED
    BY <1>1, <1>3, <2>1, <2>2, ListUnchanged
<1>4. QED
  BY <1>2, <1>3

\* A handler that deletes: the current row goes, or the list is as it was.
LEMMA RemovingStep ==
  ASSUME DialogsInv, NEW named \in Profile, named \in ToSet(list), NEW gone \in BOOLEAN,
         NEW saved \in BOOLEAN, RemoveCurrentRow(named, gone, saved),
         dialogs' \in Seq(Dialog), Len(dialogs') <= MaxDialogs,
         \A i \in DOMAIN dialogs' : dialogs'[i].for = "notice",
         gone => named.secret,
         keyring' = IF gone THEN keyring \ {named.id} ELSE keyring
  PROVE  DialogsInv'
<1>1. /\ IsList(list) /\ DOMAIN list = 1 .. Len(list) /\ Len(list) \in Nat
      /\ tree = IdRows(list) /\ row \in 0 .. Len(list)
      /\ keyring \subseteq Ids /\ mishap \in BOOLEAN
  BY TypeIs DEF DialogsInv, TreeShowsList, IsList
<1>2. CASE row # 0 /\ saved
  <2>1. /\ list' = RemoveAt(list, row)
        /\ Refresh(IF row < Len(list) THEN row ELSE Len(list) - 1)
        /\ mishap' = (mishap \/ list[row] # named \/ (named.secret /\ ~gone))
    BY <1>2 DEF RemoveCurrentRow
  <2>2. row \in DOMAIN list
    BY <1>1, <1>2
  <2>3. IsList(list') /\ WithSecret(list') = WithSecret(list) \ {list[row].id}
    BY <1>1, <2>1, <2>2, RemoveKeepsList, RemoveSecrets
  <2>4. ASSUME ~mishap' PROVE keyring' = WithSecret(list')
    <3>1. ~mishap /\ list[row] = named /\ gone = named.secret /\ named.secret \in BOOLEAN
      BY <2>1, <2>4 DEF Profile
    <3>2. keyring = WithSecret(list)
      BY <3>1 DEF DialogsInv, SecretsMatchProfiles
    <3>3. ~named.secret => named.id \notin WithSecret(list)
      BY <1>1, OneProfile DEF WithSecret
    <3>4. QED
      BY <2>3, <3>1, <3>2, <3>3
  <2>5. mishap' \in BOOLEAN /\ keyring' \subseteq Ids
    BY <1>1, <2>1
  <2>6. QED
    BY <2>1, <2>3, <2>4, <2>5, ListChanged
<1>3. CASE ~(row # 0 /\ saved)
  <2>1. UNCHANGED <<list, tree, row>> /\ mishap' = (mishap \/ gone)
    BY <1>3 DEF RemoveCurrentRow
  <2>2. DialogsOK'
    BY DEF DialogsOK
  <2>3. mishap' \in BOOLEAN /\ keyring' \subseteq Ids /\ (~mishap' => ~mishap /\ keyring' = keyring)
    BY <1>1, <2>1
  <2>4. QED
    BY <1>1, <2>1, <2>2, <2>3, ListUnchanged
<1>4. QED
  BY <1>2, <1>3

\* The answers that change the list.
LEMMA AnsweringStep ==
  ASSUME DialogsInv,
         \/ \E id \in NewIds, secret, saved \in BOOLEAN : Added(id, secret, saved)
         \/ \E secret, saved \in BOOLEAN : Edited(secret, saved)
         \/ \E saved \in BOOLEAN : Forwarded(saved) \/ Deleted(saved) \/ DeletedAfterWarning(saved)
  PROVE  DialogsInv'
<1>0. IsList(list) /\ keyring \subseteq Ids /\ mishap \in BOOLEAN
  BY TypeIs DEF DialogsInv
<1>1. ASSUME NEW id \in NewIds, NEW secret \in BOOLEAN, NEW saved \in BOOLEAN,
             Added(id, secret, saved)
      PROVE  DialogsInv'
  <2> DEFINE p == [id |-> id, secret |-> secret]
  <2>1. /\ CloseTop /\ Top.for = "add" /\ id \notin keyring
        /\ keyring' = IF secret THEN keyring \cup {id} ELSE keyring
        /\ Upsert(p, Len(list) + 1, saved)
        /\ mishap' = (mishap \/ (secret /\ ~saved))
    BY <1>1 DEF Added
  <2>2. p \in Profile /\ p.id = id /\ p.secret = secret
    BY DEF Profile, Ids
  <2>3. keyring' \subseteq Ids
    BY <1>0, <2>1 DEF Ids
  <2> HIDE DEF p
  <2>4. /\ dialogs' \in Seq(Dialog) /\ Len(dialogs') <= MaxDialogs
        /\ \A i \in DOMAIN dialogs' : dialogs'[i].for = "notice"
    BY <2>1, LastCloses
  <2>5. mishap' \in BOOLEAN /\ (~mishap' => ~mishap /\ (secret => saved))
    BY <1>0, <2>1
  <2>6. /\ saved /\ ~mishap' => keyring' = (keyring \ {p.id}) \cup (IF p.secret THEN {p.id} ELSE {})
        /\ ~saved /\ ~mishap' => keyring' = keyring
    BY <2>1, <2>2, <2>5
  <2>7. QED
    BY <2>1, <2>2, <2>3, <2>4, <2>5, <2>6, StoringStep
<1>2. ASSUME NEW secret \in BOOLEAN, NEW saved \in BOOLEAN, Edited(secret, saved) PROVE DialogsInv'
  <2> DEFINE old == Top.profile
             p == [old EXCEPT !.secret = old.secret \/ secret]
  <2>1. /\ CloseTop /\ Top.for = "edit"
        /\ keyring' = IF secret THEN keyring \cup {old.id} ELSE keyring
        /\ Upsert(p, row, saved)
        /\ mishap' = (mishap \/ (secret /\ ~saved))
    BY <1>2 DEF Edited
  <2>2. old \in Profile /\ old \in ToSet(list)
    BY <2>1, TopAlone DEF CloseTop
  <2> HIDE DEF old
  <2>3. p \in Profile /\ p.id = old.id /\ p.secret = (old.secret \/ secret) /\ old.id \in Ids
    BY <2>2 DEF Profile
  <2> HIDE DEF p
  <2>4. keyring' \subseteq Ids
    BY <1>0, <2>1, <2>3
  <2>5. /\ dialogs' \in Seq(Dialog) /\ Len(dialogs') <= MaxDialogs
        /\ \A i \in DOMAIN dialogs' : dialogs'[i].for = "notice"
    BY <2>1, LastCloses
  <2>6. mishap' \in BOOLEAN /\ (~mishap' => ~mishap /\ (secret => saved))
    BY <1>0, <2>1
  <2>7. ~mishap' => (old.id \in keyring <=> old.secret)
    <3>1. old.id \in WithSecret(list) <=> old.secret
      BY <1>0, <2>2, OneProfile DEF WithSecret
    <3>2. QED
      BY <2>6, <3>1 DEF DialogsInv, SecretsMatchProfiles
  <2>8. /\ saved /\ ~mishap' => keyring' = (keyring \ {p.id}) \cup (IF p.secret THEN {p.id} ELSE {})
        /\ ~saved /\ ~mishap' => keyring' = keyring
    BY <2>1, <2>3, <2>6, <2>7
  <2>9. QED
    BY <2>1, <2>3, <2>4, <2>5, <2>6, <2>8, StoringStep
<1>3. ASSUME NEW saved \in BOOLEAN, Forwarded(saved) PROVE DialogsInv'
  <2> DEFINE p == Top.profile
  <2>1. /\ (saved /\ CloseTop) \/ ReplaceTop(Notice)
        /\ Top.for = "forwards"
        /\ Upsert(p, RowOf(list, p.id), saved)
        /\ UNCHANGED <<keyring, mishap>>
    BY <1>3 DEF Forwarded, Notice
  <2>2. p \in Profile /\ p \in ToSet(list)
    BY <2>1, TopAlone DEF CloseTop, ReplaceTop
  <2>3. /\ dialogs' \in Seq(Dialog) /\ Len(dialogs') <= MaxDialogs
        /\ \A i \in DOMAIN dialogs' : dialogs'[i].for = "notice"
    BY <2>1, LastCloses, LastReplaced, NoticeIsDialog
  <2> HIDE DEF p
  <2>4. ~mishap => (p.id \in keyring <=> p.secret)
    <3>1. p.id \in WithSecret(list) <=> p.secret
      BY <1>0, <2>2, OneProfile DEF WithSecret
    <3>2. QED
      BY <3>1 DEF DialogsInv, SecretsMatchProfiles
  <2>5. ~mishap' => keyring' = (keyring \ {p.id}) \cup (IF p.secret THEN {p.id} ELSE {})
    BY <2>1, <2>4
  <2>6. QED
    BY <1>0, <2>1, <2>2, <2>3, <2>5, StoringStep
<1>4. ASSUME NEW saved \in BOOLEAN, Deleted(saved) PROVE DialogsInv'
  <2> DEFINE p == Top.profile
  <2>1. /\ CloseTop /\ Top.for = "delete"
        /\ keyring' = IF p.secret THEN keyring \ {p.id} ELSE keyring
        /\ RemoveCurrentRow(p, p.secret, saved)
    BY <1>4 DEF Deleted
  <2>2. p \in Profile /\ p \in ToSet(list)
    BY <2>1, TopAlone DEF CloseTop
  <2>3. p.secret \in BOOLEAN
    BY <2>2 DEF Profile
  <2>4. /\ dialogs' \in Seq(Dialog) /\ Len(dialogs') <= MaxDialogs
        /\ \A i \in DOMAIN dialogs' : dialogs'[i].for = "notice"
    BY <2>1, LastCloses
  <2> HIDE DEF p
  <2>5. QED
    BY <2>1, <2>2, <2>3, <2>4, RemovingStep
<1>5. ASSUME NEW saved \in BOOLEAN, DeletedAfterWarning(saved) PROVE DialogsInv'
  <2> DEFINE p == Top.profile
  <2>1. /\ CloseTop /\ Top.for = "deleteRow" /\ keyring' = keyring
        /\ RemoveCurrentRow(p, FALSE, saved)
    BY <1>5 DEF DeletedAfterWarning
  <2>2. p \in Profile /\ p \in ToSet(list)
    BY <2>1, TopAlone DEF CloseTop
  <2>3. /\ dialogs' \in Seq(Dialog) /\ Len(dialogs') <= MaxDialogs
        /\ \A i \in DOMAIN dialogs' : dialogs'[i].for = "notice"
    BY <2>1, LastCloses
  <2> HIDE DEF p
  <2>4. QED
    BY <2>1, <2>2, <2>3, RemovingStep
<1>6. QED
  BY <1>1, <1>2, <1>3, <1>4, <1>5

LEMMA ImportingStep ==
  ASSUME DialogsInv, NEW ids \in SeqOf(ImportedIds, MaxImported), NEW saved \in BOOLEAN,
         ImportConnections(ids, saved)
  PROVE  DialogsInv'
<1>0. IsList(list) /\ keyring \subseteq Ids /\ mishap \in BOOLEAN /\ dialogs \in Seq(Dialog)
  BY TypeIs DEF DialogsInv
<1>1. /\ dialogs = <<>> /\ Open(Notice) /\ Refresh(1) /\ keyring' = keyring
      /\ list' = IF saved THEN Imported(list, ids) ELSE list
      /\ mishap' = (mishap \/ WithSecret(list) # WithSecret(list'))
  BY DEF ImportConnections, Notice
<1>2. ids \in Seq(ImportedIds)
  BY DialogsAssumption DEF SeqOf
<1>3. IsList(list')
  BY <1>0, <1>1, <1>2, ImportedKeepsList
<1>4. /\ dialogs' \in Seq(Dialog) /\ Len(dialogs') = 1 /\ Len(dialogs') <= MaxDialogs
      /\ dialogs'[1] = Notice
  BY <1>0, <1>1, OpenAdds, NoticeIsDialog
<1>5. \A i \in DOMAIN dialogs' : dialogs'[i].for = "notice"
  BY <1>4, NoticeIsDialog
<1>6. mishap' \in BOOLEAN /\ (~mishap' => keyring' = WithSecret(list'))
  BY <1>0, <1>1 DEF DialogsInv, SecretsMatchProfiles
<1>7. QED
  BY <1>0, <1>1, <1>3, <1>4, <1>5, <1>6, ListChanged

LEMMA DialogsStep == DialogsInv /\ [Next]_vars => DialogsInv'
<1> SUFFICES ASSUME DialogsInv, [Next]_vars PROVE DialogsInv'
  OBVIOUS
<1>1. CASE UNCHANGED vars
  BY <1>1 DEF vars, DialogsInv, TypeOK, TreeShowsList, DialogsOK, SecretsMatchProfiles,
     IdRows, WithSecret, ToSet
<1>2. CASE Next
  BY <1>2, OpeningStep, DismissingStep, AnsweringStep, ImportingStep DEF Next
<1>3. QED
  BY <1>1, <1>2

LEMMA DialogsInit == Init => DialogsInv
<1> SUFFICES ASSUME Init PROVE DialogsInv
  OBVIOUS
<1>1. /\ list = <<>> /\ tree = <<>> /\ row = 0 /\ keyring = {} /\ dialogs = <<>> /\ mishap = FALSE
      /\ DOMAIN <<>> = {} /\ <<>> \in Seq(Profile) /\ <<>> \in Seq(Ids) /\ <<>> \in Seq(Dialog)
      /\ Len(<<>>) = 0
  BY DEF Init
<1>2. TypeOK
  <2>1. list \in Seq(Profile) /\ tree \in Seq(Ids) /\ dialogs \in Seq(Dialog)
    BY <1>1
  <2>2. \A i, j \in DOMAIN list : list[i].id = list[j].id => i = j
    BY <1>1
  <2>3. row \in Nat /\ keyring \subseteq Ids /\ mishap \in BOOLEAN
    BY <1>1
  <2>4. Len(dialogs) <= MaxDialogs
    BY <1>1, DialogsAssumption
  <2>5. QED
    BY <2>1, <2>2, <2>3, <2>4 DEF TypeOK
<1>3. TreeShowsList
  BY <1>1 DEF TreeShowsList, IdRows
<1>4. DialogsOK
  BY <1>1 DEF DialogsOK
<1>5. SecretsMatchProfiles
  BY <1>1 DEF SecretsMatchProfiles, WithSecret, ToSet
<1>6. QED
  BY <1>2, <1>3, <1>4, <1>5 DEF DialogsInv

(***************************************************************************)
(* The invariant holds for any profiles, any import and any depth of       *)
(* dialogs.                                                                *)
(***************************************************************************)
THEOREM DialogsInvariant == Spec => []DialogsInv
  BY DialogsInit, DialogsStep, PTL DEF Spec

(***************************************************************************)
(* The list stays a list of profiles with distinct ids, whatever is added, *)
(* edited, removed and imported (ConnectionListModel looks profiles up by  *)
(* their ids).                                                             *)
(***************************************************************************)
THEOREM DialogsTypeCorrect == Spec => []TypeOK
<1>1. DialogsInv => TypeOK
  BY DEF DialogsInv
<1>2. QED
  BY <1>1, DialogsInvariant, PTL

(***************************************************************************)
(* The rows of the tree stand for the profiles of the list after every     *)
(* handler, failed saves and nested dialogs included, and the current row  *)
(* is one of them or none (WaypaneWindow::refreshConnections).             *)
(***************************************************************************)
THEOREM RowsAreProfiles == Spec => []TreeShowsList
<1>1. DialogsInv => TreeShowsList
  BY DEF DialogsInv
<1>2. QED
  BY <1>1, DialogsInvariant, PTL

(***************************************************************************)
(* The keyring holds the secrets of the profiles and no others, except     *)
(* after one of the mishaps that the handlers of WaypaneWindow allow: a    *)
(* save that fails when the keyring has been written, another row removed  *)
(* than was asked about, a secret that stays after the warning, and an     *)
(* import that overwrites a profile with a secret.                         *)
(***************************************************************************)
THEOREM KeyringFollowsProfiles == Spec => []SecretsMatchProfiles
<1>1. DialogsInv => SecretsMatchProfiles
  BY DEF DialogsInv
<1>2. QED
  BY <1>1, DialogsInvariant, PTL

-----------------------------------------------------------------------------
(***************************************************************************)
(* A secret leaves the keyring only when the user has confirmed the        *)
(* deletion of its profile, whatever row a live request has made current   *)
(* meanwhile (WaypaneWindow::deleteConnection).                            *)
(***************************************************************************)
THEOREM SecretsLeaveOnlyByName == Spec => SecretsLeaveByName
<1> DEFINE Named == \A id \in keyring \ keyring' :
                       dialogs # <<>> /\ Top.for = "delete" /\ Top.profile.id = id
<1>1. [Next]_vars => [Named]_vars
  <2> SUFFICES ASSUME Next PROVE Named
    OBVIOUS
  <2>1. ASSUME keyring \subseteq keyring' PROVE Named
    BY <2>1
  <2>2. CASE AddConnection \/ EditConnection \/ ConfigurePortForwards \/ DeleteConnection
             \/ Dismiss \/ SecretNotWritten \/ SecretNotRemoved
    BY <2>1, <2>2 DEF AddConnection, EditConnection, ConfigurePortForwards, DeleteConnection,
       OpenOnSelected, Dismiss, SecretNotWritten, SecretNotRemoved
  <2>3. ASSUME NEW r \in 0 .. Len(list), Select(r) PROVE Named
    BY <2>1, <2>3 DEF Select
  <2>4. ASSUME NEW id \in Ids, LiveRequest(id) PROVE Named
    BY <2>1, <2>4 DEF LiveRequest
  <2>5. ASSUME NEW id \in NewIds, NEW secret \in BOOLEAN, NEW saved \in BOOLEAN, Added(id, secret, saved)
        PROVE  Named
    BY <2>1, <2>5 DEF Added
  <2>6. ASSUME NEW secret \in BOOLEAN, NEW saved \in BOOLEAN, Edited(secret, saved) PROVE Named
    BY <2>1, <2>6 DEF Edited
  <2>7. ASSUME NEW saved \in BOOLEAN, Forwarded(saved) \/ DeletedAfterWarning(saved) PROVE Named
    BY <2>1, <2>7 DEF Forwarded, DeletedAfterWarning
  <2>8. ASSUME NEW saved \in BOOLEAN, Deleted(saved) PROVE Named
    <3>1. dialogs # <<>> /\ Top.for = "delete"
      BY <2>8 DEF Deleted, CloseTop
    <3>2. keyring' = keyring \/ keyring' = keyring \ {Top.profile.id}
      BY <2>8 DEF Deleted
    <3>3. QED
      BY <3>1, <3>2
  <2>9. ASSUME NEW ids \in SeqOf(ImportedIds, MaxImported), NEW saved \in BOOLEAN, ImportConnections(ids, saved)
        PROVE  Named
    BY <2>1, <2>9, Zenon DEF ImportConnections
  <2> HIDE DEF Named
  <2>10. QED
    BY <2>2, <2>3, <2>4, <2>5, <2>6, <2>7, <2>8, <2>9 DEF Next
<1>2. QED
  BY <1>1, PTL DEF Spec, SecretsLeaveByName
==============================================================================
