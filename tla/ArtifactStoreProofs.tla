-------------------------- MODULE ArtifactStoreProofs --------------------------
(***************************************************************************)
(* What ArtifactStore promises for any number of runs, paths and contents, *)
(* wherever coordinators die, disks fill up and survivors write.           *)
(***************************************************************************)
EXTENDS ArtifactStore, TLAPS

Reading == {"look", "copy", "copying"}

\* A path is at hand until all are promoted.
PathAtHand ==
  \A r \in Runs :
    /\ pc[r] \in Reading \cup {"hash", "replace", "stat"} => At(r) \in Paths
    /\ pc[r] \in Reading \cup {"replace", "stat"} => digest[r] \in Contents
    /\ pc[r] = "promoted" \/ result[r] = "succeeded" => Len(receipts[r]) = NPaths

\* The file at hand is what it was when it was named, or is known to have changed.
SourceKnown ==
  \A r \in Runs : pc[r] \in Reading =>
    /\ file[r][At(r)] \in Contents
    /\ file[r][At(r)] = digest[r] \/ digest[r] \in rewritten

\* So is a finished copy.
CopyKnown ==
  \A r \in Runs : pc[r] = "replace" =>
    /\ temps[r] \in Contents
    /\ temps[r] = digest[r] \/ digest[r] \in rewritten

\* Nothing that a receipt names, or is about to name, is missing.
ReceiptsStored ==
  \A r \in Runs :
    /\ pc[r] = "stat" => store[digest[r]] # None
    /\ \A p \in DOMAIN receipts[r] : store[receipts[r][p]] # None

\* Without survivors a workspace stays as the worker left it.
LeftAsItWas ==
  \A r \in Runs \ Survivors :
    /\ file[r] = left[r]
    /\ pc[r] \in Reading \cup {"replace", "stat"} => digest[r] = left[r][At(r)]
    /\ \A p \in DOMAIN receipts[r] : receipts[r][p] = left[r][p]

Inv ==
  /\ TypeOK
  /\ PathAtHand
  /\ SourceKnown
  /\ CopyKnown
  /\ ReceiptsStored
  /\ LeftAsItWas
  /\ StoreHoldsWhatItNames

LEMMA InvInit == Init => Inv
<1> SUFFICES ASSUME Init PROVE Inv
  OBVIOUS
<1> USE ArtifactConstants DEF Init, At, Paths, Reading, Stages, Names
<1>1. TypeOK
  BY DEF TypeOK
<1>2. \A r \in Runs : Len(receipts[r]) = 0 /\ DOMAIN receipts[r] = {}
  <2>1. Len(<<>>) = 0 /\ DOMAIN <<>> = {}
    OBVIOUS
  <2>2. \A r \in Runs : receipts[r] = <<>>
    OBVIOUS
  <2> QED
    BY <2>1, <2>2
<1>3. PathAtHand /\ SourceKnown /\ CopyKnown
  BY <1>2 DEF PathAtHand, SourceKnown, CopyKnown
<1>4. ReceiptsStored /\ LeftAsItWas /\ StoreHoldsWhatItNames
  BY <1>2 DEF ReceiptsStored, LeftAsItWas, StoreHoldsWhatItNames
<1> QED
  BY <1>1, <1>3, <1>4 DEF Inv

LEMMA InvNext == Inv /\ [Next]_vars => Inv'
<1> USE ArtifactConstants DEF Inv, TypeOK, At, Paths, Reading, Stages, Names, Temporary
<1> SUFFICES ASSUME Inv, [Next]_vars PROVE Inv'
  OBVIOUS
<1>1. ASSUME NEW r \in Runs, Hash(r) PROVE Inv'
  <2>0. /\ pc'[r] # "stat"
        /\ \A q \in Runs : q # r => digest'[q] = digest[q] /\ pc'[q] = pc[q]
    BY <1>1 DEF Hash
  <2>1. TypeOK'
    <3>1. pc' \in [Runs -> Stages] /\ digest' \in [Runs -> Contents \cup {None}]
      <4>1. CASE file[r][At(r)] \in Contents
        BY <1>1, <4>1 DEF Hash
      <4>2. CASE file[r][At(r)] \notin Contents
        BY <1>1, <4>2 DEF Hash
      <4> QED
        BY <4>1, <4>2
    <3> QED
      BY <1>1, <3>1 DEF Hash
  <2>2. PathAtHand'
    BY <1>1 DEF Hash, PathAtHand
  <2>3. SourceKnown'
    BY <1>1 DEF Hash, SourceKnown
  <2>4. CopyKnown'
    BY <1>1 DEF Hash, CopyKnown
  <2>5. ReceiptsStored'
    <3>1. UNCHANGED <<store, receipts>>
      BY <1>1 DEF Hash
    <3>2. \A q \in Runs : pc'[q] = "stat" => store[digest'[q]] # None
      BY <2>0 DEF ReceiptsStored
    <3>3. \A q \in Runs : \A p \in DOMAIN receipts[q] : store[receipts[q][p]] # None
      BY DEF ReceiptsStored
    <3> QED
      BY <3>1, <3>2, <3>3, Zenon DEF ReceiptsStored
  <2>6. LeftAsItWas'
    <3>1. file[r] = left[r] \/ r \in Survivors
      BY <1>1 DEF LeftAsItWas
    <3>2. pc'[r] \in Reading \cup {"replace", "stat"} => digest'[r] = file[r][At(r)]
      BY <1>1 DEF Hash
    <3> QED
      BY <2>0, <1>1, <3>1, <3>2 DEF Hash, LeftAsItWas
  <2>7. StoreHoldsWhatItNames'
    BY <1>1 DEF Hash, StoreHoldsWhatItNames
  <2> QED
    BY <2>1, <2>2, <2>3, <2>4, <2>5, <2>6, <2>7
<1>2. ASSUME NEW r \in Runs, Look(r) PROVE Inv'
  <2>1. TypeOK'
    BY <1>2 DEF Look
  <2>2. PathAtHand'
    BY <1>2 DEF Look, PathAtHand
  <2>3. SourceKnown'
    BY <1>2 DEF Look, SourceKnown
  <2>4. CopyKnown'
    BY <1>2 DEF Look, CopyKnown
  <2>5. ReceiptsStored'
    BY <1>2 DEF Look, ReceiptsStored
  <2>6. LeftAsItWas'
    BY <1>2 DEF Look, LeftAsItWas
  <2>7. StoreHoldsWhatItNames'
    BY <1>2 DEF Look, StoreHoldsWhatItNames
  <2> QED
    BY <2>1, <2>2, <2>3, <2>4, <2>5, <2>6, <2>7
<1>3. ASSUME NEW r \in Runs, BeginCopy(r) PROVE Inv'
  <2>1. TypeOK'
    BY <1>3 DEF BeginCopy
  <2>2. PathAtHand'
    BY <1>3 DEF BeginCopy, PathAtHand
  <2>3. SourceKnown'
    BY <1>3 DEF BeginCopy, SourceKnown
  <2>4. CopyKnown'
    BY <1>3 DEF BeginCopy, CopyKnown
  <2>5. ReceiptsStored'
    BY <1>3 DEF BeginCopy, ReceiptsStored
  <2>6. LeftAsItWas'
    BY <1>3 DEF BeginCopy, LeftAsItWas
  <2>7. StoreHoldsWhatItNames'
    BY <1>3 DEF BeginCopy, StoreHoldsWhatItNames
  <2> QED
    BY <2>1, <2>2, <2>3, <2>4, <2>5, <2>6, <2>7
<1>4. ASSUME NEW r \in Runs, EndCopy(r) PROVE Inv'
  <2>0. /\ file[r][At(r)] \in Contents
        /\ file[r][At(r)] = digest[r] \/ digest[r] \in rewritten
    BY <1>4 DEF EndCopy, SourceKnown
  <2>1. TypeOK'
    BY <2>0, <1>4 DEF EndCopy
  <2>2. PathAtHand'
    BY <1>4 DEF EndCopy, PathAtHand
  <2>3. SourceKnown'
    BY <1>4 DEF EndCopy, SourceKnown
  <2>4. CopyKnown'
    BY <2>0, <1>4 DEF EndCopy, CopyKnown
  <2>5. ReceiptsStored'
    BY <1>4 DEF EndCopy, ReceiptsStored
  <2>6. LeftAsItWas'
    BY <1>4 DEF EndCopy, LeftAsItWas
  <2>7. StoreHoldsWhatItNames'
    BY <1>4 DEF EndCopy, StoreHoldsWhatItNames
  <2> QED
    BY <2>1, <2>2, <2>3, <2>4, <2>5, <2>6, <2>7
<1>5. ASSUME NEW r \in Runs, Replace(r) PROVE Inv'
  <2>0. /\ digest[r] \in Contents /\ temps[r] \in Contents
        /\ temps[r] = digest[r] \/ digest[r] \in rewritten
        /\ pc[r] = "replace"
    BY <1>5 DEF Replace, PathAtHand, CopyKnown
  <2>a. \A d \in Contents : store'[d] = IF d = digest[r] THEN temps[r] ELSE store[d]
    BY <2>0, <1>5 DEF Replace
  <2>1. TypeOK'
    BY <2>0, <2>a, <1>5 DEF Replace
  <2>2. PathAtHand'
    BY <1>5 DEF Replace, PathAtHand
  <2>3. SourceKnown'
    BY <1>5 DEF Replace, SourceKnown
  <2>4. CopyKnown'
    BY <1>5 DEF Replace, CopyKnown
  <2>5. ReceiptsStored'
    BY <2>0, <2>a, <1>5 DEF Replace, ReceiptsStored
  <2>6. LeftAsItWas'
    BY <1>5 DEF Replace, LeftAsItWas
  <2>7. StoreHoldsWhatItNames'
    BY <2>0, <2>a, <1>5 DEF Replace, StoreHoldsWhatItNames
  <2> QED
    BY <2>1, <2>2, <2>3, <2>4, <2>5, <2>6, <2>7
<1>6. ASSUME NEW r \in Runs, Stat(r) PROVE Inv'
  <2>0. Append(receipts[r], digest[r]) \in Seq(Contents)
    BY <1>6 DEF Stat, PathAtHand
  <2>1. TypeOK'
    BY <2>0, <1>6 DEF Stat
  <2>2. PathAtHand'
    BY <1>6 DEF Stat, PathAtHand
  <2>3. SourceKnown'
    BY <1>6 DEF Stat, SourceKnown
  <2>4. CopyKnown'
    BY <1>6 DEF Stat, CopyKnown
  <2>5. ReceiptsStored'
    BY <1>6 DEF Stat, ReceiptsStored
  <2>6. LeftAsItWas'
    BY <1>6 DEF Stat, LeftAsItWas
  <2>7. StoreHoldsWhatItNames'
    BY <1>6 DEF Stat, StoreHoldsWhatItNames
  <2> QED
    BY <2>1, <2>2, <2>3, <2>4, <2>5, <2>6, <2>7
<1>7. ASSUME NEW r \in Runs, Record(r) PROVE Inv'
  <2>1. TypeOK'
    BY <1>7 DEF Record
  <2>2. PathAtHand'
    BY <1>7 DEF Record, PathAtHand
  <2>3. SourceKnown'
    BY <1>7 DEF Record, SourceKnown
  <2>4. CopyKnown'
    BY <1>7 DEF Record, CopyKnown
  <2>5. ReceiptsStored'
    BY <1>7 DEF Record, ReceiptsStored
  <2>6. LeftAsItWas'
    BY <1>7 DEF Record, LeftAsItWas
  <2>7. StoreHoldsWhatItNames'
    BY <1>7 DEF Record, StoreHoldsWhatItNames
  <2> QED
    BY <2>1, <2>2, <2>3, <2>4, <2>5, <2>6, <2>7
<1>8. ASSUME NEW r \in Runs, CopyFails(r) PROVE Inv'
  <2>1. TypeOK'
    BY <1>8 DEF CopyFails
  <2>2. PathAtHand'
    BY <1>8 DEF CopyFails, PathAtHand
  <2>3. SourceKnown'
    BY <1>8 DEF CopyFails, SourceKnown
  <2>4. CopyKnown'
    BY <1>8 DEF CopyFails, CopyKnown
  <2>5. ReceiptsStored'
    BY <1>8 DEF CopyFails, ReceiptsStored
  <2>6. LeftAsItWas'
    BY <1>8 DEF CopyFails, LeftAsItWas
  <2>7. StoreHoldsWhatItNames'
    BY <1>8 DEF CopyFails, StoreHoldsWhatItNames
  <2> QED
    BY <2>1, <2>2, <2>3, <2>4, <2>5, <2>6, <2>7
<1>9. ASSUME NEW r \in Runs, Crash(r) PROVE Inv'
  <2>1. TypeOK'
    BY <1>9 DEF Crash
  <2>2. PathAtHand'
    BY <1>9 DEF Crash, PathAtHand
  <2>3. SourceKnown'
    BY <1>9 DEF Crash, SourceKnown
  <2>4. CopyKnown'
    BY <1>9 DEF Crash, CopyKnown
  <2>5. ReceiptsStored'
    BY <1>9 DEF Crash, ReceiptsStored
  <2>6. LeftAsItWas'
    BY <1>9 DEF Crash, LeftAsItWas
  <2>7. StoreHoldsWhatItNames'
    BY <1>9 DEF Crash, StoreHoldsWhatItNames
  <2> QED
    BY <2>1, <2>2, <2>3, <2>4, <2>5, <2>6, <2>7
<1>10. ASSUME NEW r \in Runs, NEW p \in Paths, NEW c \in Contents, Rewrite(r, p, c)
      PROVE  Inv'
  <2>0. file' \in [Runs -> [Paths -> Contents \cup {"unfit"}]]
    BY <1>10 DEF Rewrite
  <2>a. rewritten' \subseteq Contents
    BY <1>10 DEF Rewrite, PathAtHand
  <2>1. TypeOK'
    BY <2>0, <2>a, <1>10 DEF Rewrite
  <2>2. PathAtHand'
    BY <1>10 DEF Rewrite, PathAtHand
  <2>3. SourceKnown'
    BY <1>10 DEF Rewrite, SourceKnown
  <2>4. CopyKnown'
    BY <1>10 DEF Rewrite, CopyKnown
  <2>5. ReceiptsStored'
    BY <1>10 DEF Rewrite, ReceiptsStored
  <2>6. LeftAsItWas'
    BY <1>10 DEF Rewrite, LeftAsItWas
  <2>7. StoreHoldsWhatItNames'
    BY <1>10 DEF Rewrite, StoreHoldsWhatItNames
  <2> QED
    BY <2>1, <2>2, <2>3, <2>4, <2>5, <2>6, <2>7
<1>11. CASE UNCHANGED vars
  BY <1>11 DEF vars, PathAtHand, SourceKnown, CopyKnown, ReceiptsStored, LeftAsItWas,
     StoreHoldsWhatItNames
<1> QED
  BY <1>1, <1>2, <1>3, <1>4, <1>5, <1>6, <1>7, <1>8, <1>9, <1>10, <1>11 DEF Next, Promote

LEMMA Invariant == Spec => []Inv
  BY InvInit, InvNext, PTL DEF Spec

\* Every variable keeps its type.
THEOREM TypeCorrect == Spec => []TypeOK
<1>1. Inv => TypeOK
  BY DEF Inv
<1> QED
  BY <1>1, Invariant, PTL

\* Nothing torn is ever visible under a digest, and nothing wrong unless the file was
\* written to while it was being promoted.
THEOREM StoreIsAddressed == Spec => []StoreHoldsWhatItNames
<1>1. Inv => StoreHoldsWhatItNames
  BY DEF Inv
<1> QED
  BY <1>1, Invariant, PTL

\* A success on record has all of its artifacts.
THEOREM SuccessesAreWhole == Spec => []SuccessHasItsArtifacts
<1>1. Inv => SuccessHasItsArtifacts
  <2> SUFFICES ASSUME Inv, NEW r \in Runs, result[r] = "succeeded", NEW p \in Paths
               PROVE  /\ p \in DOMAIN receipts[r]
                      /\ store[receipts[r][p]] # None
                      /\ r \notin Survivors => receipts[r][p] = left[r][p]
    BY DEF SuccessHasItsArtifacts
  <2>1. p \in DOMAIN receipts[r]
    BY DEF Inv, TypeOK, PathAtHand, Paths
  <2> QED
    BY <2>1 DEF Inv, ReceiptsStored, LeftAsItWas
<1> QED
  BY <1>1, Invariant, PTL
================================================================================
