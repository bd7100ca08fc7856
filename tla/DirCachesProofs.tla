---------------------------- MODULE DirCachesProofs ----------------------------
(***************************************************************************)
(* For any names, handles and times to live: how long a cache may be out   *)
(* of date, and that it never is about what mkdir, delete and rename of    *)
(* this mount changed.                                                     *)
(***************************************************************************)
EXTENDS DirOpsProofs, SequenceTheorems

\* The inductive invariant: the four properties and the types they need.
Tree      == [Paths -> {"none", "dir", "file"}]
TreeOK    == /\ files \in Tree
             /\ age \in [Paths -> 0..MaxAge]
             /\ acked \in SUBSET (Paths \ {Root})
Listings  == [left : 0..ListTTL, paths : SUBSET Paths]
Metadata  == [left : 0..MetaTTL, what : {"none", "dir", "file"}]
EntriesOK == /\ negative \in [Paths -> 0..NegTTL]
             /\ listing \in [DirPaths -> Listings]
             /\ metadata \in [Paths -> Metadata]
             /\ task.path \in Paths
CInv      == /\ TreeOK /\ EntriesOK
             /\ MissingBounded /\ ListingBounded /\ MetadataBounded /\ MkdirDeleteRenameSeen

\* Whether p exists, and since when, is as before.
Same(p) == age'[p] = age[p] /\ (files'[p] = "none" <=> files[p] = "none")

\* What a step other than the passing of time does to the tree, being told of who;
\* and to the entry of p in each cache.
TreeStep(who) == files' \in Tree /\ (Becomes(files', who) \/ UNCHANGED filer)

NegativeStep(p) ==
  \/ negative'[p] \in {0, negative[p]}
  \/ /\ p # Root /\ negative'[p] = NegTTL
     /\ ~Exists(p) \/ (ListingHit(Parent(p)) /\ p \notin listing[Parent(p)].paths)

ListingStep(d) ==
  \/ listing'[d] \in {NoListing, listing[d]}
  \/ /\ listing'[d] = [left |-> ListTTL, paths |-> {p \in Children(d) : Exists(p)}]
     /\ files' = files

MetadataStep(p) ==
  \/ metadata'[p] \in {NoMetadata, metadata[p]}
  \/ metadata'[p] \in Metadata /\ files'[p] # "none"

Cleared(p) == /\ negative'[p] = 0
              /\ listing'[Parent(p)] = NoListing
              /\ metadata'[p] = NoMetadata \/ files'[p] # "none"

\* All of a cache.
NegativeSteps == /\ negative' = [p \in Paths |-> negative'[p]]
                 /\ \A p \in Paths : NegativeStep(p)
ListingSteps  == /\ listing' = [d \in DirPaths |-> listing'[d]]
                 /\ \A d \in DirPaths : ListingStep(d)
MetadataSteps == /\ metadata' = [p \in Paths |-> metadata'[p]]
                 /\ \A p \in Paths : MetadataStep(p)

-----------------------------------------------------------------------------
LEMMA Times ==
  /\ NegTTL \in Nat /\ ListTTL \in Nat /\ MetaTTL \in Nat /\ MaxAge \in Nat
  /\ MaxAge = NegTTL + ListTTL
  /\ DisableCache \in BOOLEAN
BY Assumptions DEF Assumptions, MaxAge

LEMMA ParentIsADir == ASSUME NEW p \in Paths PROVE Parent(p) \in DirPaths
BY DEF Parent, Paths, DirPaths, FilePaths, Root

LEMMA TreeStepOK ==
  ASSUME TreeOK, NEW who \in SUBSET (Paths \ {Root}), TreeStep(who)
  PROVE  /\ TreeOK'
         /\ \A p \in Paths : Same(p) \/ age'[p] = 0
         /\ \A p \in acked' : (p \in acked /\ Same(p)) \/ p \in who
<1>1. CASE UNCHANGED filer
  BY <1>1 DEF filer, TreeOK, Same
<1>2. CASE Becomes(files', who)
  <2> DEFINE changed == {p \in Paths : (files'[p] = "none") # (files[p] = "none")}
  <2>1. /\ age' = [p \in Paths |-> IF p \in changed THEN 0 ELSE age[p]]
        /\ acked' = IF DisableCache THEN {} ELSE (acked \ changed) \cup (changed \cap who)
    BY <1>2 DEF Becomes
  <2>2. \A p \in Paths : p \in changed \/ (files'[p] = "none" <=> files[p] = "none")
    OBVIOUS
  <2> HIDE DEF changed
  <2>3. age' \in [Paths -> 0..MaxAge]
    BY <2>1, Times DEF TreeOK
  <2>4. acked' \in SUBSET (Paths \ {Root})
    BY <2>1 DEF TreeOK
  <2>5. \A p \in Paths : Same(p) \/ age'[p] = 0
    BY <2>1, <2>2 DEF Same
  <2>6. \A p \in acked' : (p \in acked /\ Same(p)) \/ p \in who
    BY <2>1, <2>2 DEF Same, TreeOK
  <2> QED
    BY <2>3, <2>4, <2>5, <2>6 DEF TreeOK, TreeStep
<1> QED
  BY <1>1, <1>2 DEF TreeStep

\* A step that treats the tree and every entry in one of these ways keeps the bounds.
LEMMA StepKeeps ==
  ASSUME CInv, NEW who \in SUBSET (Paths \ {Root}), TreeStep(who),
         NegativeSteps, ListingSteps, MetadataSteps, task'.path \in Paths,
         \A p \in who : Cleared(p)
  PROVE  CInv'
<1> USE DEF CInv, NegativeSteps, ListingSteps, MetadataSteps
<1>1. /\ TreeOK'
      /\ \A p \in Paths : Same(p) \/ age'[p] = 0
      /\ \A p \in acked' : (p \in acked /\ Same(p)) \/ p \in who
  BY TreeStepOK
<1>2. /\ NoListing \in Listings /\ NoMetadata \in Metadata
      /\ \A d \in DirPaths :
           [left |-> ListTTL, paths |-> {p \in Children(d) : Exists(p)}] \in Listings
  BY Times DEF NoListing, NoMetadata, Listings, Metadata, Children
<1>3. EntriesOK'
  <2>1. \A p \in Paths : negative'[p] \in 0..NegTTL
    BY Times DEF NegativeStep, EntriesOK
  <2>2. \A d \in DirPaths : listing'[d] \in Listings
    BY <1>2 DEF ListingStep, EntriesOK
  <2>3. \A p \in Paths : metadata'[p] \in Metadata
    BY <1>2 DEF MetadataStep, EntriesOK
  <2> QED
    BY <2>1, <2>2, <2>3 DEF EntriesOK
<1>4. \A d \in DirPaths : listing[d].left \in 0..ListTTL
  BY DEF EntriesOK, Listings
<1>5. MissingBounded'
  <2> SUFFICES ASSUME NEW p \in Paths, ~DisableCache, negative'[p] > 0, files'[p] # "none"
               PROVE  age'[p] + negative'[p] <= MaxAge
    BY Times DEF MissingBounded, NegativeHit, Exists
  <2>1. negative'[p] \in 0..NegTTL /\ age[p] \in 0..MaxAge /\ negative[p] \in 0..NegTTL
    BY <1>3 DEF EntriesOK, TreeOK
  <2>2. CASE age'[p] = 0
    BY <2>1, <2>2, Times
  <2>3. CASE Same(p)
    <3>1. files[p] # "none" /\ age'[p] = age[p]
      BY <2>3 DEF Same
    <3>2. CASE negative'[p] \in {0, negative[p]}
      <4>1. negative'[p] = negative[p] /\ negative[p] > 0
        BY <3>2, <2>1
      <4> QED
        BY <3>1, <4>1, Times DEF MissingBounded, NegativeHit, Exists
    <3>3. CASE /\ p # Root /\ negative'[p] = NegTTL
               /\ ListingHit(Parent(p)) /\ p \notin listing[Parent(p)].paths
      <4>1. Parent(p) \in DirPaths /\ listing[Parent(p)].left \in 0..ListTTL
        BY <1>4, ParentIsADir
      <4>2. age[p] + listing[Parent(p)].left <= ListTTL
        BY <3>1, <3>3 DEF ListingBounded, Exists
      <4> QED
        BY <2>1, <3>1, <3>3, <4>1, <4>2, Times
    <3> QED
      BY <3>1, <3>2, <3>3 DEF NegativeStep, Exists
  <2> QED
    BY <1>1, <2>2, <2>3
<1>6. ListingBounded'
  <2> SUFFICES ASSUME NEW p \in Paths \ {Root}, ~DisableCache, listing'[Parent(p)].left > 0,
                      (p \in listing'[Parent(p)].paths) # (files'[p] # "none")
               PROVE  age'[p] + listing'[Parent(p)].left <= ListTTL
    BY DEF ListingBounded, ListingHit, Exists
  <2> DEFINE d == Parent(p)
  <2>1. d \in DirPaths /\ age[p] \in 0..MaxAge
    BY ParentIsADir DEF TreeOK
  <2>2. listing'[d].left \in 0..ListTTL
    BY <1>3, <2>1 DEF EntriesOK, Listings
  <2>3. CASE listing'[d] = [left |-> ListTTL, paths |-> {q \in Children(d) : Exists(q)}] /\ files' = files
    <3>1. p \in listing'[d].paths <=> files'[p] # "none"
      BY <2>3 DEF Children, Exists
    <3> QED
      BY <3>1
  <2>4. CASE listing'[d] = NoListing
    BY <2>4 DEF NoListing
  <2>5. CASE listing'[d] = listing[d] /\ Same(p)
    <3>1. (p \in listing[d].paths) # (files[p] # "none") /\ listing[d].left > 0
      BY <2>5 DEF Same
    <3>2. age[p] + listing[d].left <= ListTTL
      BY <3>1 DEF ListingBounded, ListingHit, Exists
    <3> QED
      BY <2>5, <3>2 DEF Same
  <2>6. CASE age'[p] = 0
    BY <2>2, <2>6, Times
  <2> QED
    BY <1>1, <2>1, <2>3, <2>4, <2>5, <2>6 DEF ListingStep
<1>7. MkdirDeleteRenameSeen'
  <2> SUFFICES ASSUME NEW p \in acked', ~DisableCache
               PROVE  /\ negative'[p] > 0 => files'[p] = "none"
                      /\ listing'[Parent(p)].left > 0 =>
                           (p \in listing'[Parent(p)].paths <=> files'[p] # "none")
                      /\ metadata'[p].left > 0 => files'[p] # "none"
    BY DEF MkdirDeleteRenameSeen, NegativeHit, ListingHit, MetadataHit, Exists
  <2> DEFINE d == Parent(p)
  <2>1. p \in Paths \ {Root} /\ d \in DirPaths
    BY <1>1, ParentIsADir DEF TreeOK
  <2>2. CASE p \in who
    BY <2>2 DEF Cleared, NoListing, NoMetadata
  <2>3. CASE p \in acked /\ Same(p)
    <3>1. files'[p] = "none" <=> files[p] = "none"
      BY <2>3 DEF Same
    <3>2. /\ negative[p] > 0 => files[p] = "none"
          /\ listing[d].left > 0 => (p \in listing[d].paths <=> files[p] # "none")
          /\ metadata[p].left > 0 => files[p] # "none"
      BY <2>3 DEF MkdirDeleteRenameSeen, NegativeHit, ListingHit, MetadataHit, Exists
    <3> HIDE DEF d
    <3>3. negative'[p] > 0 => files'[p] = "none"
      <4>1. CASE negative'[p] \in {0, negative[p]}
        BY <3>1, <3>2, <4>1
      <4>2. CASE ~Exists(p)
        BY <3>1, <4>2 DEF Exists
      <4>3. CASE ListingHit(Parent(p)) /\ p \notin listing[Parent(p)].paths
        BY <3>1, <3>2, <4>3 DEF ListingHit, d
      <4> QED
        BY <2>1, <4>1, <4>2, <4>3 DEF NegativeStep
    <3>4. listing'[d].left > 0 => (p \in listing'[d].paths <=> files'[p] # "none")
      <4>1. CASE listing'[d] = [left |-> ListTTL, paths |-> {q \in Children(d) : Exists(q)}] /\ files' = files
        BY <2>1, <4>1 DEF Children, Exists, d
      <4>2. CASE listing'[d] = NoListing
        BY <4>2 DEF NoListing
      <4>3. CASE listing'[d] = listing[d]
        BY <3>1, <3>2, <4>3
      <4> QED
        BY <2>1, <4>1, <4>2, <4>3 DEF ListingStep
    <3>5. metadata'[p].left > 0 => files'[p] # "none"
      BY <2>1, <3>1, <3>2 DEF MetadataStep, NoMetadata
    <3> QED
      BY <3>3, <3>4, <3>5 DEF d
  <2> QED
    BY <1>1, <2>2, <2>3
<1>8. MetadataBounded'
  <2> SUFFICES ASSUME NEW p \in Paths, ~DisableCache, metadata'[p].left > 0, files'[p] = "none"
               PROVE  age'[p] + metadata'[p].left <= MetaTTL
    BY DEF MetadataBounded, MetadataHit, Exists
  <2>1. metadata'[p].left \in 0..MetaTTL /\ age[p] \in 0..MaxAge
    BY <1>3 DEF EntriesOK, Metadata, TreeOK
  <2>2. CASE age'[p] = 0
    BY <2>1, <2>2, Times
  <2>3. CASE Same(p)
    <3>1. files[p] = "none" /\ age'[p] = age[p]
      BY <2>3 DEF Same
    <3>2. metadata'[p] = metadata[p]
      BY DEF MetadataStep, NoMetadata
    <3>3. age[p] + metadata[p].left <= MetaTTL
      BY <3>1, <3>2 DEF MetadataBounded, MetadataHit, Exists
    <3> QED
      BY <3>1, <3>2, <3>3
  <2> QED
    BY <1>1, <2>2, <2>3
<1> QED
  BY <1>1, <1>3, <1>5, <1>6, <1>7, <1>8

-----------------------------------------------------------------------------
LEMMA NegativeSame == ASSUME EntriesOK, negative' = negative PROVE NegativeSteps
BY DEF EntriesOK, NegativeSteps, NegativeStep

LEMMA ListingSame == ASSUME EntriesOK, listing' = listing PROVE ListingSteps
BY DEF EntriesOK, ListingSteps, ListingStep

LEMMA MetadataSame == ASSUME EntriesOK, metadata' = metadata PROVE MetadataSteps
BY DEF EntriesOK, MetadataSteps, MetadataStep

LEMMA CachesSame ==
  ASSUME EntriesOK, UNCHANGED caches
  PROVE  NegativeSteps /\ ListingSteps /\ MetadataSteps
BY NegativeSame, ListingSame, MetadataSame DEF caches

\* The invalidation of a handler.
LEMMA ForgetSteps ==
  ASSUME EntriesOK, NEW ps \in SUBSET Paths, Forget(ps)
  PROVE  /\ NegativeSteps /\ ListingSteps
         /\ \A p \in ps : negative'[p] = 0 /\ listing'[Parent(p)] = NoListing
<1>1. NegativeSteps
  BY DEF Forget, NegativeSteps, NegativeStep
<1>2. ListingSteps
  BY DEF Forget, ListingSteps, ListingStep
<1>3. \A p \in ps : negative'[p] = 0
  BY DEF Forget
<1>4. \A p \in ps : listing'[Parent(p)] = NoListing
  BY ParentIsADir DEF Forget
<1> QED
  BY <1>1, <1>2, <1>3, <1>4

\* One entry of the metadata cache is replaced, by one of a path that exists.
LEMMA MetadataOne ==
  ASSUME EntriesOK, NEW p \in Paths, NEW e \in Metadata,
         metadata' = [metadata EXCEPT ![p] = e],
         e \in {NoMetadata, metadata[p]} \/ files'[p] # "none"
  PROVE  MetadataSteps
BY DEF EntriesOK, MetadataSteps, MetadataStep

\* A missing name is cached, or forgotten.
LEMMA NegativeOne ==
  ASSUME EntriesOK, NEW p \in Paths \ {Root},
         \/ negative' = [negative EXCEPT ![p] = 0]
         \/ /\ negative' = [negative EXCEPT ![p] = NegTTL]
            /\ ~Exists(p) \/ (ListingHit(Parent(p)) /\ p \notin listing[Parent(p)].paths)
  PROVE  NegativeSteps
BY DEF EntriesOK, NegativeSteps, NegativeStep

LEMMA ListingOne ==
  ASSUME EntriesOK, NEW d \in DirPaths, listing' = [listing EXCEPT ![d] = Listed(d)],
         UNCHANGED files
  PROVE  ListingSteps
BY DEF EntriesOK, ListingSteps, ListingStep, Listed

LEMMA EntryOK ==
  ASSUME EntriesOK, NEW p \in Paths, NEW w \in {"none", "dir", "file"}
  PROVE  Entry(p, w) \in Metadata /\ (Entry(p, w) = metadata[p] \/ Entry(p, w).what = w)
BY Times DEF Entry, EntriesOK, Metadata

LEMMA NoneTold == ASSUME NEW S PROVE {} \in SUBSET S /\ \A p \in {} : Cleared(p)
OBVIOUS

LEMMA SameTree == ASSUME TreeOK, UNCHANGED filer PROVE TreeStep({})
BY DEF TreeOK, TreeStep, filer

LEMMA WithPathOK ==
  ASSUME TreeOK, NEW p \in Paths, NEW w \in {"dir", "file"}
  PROVE  WithPath(p, w) \in Tree /\ WithPath(p, w)[p] = w
BY DEF TreeOK, Tree, WithPath

LEMMA BecomesStep ==
  ASSUME NEW new \in Tree, NEW who, Becomes(new, who)
  PROVE  TreeStep(who) /\ files' = new
BY DEF Becomes, TreeStep

-----------------------------------------------------------------------------
(* Steps *)

LEMMA LookupInListingC ==
  ASSUME CInv, NEW p \in Paths \ {Root}, LookupInListing(p)
  PROVE  CInv'
<1>1. NegativeSteps
  BY NegativeOne DEF CInv, LookupInListing
<1>2. ListingSteps /\ MetadataSteps
  BY ListingSame, MetadataSame DEF CInv, LookupInListing
<1>3. task'.path \in Paths
  BY DEF CInv, EntriesOK, LookupInListing
<1>4. TreeStep({})
  BY SameTree DEF CInv, LookupInListing
<1> QED
  BY <1>1, <1>2, <1>3, <1>4, NoneTold, StepKeeps

LEMMA LookupAtFilerC ==
  ASSUME CInv, NEW p \in Paths \ {Root}, LookupAtFiler(p)
  PROVE  CInv'
<1>1. NegativeSteps
  BY NegativeOne DEF CInv, LookupAtFiler
<1>2. ListingSteps /\ MetadataSteps
  BY ListingSame, MetadataSame DEF CInv, LookupAtFiler
<1>3. task'.path \in Paths
  BY DEF CInv, EntriesOK, LookupAtFiler
<1>4. TreeStep({})
  BY SameTree DEF CInv, LookupAtFiler
<1> QED
  BY <1>1, <1>2, <1>3, <1>4, NoneTold, StepKeeps

LEMMA LookupEndsC ==
  ASSUME CInv, LookupEnds
  PROVE  CInv'
<1>1. Parent(task.path) \in DirPaths
  BY ParentIsADir DEF CInv, EntriesOK
<1>2. NegativeSteps /\ MetadataSteps
  BY NegativeSame, MetadataSame DEF CInv, LookupEnds
<1>3. TreeStep({}) /\ UNCHANGED files
  BY SameTree DEF CInv, LookupEnds, filer
<1>4. ListingSteps
  BY <1>1, <1>3, ListingOne, ListingSame DEF CInv, LookupEnds
<1>5. task'.path \in Paths
  BY RootIsAPath DEF LookupEnds, Idle
<1> QED
  BY <1>2, <1>3, <1>4, <1>5, NoneTold, StepKeeps

LEMMA GetattrC ==
  ASSUME CInv, NEW p \in Paths, Getattr(p)
  PROVE  CInv'
<1>1. NegativeSteps /\ ListingSteps
  BY NegativeSame, ListingSame DEF CInv, Getattr
<1>2. TreeStep({}) /\ UNCHANGED files
  BY SameTree DEF CInv, Getattr, filer
<1>3. files[p] \in {"none", "dir", "file"} /\ files[p] # "none"
  BY DEF CInv, TreeOK, Tree, Getattr, Exists
<1>4. MetadataSteps
  BY <1>2, <1>3, EntryOK, MetadataOne DEF CInv, Getattr
<1>5. task'.path \in Paths
  BY DEF CInv, EntriesOK, Getattr
<1> QED
  BY <1>1, <1>2, <1>4, <1>5, NoneTold, StepKeeps

LEMMA ReaddirC ==
  ASSUME CInv, NEW d \in DirPaths, Readdir(d)
  PROVE  CInv'
<1>1. NegativeSteps /\ MetadataSteps
  BY NegativeSame, MetadataSame DEF CInv, Readdir
<1>2. TreeStep({}) /\ UNCHANGED files
  BY SameTree DEF CInv, Readdir, filer
<1>3. ListingSteps
  BY <1>2, ListingOne, ListingSame DEF CInv, Readdir
<1>4. task'.path \in Paths
  BY DEF CInv, EntriesOK, Readdir
<1> QED
  BY <1>1, <1>2, <1>3, <1>4, NoneTold, StepKeeps

LEMMA CreateDirectoryC ==
  ASSUME CInv, NEW p \in DirPaths, CreateDirectory(p)
  PROVE  CInv'
<1>1. p \in Paths /\ p # Root
  BY RootIsAPath DEF CreateDirectory
<1>2. task'.path \in Paths
  BY DEF CInv, EntriesOK, CreateDirectory
<1>3. PICK r \in CallResults :
        /\ Becomes(IF r.applied THEN WithPath(p, "dir") ELSE files, IF r.ok THEN {p} ELSE {})
        /\ IF r.ok
           THEN /\ Forget({p})
                /\ \E found \in {NoMetadata, [left |-> MetaTTL, what |-> "dir"]} :
                     metadata' = [metadata EXCEPT ![p] =
                                    IF DisableCache \/ MetaTTL = 0 THEN NoMetadata ELSE found]
           ELSE UNCHANGED caches
  BY DEF CreateDirectory
<1>4. WithPath(p, "dir") \in Tree /\ WithPath(p, "dir")[p] = "dir" /\ files \in Tree
  BY <1>1, WithPathOK DEF CInv, TreeOK
<1>5. CASE r.ok
  <2>1. Becomes(WithPath(p, "dir"), {p})
    BY <1>3, <1>5 DEF CallResults
  <2>2. TreeStep({p}) /\ files'[p] = "dir"
    BY <1>4, <2>1, BecomesStep
  <2>3. NegativeSteps /\ ListingSteps /\ negative'[p] = 0 /\ listing'[Parent(p)] = NoListing
    BY <1>1, <1>3, <1>5, ForgetSteps DEF CInv
  <2>4. PICK e \in {NoMetadata, [left |-> MetaTTL, what |-> "dir"]} :
          metadata' = [metadata EXCEPT ![p] = e]
    BY <1>3, <1>5
  <2>5. e \in Metadata
    BY Times DEF NoMetadata, Metadata
  <2>6. MetadataSteps
    BY <1>1, <2>2, <2>4, <2>5, MetadataOne DEF CInv
  <2> QED
    BY <1>1, <1>2, <2>2, <2>3, <2>6, StepKeeps DEF Cleared
<1>6. CASE ~r.ok
  <2>1. TreeStep({})
    BY <1>3, <1>4, <1>6, BecomesStep
  <2>2. NegativeSteps /\ ListingSteps /\ MetadataSteps
    BY <1>3, <1>6, CachesSame DEF CInv
  <2> QED
    BY <1>2, <2>1, <2>2, NoneTold, StepKeeps
<1> QED
  BY <1>5, <1>6

LEMMA DeleteC ==
  ASSUME CInv, NEW p \in Paths, Delete(p)
  PROVE  CInv'
<1>1. p # Root /\ task'.path \in Paths
  BY DEF CInv, EntriesOK, Delete
<1>2. PICK r \in CallResults :
        /\ Becomes(WithoutPath(p), IF r.ok THEN {p} ELSE {})
        /\ IF r.ok THEN Forget({p}) /\ metadata' = [metadata EXCEPT ![p] = NoMetadata]
           ELSE UNCHANGED caches
  BY DEF Delete
<1>3. WithoutPath(p) \in Tree
  BY DEF CInv, TreeOK, Tree, WithoutPath
<1>4. CASE r.ok
  <2>1. TreeStep({p})
    BY <1>2, <1>3, <1>4, BecomesStep
  <2>2. NegativeSteps /\ ListingSteps /\ negative'[p] = 0 /\ listing'[Parent(p)] = NoListing
    BY <1>2, <1>4, ForgetSteps DEF CInv
  <2>3. NoMetadata \in Metadata
    BY Times DEF NoMetadata, Metadata
  <2>4. metadata' = [metadata EXCEPT ![p] = NoMetadata]
    BY <1>2, <1>4
  <2>5. MetadataSteps
    BY <2>3, <2>4, MetadataOne DEF CInv
  <2>6. metadata'[p] = NoMetadata
    BY <2>4 DEF CInv, EntriesOK
  <2> QED
    BY <1>1, <2>1, <2>2, <2>5, <2>6, StepKeeps DEF Cleared
<1>5. CASE ~r.ok
  <2>1. TreeStep({})
    BY <1>2, <1>3, <1>5, BecomesStep
  <2>2. NegativeSteps /\ ListingSteps /\ MetadataSteps
    BY <1>2, <1>5, CachesSame DEF CInv
  <2> QED
    BY <1>1, <2>1, <2>2, NoneTold, StepKeeps
<1> QED
  BY <1>4, <1>5

LEMMA RenamedOK ==
  ASSUME TreeOK, NEW src \in Paths, NEW dst
  PROVE  Renamed(src, dst) \in Tree
<1>1. CASE src = dst
  BY <1>1 DEF Renamed, TreeOK
<1>2. CASE src # dst
  <2> DEFINE came(p) == {q \in {src} \cup Below(src) : Moved(q, src, dst) = p}
  <2>1. Renamed(src, dst) =
          [p \in Paths |->
             IF came(p) # {} THEN files[CHOOSE q \in came(p) : TRUE]
             ELSE IF p = src \/ p \in Below(src) THEN "none"
             ELSE IF p = Parent(dst) /\ ~Exists(p) THEN "dir"
             ELSE files[p]]
    BY <1>2 DEF Renamed
  <2>2. \A p \in Paths : came(p) \subseteq Paths
    BY DEF Below
  <2> HIDE DEF came
  <2>3. \A p \in Paths : came(p) # {} => files[CHOOSE q \in came(p) : TRUE] \in {"none", "dir", "file"}
    BY <2>2 DEF TreeOK, Tree
  <2> QED
    BY <2>1, <2>3 DEF TreeOK, Tree
<1> QED
  BY <1>1, <1>2

LEMMA RenameC ==
  ASSUME CInv, NEW src \in Paths, NEW dst \in Paths, Rename(src, dst)
  PROVE  CInv'
<1>1. src # Root /\ dst # Root /\ task'.path \in Paths
  BY DEF CInv, EntriesOK, Rename
<1>2. PICK r \in CallResults :
        /\ Becomes(Renamed(src, dst), IF r.ok THEN {src, dst} ELSE {})
        /\ IF r.ok
           THEN /\ Forget({src, dst})
                /\ metadata' = [metadata EXCEPT ![src] = NoMetadata, ![dst] = NoMetadata]
           ELSE UNCHANGED caches
  BY DEF Rename
<1>3. Renamed(src, dst) \in Tree
  BY RenamedOK DEF CInv
<1>4. CASE r.ok
  <2>1. TreeStep({src, dst})
    BY <1>2, <1>3, <1>4, BecomesStep
  <2>2. /\ NegativeSteps /\ ListingSteps
        /\ \A p \in {src, dst} : negative'[p] = 0 /\ listing'[Parent(p)] = NoListing
    BY <1>2, <1>4, ForgetSteps DEF CInv
  <2>3. metadata' = [metadata EXCEPT ![src] = NoMetadata, ![dst] = NoMetadata]
    BY <1>2, <1>4
  <2>4. MetadataSteps
    BY <2>3 DEF CInv, EntriesOK, MetadataSteps, MetadataStep
  <2>5. \A p \in {src, dst} : metadata'[p] = NoMetadata
    BY <2>3 DEF CInv, EntriesOK
  <2> QED
    BY <1>1, <2>1, <2>2, <2>4, <2>5, StepKeeps DEF Cleared
<1>5. CASE ~r.ok
  <2>1. TreeStep({})
    BY <1>2, <1>3, <1>5, BecomesStep
  <2>2. NegativeSteps /\ ListingSteps /\ MetadataSteps
    BY <1>2, <1>5, CachesSame DEF CInv
  <2> QED
    BY <1>1, <2>1, <2>2, NoneTold, StepKeeps
<1> QED
  BY <1>4, <1>5

LEMMA OpenFileC ==
  ASSUME CInv, NEW h \in Handles, NEW p \in FilePaths, NEW trunc \in BOOLEAN,
         OpenFile(h, p, trunc)
  PROVE  CInv'
<1>1. p \in Paths /\ task'.path \in Paths
  BY FilePathsArePaths DEF CInv, EntriesOK, OpenFile
<1>2. NegativeSteps /\ ListingSteps
  BY NegativeSame, ListingSame DEF CInv, OpenFile
<1>3. WithPath(p, "file") \in Tree /\ WithPath(p, "file")[p] = "file"
  BY <1>1, WithPathOK DEF CInv
<1>4. CASE trunc
  <2>1. TreeStep({}) /\ files'[p] = "file"
    BY <1>3, <1>4, BecomesStep DEF OpenFile
  <2>2. metadata' = [metadata EXCEPT ![p] = Entry(p, "file")] \/ metadata' = metadata
    BY <1>4 DEF OpenFile
  <2>3. MetadataSteps
    BY <1>1, <2>1, <2>2, EntryOK, MetadataOne, MetadataSame DEF CInv
  <2> QED
    BY <1>1, <1>2, <2>1, <2>3, NoneTold, StepKeeps
<1>5. CASE ~trunc
  <2>1. UNCHANGED <<filer, metadata>>
    BY <1>5 DEF OpenFile
  <2>2. TreeStep({}) /\ MetadataSteps
    BY <2>1, SameTree, MetadataSame DEF CInv
  <2> QED
    BY <1>1, <1>2, <2>2, NoneTold, StepKeeps
<1> QED
  BY <1>4, <1>5

\* What the lookup of an exclusive create leaves in the negative cache.
LEMMA NotFoundSteps ==
  ASSUME EntriesOK, NEW p \in Paths \ {Root}, negative' \in NotFound(p)
  PROVE  NegativeSteps
<1>1. \/ negative' = negative
      \/ /\ negative' = [negative EXCEPT ![p] = NegTTL]
         /\ ~Exists(p) \/ (ListingHit(Parent(p)) /\ p \notin listing[Parent(p)].paths)
  BY DEF NotFound
<1> QED
  BY <1>1, NegativeSame, NegativeOne

LEMMA FilesAreNotRoot == \A p \in FilePaths : p \in Paths \ {Root}
BY DEF FilePaths, Paths, Root

LEMMA CreateFileC ==
  ASSUME CInv, NEW h \in Handles, NEW p \in FilePaths, NEW trunc \in BOOLEAN,
         NEW excl \in BOOLEAN, NEW metaOk \in BOOLEAN,
         CreateFile(h, p, excl, trunc, metaOk)
  PROVE  CInv'
<1>1. p \in Paths \ {Root} /\ task'.path \in Paths
  BY FilesAreNotRoot DEF CInv, EntriesOK, CreateFile
<1>2. NegativeSteps
  BY <1>1, NotFoundSteps, NegativeSame DEF CInv, CreateFile
<1>3. ListingSteps
  BY ListingSame DEF CInv, CreateFile
<1>4. WithPath(p, "file") \in Tree /\ WithPath(p, "file")[p] = "file" /\ files \in Tree
  BY <1>1, WithPathOK DEF CInv, TreeOK
<1> DEFINE put == trunc \/ ~metaOk
<1>5. PICK r \in CallResults :
        /\ Becomes(IF put /\ r.applied THEN WithPath(p, "file") ELSE files, {})
        /\ \/ put /\ r.ok /\ metadata' = [metadata EXCEPT ![p] = Entry(p, "file")]
           \/ metadata' = metadata
  BY DEF CreateFile
<1>6. TreeStep({}) /\ (put /\ r.ok => files'[p] = "file")
  BY <1>4, <1>5, BecomesStep DEF CallResults
<1> HIDE DEF put
<1>7. MetadataSteps
  BY <1>1, <1>5, <1>6, EntryOK, MetadataOne, MetadataSame DEF CInv
<1> QED
  BY <1>1, <1>2, <1>3, <1>6, <1>7, NoneTold, StepKeeps

\* Data written through a handle: a PUT may create its path.
LEMMA PutAtStep ==
  ASSUME TreeOK, NEW h \in Handles, NEW sends \in BOOLEAN, PutAt(h, sends)
  PROVE  TreeStep({})
<1>1. PICK applied \in BOOLEAN :
        Becomes(IF sends /\ applied THEN WithPath(Target(h), "file") ELSE files, {})
  BY DEF PutAt
<1>2. WithPath(Target(h), "file") \in Tree /\ files \in Tree
  BY DEF TreeOK, Tree, WithPath
<1> QED
  BY <1>1, <1>2, BecomesStep

LEMMA DataC ==
  ASSUME CInv, HandlesOK, NEW h \in Handles, Write(h) \/ Flush(h) \/ Release(h)
  PROVE  CInv'
<1>1. NegativeSteps /\ ListingSteps /\ MetadataSteps /\ task'.path \in Paths
  BY CachesSame DEF CInv, EntriesOK, Write, Flush, Release
<1>2. TreeStep({})
  <2>1. fh[h].dirty \in BOOLEAN
    BY DEF HandlesOK
  <2> QED
    BY <2>1, SameTree, PutAtStep DEF CInv, Write, Flush, Release
<1> QED
  BY <1>1, <1>2, NoneTold, StepKeeps

LEMMA SetSizeC ==
  ASSUME CInv, NEW ino \in Inodes(imap), SetSize(ino)
  PROVE  CInv'
<1> DEFINE p == PathFor(imap, ino)
<1>1. p \in Paths /\ task'.path \in Paths
  BY FilePathsArePaths DEF CInv, EntriesOK, SetSize
<1>2. NegativeSteps /\ ListingSteps
  BY NegativeSame, ListingSame DEF CInv, SetSize
<1>3. WithPath(p, "file") \in Tree /\ WithPath(p, "file")[p] = "file" /\ files \in Tree
  BY <1>1, WithPathOK DEF CInv, TreeOK
<1>4. PICK r \in CallResults, flushed \in BOOLEAN :
        /\ Becomes(IF flushed \/ r.applied THEN WithPath(p, "file") ELSE files, {})
        /\ \/ r.ok /\ metadata' = [metadata EXCEPT ![p] = Entry(p, "file")]
           \/ UNCHANGED metadata
  BY DEF SetSize
<1> HIDE DEF p
<1>5. TreeStep({}) /\ (r.ok => files'[p] = "file")
  BY <1>3, <1>4, BecomesStep DEF CallResults
<1>6. MetadataSteps
  BY <1>1, <1>4, <1>5, EntryOK, MetadataOne, MetadataSame DEF CInv
<1> QED
  BY <1>1, <1>2, <1>5, <1>6, NoneTold, StepKeeps

LEMMA OtherClientC ==
  ASSUME CInv, NEW p \in Paths, OtherClient(p)
  PROVE  CInv'
<1>1. NegativeSteps /\ ListingSteps /\ MetadataSteps /\ task'.path \in Paths
  BY CachesSame DEF CInv, EntriesOK, OtherClient
<1>2. \A w \in {"dir", "file"} : WithPath(p, w) \in Tree
  BY WithPathOK DEF CInv
<1>3. WithoutPath(p) \in Tree
  BY DEF CInv, TreeOK, Tree, WithoutPath
<1>4. TreeStep({})
  BY <1>2, <1>3, BecomesStep DEF OtherClient
<1> QED
  BY <1>1, <1>4, NoneTold, StepKeeps

\* Time passes for the entries as it does for the changes they miss.
LEMMA TickC ==
  ASSUME CInv, Tick
  PROVE  CInv'
<1> USE DEF CInv
<1>1. /\ negative' = [p \in Paths |-> IF negative[p] = 0 THEN 0 ELSE negative[p] - 1]
      /\ listing' = [d \in DirPaths |-> IF listing[d].left <= 1 THEN NoListing
                                        ELSE [listing[d] EXCEPT !.left = @ - 1]]
      /\ metadata' = [p \in Paths |-> IF metadata[p].left <= 1 THEN NoMetadata
                                      ELSE [metadata[p] EXCEPT !.left = @ - 1]]
      /\ age' = [p \in Paths |-> IF age[p] = MaxAge THEN MaxAge ELSE age[p] + 1]
      /\ UNCHANGED <<files, acked, task>>
  BY DEF Tick, Less
<1>2. /\ files' \in Tree /\ acked' \in SUBSET (Paths \ {Root}) /\ task'.path \in Paths
      /\ \A p \in Paths : age'[p] \in 0..MaxAge /\ age'[p] <= age[p] + 1
  BY <1>1, Times DEF TreeOK, EntriesOK
<1>3. TreeOK'
  BY <1>1, <1>2 DEF TreeOK
<1>4. \A p \in Paths : /\ negative[p] \in 0..NegTTL /\ negative'[p] \in 0..NegTTL
                       /\ negative'[p] > 0 => negative'[p] = negative[p] - 1
  <2> SUFFICES ASSUME NEW p \in Paths
               PROVE  /\ negative[p] \in 0..NegTTL /\ negative'[p] \in 0..NegTTL
                      /\ negative'[p] > 0 => negative'[p] = negative[p] - 1
    OBVIOUS
  <2>1. negative[p] \in 0..NegTTL
    BY DEF EntriesOK
  <2>2. negative'[p] = IF negative[p] = 0 THEN 0 ELSE negative[p] - 1
    BY <1>1
  <2> QED
    BY <2>1, <2>2, Times
<1>5. \A d \in DirPaths :
        /\ listing'[d] \in Listings
        /\ listing'[d].left > 0 => /\ listing'[d].left = listing[d].left - 1
                                   /\ listing'[d].paths = listing[d].paths
                                   /\ listing[d].left > 0
  <2> SUFFICES ASSUME NEW d \in DirPaths
               PROVE  /\ listing'[d] \in Listings
                      /\ listing'[d].left > 0 => /\ listing'[d].left = listing[d].left - 1
                                                 /\ listing'[d].paths = listing[d].paths
                                                 /\ listing[d].left > 0
    OBVIOUS
  <2>1. listing[d] \in [left : 0..ListTTL, paths : SUBSET Paths] /\ listing[d].left \in 0..ListTTL
    BY DEF EntriesOK, Listings
  <2>2. CASE listing[d].left <= 1
    BY <1>1, <2>2, Times DEF NoListing, Listings
  <2>3. CASE ~(listing[d].left <= 1)
    <3>1. listing'[d] = [listing[d] EXCEPT !.left = @ - 1]
      BY <1>1, <2>3
    <3>2. listing[d].left - 1 \in 0..ListTTL
      BY <2>1, <2>3, Times
    <3> QED
      BY <2>1, <2>3, <3>1, <3>2 DEF Listings
  <2> QED
    BY <2>2, <2>3
<1>6. \A p \in Paths : /\ metadata'[p] \in Metadata
                       /\ metadata'[p].left > 0 =>
                            /\ metadata[p].left > 0
                            /\ metadata'[p].left = metadata[p].left - 1
  <2> SUFFICES ASSUME NEW p \in Paths
               PROVE  /\ metadata'[p] \in Metadata
                      /\ metadata'[p].left > 0 =>
                           /\ metadata[p].left > 0
                           /\ metadata'[p].left = metadata[p].left - 1
    OBVIOUS
  <2>1. /\ metadata[p] \in [left : 0..MetaTTL, what : {"none", "dir", "file"}]
        /\ metadata[p].left \in 0..MetaTTL
    BY DEF EntriesOK, Metadata
  <2>2. CASE metadata[p].left <= 1
    BY <1>1, <2>2, Times DEF NoMetadata, Metadata
  <2>3. CASE ~(metadata[p].left <= 1)
    <3>1. metadata'[p] = [metadata[p] EXCEPT !.left = @ - 1]
      BY <1>1, <2>3
    <3>2. metadata[p].left - 1 \in 0..MetaTTL
      BY <2>1, <2>3, Times
    <3> QED
      BY <2>1, <2>3, <3>1, <3>2 DEF Metadata
  <2> QED
    BY <2>2, <2>3
<1>7. EntriesOK'
  BY <1>1, <1>2, <1>4, <1>5, <1>6 DEF EntriesOK
<1>8. MissingBounded'
  <2> SUFFICES ASSUME NEW p \in Paths, ~DisableCache, negative'[p] > 0, files'[p] # "none"
               PROVE  age'[p] + negative'[p] <= NegTTL + ListTTL
    BY DEF MissingBounded, NegativeHit, Exists
  <2>1. age[p] + negative[p] <= NegTTL + ListTTL /\ age[p] \in 0..MaxAge
    BY <1>1, <1>4 DEF MissingBounded, NegativeHit, Exists, TreeOK
  <2> QED
    BY <1>2, <1>4, <2>1, Times
<1>9. ListingBounded'
  <2> SUFFICES ASSUME NEW p \in Paths \ {Root}, ~DisableCache, listing'[Parent(p)].left > 0,
                      (p \in listing'[Parent(p)].paths) # (files'[p] # "none")
               PROVE  age'[p] + listing'[Parent(p)].left <= ListTTL
    BY DEF ListingBounded, ListingHit, Exists
  <2> DEFINE d == Parent(p)
  <2>1. d \in DirPaths /\ age[p] \in 0..MaxAge /\ listing[d].left \in 0..ListTTL
    BY ParentIsADir DEF TreeOK, EntriesOK, Listings
  <2>2. age[p] + listing[d].left <= ListTTL
    BY <1>1, <1>5, <2>1 DEF ListingBounded, ListingHit, Exists
  <2>3. listing'[d].left = listing[d].left - 1 /\ age'[p] <= age[p] + 1 /\ age'[p] \in 0..MaxAge
    BY <1>2, <1>5, <2>1
  <2> HIDE DEF d
  <2>4. age'[p] + listing'[d].left <= ListTTL
    BY <2>1, <2>2, <2>3, Times
  <2> QED
    BY <2>4 DEF d
<1>10. MkdirDeleteRenameSeen'
  <2> SUFFICES ASSUME NEW p \in acked', ~DisableCache
               PROVE  /\ negative'[p] > 0 => files'[p] = "none"
                      /\ listing'[Parent(p)].left > 0 =>
                           (p \in listing'[Parent(p)].paths <=> files'[p] # "none")
                      /\ metadata'[p].left > 0 => files'[p] # "none"
    BY DEF MkdirDeleteRenameSeen, NegativeHit, ListingHit, MetadataHit, Exists
  <2>1. p \in acked /\ p \in Paths /\ Parent(p) \in DirPaths
    BY <1>1, ParentIsADir DEF TreeOK
  <2>2. /\ negative[p] > 0 => files[p] = "none"
        /\ listing[Parent(p)].left > 0 =>
             (p \in listing[Parent(p)].paths <=> files[p] # "none")
        /\ metadata[p].left > 0 => files[p] # "none"
    BY <2>1 DEF MkdirDeleteRenameSeen, NegativeHit, ListingHit, MetadataHit, Exists
  <2>3. negative'[p] > 0 => negative[p] > 0
    BY <1>1, <2>1 DEF EntriesOK
  <2> QED
    BY <1>1, <1>5, <1>6, <2>1, <2>2, <2>3
<1>11. MetadataBounded'
  <2> SUFFICES ASSUME NEW p \in Paths, ~DisableCache, metadata'[p].left > 0, files'[p] = "none"
               PROVE  age'[p] + metadata'[p].left <= MetaTTL
    BY DEF MetadataBounded, MetadataHit, Exists
  <2>1. /\ age[p] \in 0..MaxAge /\ metadata[p].left \in 0..MetaTTL
        /\ age'[p] \in 0..MaxAge /\ age'[p] <= age[p] + 1
    BY <1>2 DEF TreeOK, EntriesOK, Metadata
  <2>2. metadata[p].left > 0 /\ metadata'[p].left = metadata[p].left - 1
    BY <1>6
  <2>3. age[p] + metadata[p].left <= MetaTTL
    BY <1>1, <2>2 DEF MetadataBounded, MetadataHit, Exists
  <2> QED
    BY <2>1, <2>2, <2>3, Times
<1> QED
  BY <1>3, <1>7, <1>8, <1>9, <1>10, <1>11

-----------------------------------------------------------------------------
LEMMA InitC == Init => CInv
<1> SUFFICES ASSUME Init
             PROVE  CInv
  OBVIOUS
<1>1. TreeOK
  BY Times DEF Init, TreeOK, Tree
<1>2. EntriesOK
  BY Times, RootIsAPath DEF Init, EntriesOK, NoListing, NoMetadata, Listings, Metadata, Idle
<1>3. MissingBounded /\ MetadataBounded /\ MkdirDeleteRenameSeen
  BY DEF Init, MissingBounded, MetadataBounded, MkdirDeleteRenameSeen, NegativeHit, MetadataHit, NoMetadata
<1>4. ListingBounded
  BY ParentIsADir DEF Init, ListingBounded, ListingHit, NoListing
<1> QED
  BY <1>1, <1>2, <1>3, <1>4 DEF CInv

LEMMA NextC == IInv /\ CInv /\ [Next]_vars => CInv'
<1> SUFFICES ASSUME IInv, CInv, [Next]_vars
             PROVE  CInv'
  OBVIOUS
<1>1. CASE Lookup
  BY <1>1, LookupInListingC, LookupAtFilerC, LookupEndsC DEF Lookup
<1>2. CASE ReadNames
  BY <1>2, GetattrC, ReaddirC DEF ReadNames
<1>3. CASE ChangeNames
  BY <1>3, CreateDirectoryC, DeleteC, RenameC DEF ChangeNames
<1>4. CASE UseFiles
  BY <1>4, OpenFileC, CreateFileC, DataC DEF UseFiles, IInv
<1>5. CASE Truncate
  BY <1>5, SetSizeC DEF Truncate
<1>6. CASE Environment
  BY <1>6, TickC, OtherClientC DEF Environment
<1>7. CASE UNCHANGED vars
  <2>1. NegativeSteps /\ ListingSteps /\ MetadataSteps /\ task'.path \in Paths
    BY <1>7, CachesSame DEF CInv, EntriesOK, vars
  <2>2. TreeStep({})
    BY <1>7, SameTree DEF CInv, vars
  <2> QED
    BY <2>1, <2>2, NoneTold, StepKeeps
<1> QED
  BY <1>1, <1>2, <1>3, <1>4, <1>5, <1>6, <1>7 DEF Next

LEMMA CachesInvariant == Spec => []CInv
BY InitInv, NextKeepsInv, InitC, NextC, PTL DEF Spec

\* A name that exists is reported missing by the negative cache no longer than both
\* times to live together: an entry made from a cached listing, which may itself be
\* out of date, adds its own.
THEOREM MissingForBothTimes == Spec => []MissingBounded
<1>1. CInv => MissingBounded
  BY DEF CInv
<1> QED
  BY CachesInvariant, <1>1, PTL

\* A listing is out of date for its own time to live only, whoever changes the tree.
THEOREM ListingForItsTime == Spec => []ListingBounded
<1>1. CInv => ListingBounded
  BY DEF CInv
<1> QED
  BY CachesInvariant, <1>1, PTL

\* What is gone is described from the metadata cache for its own time to live only,
\* whoever removed it, and whatever handlers put in or leave there.
THEOREM MetadataForItsTime == Spec => []MetadataBounded
<1>1. CInv => MetadataBounded
  BY DEF CInv
<1> QED
  BY CachesInvariant, <1>1, PTL

\* What an acknowledged mkdir, delete or rename of this mount changed last, no cache
\* contradicts: these three handlers invalidate all that could (create_file does not, and
\* nothing is said of it).
THEOREM MkdirDeleteRenameStick == Spec => []MkdirDeleteRenameSeen
<1>1. CInv => MkdirDeleteRenameSeen
  BY DEF CInv
<1> QED
  BY CachesInvariant, <1>1, PTL

-----------------------------------------------------------------------------
(* Types *)

HandleState == [ino : 0..MaxInode, buffered : BOOLEAN, dirty : BOOLEAN]
InodesOK == /\ \A i \in Inodes(imap) : i >= RootInode
            /\ imap.next_inode >= RootInode /\ imap.next_inode <= MaxInode + 1
UsersOK  == /\ fh \in [Handles -> HandleState]
            /\ task \in [name : {"idle", "lookup"}, path : Paths]
            /\ home \in [Handles -> FilePaths \cup {Nowhere}]
            /\ uprooted \in SUBSET Handles
TInv     == InodesOK /\ UsersOK

\* A method gives out new inodes above the old ones only.
Above(m, n) == /\ \A i \in Inodes(n) : i \in Inodes(m) \/ i >= m.next_inode
               /\ n.next_inode >= m.next_inode

LEMMA GetOrCreateAbove ==
  ASSUME NEW m \in Mappers(Paths), NEW p
  PROVE  Above(m, GetOrCreate(m, p))
BY MapperFields DEF Above, GetOrCreate, Inodes, Put

LEMMA RenamePathAbove ==
  ASSUME NEW m \in Mappers(Paths), Consistent(m), NEW p, NEW q
  PROVE  Above(m, RenamePath(m, p, q))
<1>1. CASE p \notin Known(m)
  BY <1>1, GetOrCreateAbove DEF RenamePath
<1>2. CASE p \in Known(m)
  <2> DEFINE n == RenamePath(m, p, q)
             i == m.path_to_inode[p]
  <2>1. i \in Inodes(m) /\ m.next_inode \in Nat
    BY <1>2, MapperFields DEF Consistent
  <2>2. n = [m EXCEPT !.inode_to_path = Put(@, i, q),
                      !.path_to_inode = Put(Without(@, p), q, i)]
    BY <1>2 DEF RenamePath
  <2>3. n.inode_to_path = Put(m.inode_to_path, i, q) /\ n.next_inode = m.next_inode
    BY <2>2 DEF Mappers
  <2> QED
    BY <2>1, <2>3 DEF Above, Inodes, Put
<1> QED
  BY <1>1, <1>2

LEMMA GaveInodesAbove ==
  ASSUME NEW m \in Mappers(Paths), NEW ps \in SUBSET Paths, NEW n \in GaveInodes(m, ps)
  PROVE  Above(m, n)
<1> DEFINE first == m.next_inode
           last  == first + Cardinality(ps \ Known(m))
<1>1. first \in Nat /\ last \in Nat /\ first <= last
  <2>1. IsFiniteSet(ps \ Known(m))
    BY PathsFinite, FS_Subset
  <2>2. Cardinality(ps \ Known(m)) \in Nat
    BY <2>1, FS_CardinalityType
  <2> QED
    BY <2>2, MapperFields
<1>2. Inodes(n) = Inodes(m) \cup first .. last - 1 /\ n.next_inode = last
  <2> DEFINE new == ps \ Known(m)
             f(order) == [i \in Inodes(m) \cup first .. last - 1 |->
                            IF i < first THEN PathFor(m, i)
                            ELSE CHOOSE p \in new : order[p] = i]
             g(order) == [p \in Known(m) \cup ps |->
                            IF p \in new THEN order[p] ELSE m.path_to_inode[p]]
  <2>1. PICK order : n = [inode_to_path |-> f(order), path_to_inode |-> g(order),
                          next_inode |-> last]
    BY DEF GaveInodes
  <2>2. DOMAIN f(order) = Inodes(m) \cup first .. last - 1
    OBVIOUS
  <2> HIDE DEF f, g, last, first
  <2> QED
    BY <2>1, <2>2 DEF Inodes
<1> QED
  BY <1>1, <1>2 DEF Above

LEMMA InodesStep ==
  ASSUME MapOK, InodesOK, Above(imap, imap'), imap'.next_inode <= MaxInode + 1, MapOK'
  PROVE  InodesOK'
<1>1. imap.next_inode \in Nat /\ imap'.next_inode \in Nat /\ MaxInode \in Nat
  BY MapperFields, Assumptions DEF MapOK, Assumptions
<1>2. Inodes(imap') \subseteq Nat
  BY MapperFields DEF MapOK
<1> QED
  BY <1>1, <1>2 DEF InodesOK, Above, RootInode

\* What the mapper has given out is within the bound.
LEMMA InodesBound ==
  ASSUME NEW m \in Mappers(Paths), Consistent(m), \A i \in Inodes(m) : i >= RootInode,
         m.next_inode <= MaxInode + 1
  PROVE  /\ Inodes(m) \subseteq 1..MaxInode
         /\ \A p \in Known(m) : m.path_to_inode[p] \in 1..MaxInode
<1>1. m.next_inode \in Nat /\ MaxInode \in Nat /\ Inodes(m) \subseteq Nat
  BY MapperFields, Assumptions DEF Assumptions
<1>2. \A i \in Inodes(m) : i < m.next_inode
  BY DEF Consistent
<1>3. Inodes(m) \subseteq 1..MaxInode
  BY <1>1, <1>2 DEF RootInode
<1> QED
  BY <1>3 DEF Consistent

LEMMA NextAbove ==
  ASSUME IInv, Next
  PROVE  Above(imap, imap')
<1>1. imap \in Mappers(Paths) /\ Consistent(imap) /\ imap.next_inode \in Nat
  BY MapperFields DEF IInv, MapOK
<1>2. imap' = imap => Above(imap, imap')
  BY <1>1 DEF Above
<1>3. (\E p : imap' = GetOrCreate(imap, p)) => Above(imap, imap')
  BY <1>1, GetOrCreateAbove
<1>4. (\E p, q : imap' = RenamePath(imap, p, q)) => Above(imap, imap')
  BY <1>1, RenamePathAbove
<1>5. CASE Lookup
  BY <1>5, <1>2, <1>3 DEF Lookup, LookupInListing, LookupAtFiler, LookupEnds
<1>6. CASE ReadNames
  <2>1. ASSUME NEW p \in Paths, Getattr(p)
        PROVE  imap' = imap
    BY <2>1 DEF Getattr
  <2>2. ASSUME NEW d \in DirPaths, Readdir(d)
        PROVE  Above(imap, imap')
    <3>1. listing[d].paths \in SUBSET Paths
      BY DEF IInv, CachesOK
    <3>2. {p \in Children(d) : Exists(p)} \in SUBSET Paths
      BY DEF Children
    <3>3. PICK ps \in SUBSET Paths : imap' \in GaveInodes(imap, ps)
      BY <2>2, <3>1, <3>2 DEF Readdir
    <3> QED
      BY <1>1, <3>3, GaveInodesAbove
  <2> QED
    BY <1>2, <1>6, <2>1, <2>2 DEF ReadNames
<1>7. CASE ChangeNames
  BY <1>7, <1>2, <1>3, <1>4 DEF ChangeNames, CreateDirectory, Delete, Rename
<1>8. CASE UseFiles
  <2>1. ASSUME NEW h \in Handles, NEW p \in FilePaths, NEW trunc \in BOOLEAN, OpenFile(h, p, trunc)
        PROVE  imap' = imap
    BY <2>1 DEF OpenFile
  <2>2. ASSUME NEW h \in Handles, NEW p \in FilePaths, NEW trunc \in BOOLEAN,
               NEW excl \in BOOLEAN, NEW metaOk \in BOOLEAN, CreateFile(h, p, excl, trunc, metaOk)
        PROVE  imap' = GetOrCreate(imap, p)
    BY <2>2 DEF CreateFile
  <2>3. ASSUME NEW h \in Handles, Write(h) \/ Flush(h) \/ Release(h)
        PROVE  imap' = imap
    BY <2>3 DEF Write, Flush, Release
  <2> QED
    BY <1>8, <1>2, <1>3, <2>1, <2>2, <2>3 DEF UseFiles
<1>9. CASE Truncate
  BY <1>9, <1>2 DEF Truncate, SetSize
<1>10. CASE Environment
  BY <1>10, <1>2 DEF Environment, Tick, OtherClient
<1> QED
  BY <1>5, <1>6, <1>7, <1>8, <1>9, <1>10 DEF Next

\* Steps that open nothing and move no file.
LEMMA UsersSame ==
  ASSUME UsersOK, UNCHANGED <<fh, where>>, task' \in [name : {"idle", "lookup"}, path : Paths]
  PROVE  UsersOK'
BY DEF UsersOK, where

LEMMA NowhereIsNoFile == Nowhere \notin FilePaths /\ Nowhere \in DirPaths
BY DEF Nowhere, Root, FilePaths, DirPaths

LEMMA FilesAreNoDirs == FilePaths \cap DirPaths = {}
<1> SUFFICES ASSUME NEW p \in FilePaths, p \in DirPaths
             PROVE  FALSE
  OBVIOUS
<1>1. PICK d \in DirNames : p = <<d>>
  BY NowhereIsNoFile DEF DirPaths, Nowhere
<1>2. PICK x \in FileNames : p = <<x>>
  BY <1>1 DEF FilePaths
<1>3. d = x
  BY <1>1, <1>2
<1> QED
  BY <1>3, Assumptions DEF Assumptions

\* A file goes with a rename of itself or of its directory to where a file can be.
LEMMA MovedOK ==
  ASSUME NEW p \in FilePaths, NEW src \in Paths \ {Root}, NEW dst \in Paths \ {Root},
         src \in DirPaths <=> dst \in DirPaths, p \in {src} \cup Below(src)
  PROVE  Moved(p, src, dst) \in FilePaths
<1>1. CASE p = src
  <2>1. dst \notin DirPaths
    BY <1>1, FilesAreNoDirs
  <2> QED
    BY <1>1, <2>1 DEF Moved, Paths
<1>2. CASE p # src
  <2>1. Len(p) > Len(src) /\ SubSeq(p, 1, Len(src)) = src /\ p \in Below(src)
    BY <1>2 DEF Below
  <2>2. src # <<>>
    BY DEF Root
  <2>3. \/ \E d \in DirNames : src = <<d>>
        \/ \E x \in FileNames : src = <<x>>
        \/ \E d \in DirNames, x \in FileNames : src = <<d, x>>
    BY <2>2 DEF Paths, DirPaths, FilePaths, Root
  <2>4. Len(src) \in {1, 2}
    BY <2>3
  <2>5. PICK d \in DirNames, x \in FileNames : p = <<d, x>>
    BY <2>1, <2>4 DEF FilePaths
  <2>6. Len(src) = 1
    BY <2>1, <2>4, <2>5
  <2>7. src = <<d>>
    <3>1. PICK y : src = <<y>>
      BY <2>3, <2>6
    <3>2. SubSeq(p, 1, 1)[1] = p[1] /\ p[1] = d
      BY <2>5
    <3>3. src = SubSeq(p, 1, 1)
      BY <2>1, <2>6
    <3>4. src[1] = d
      BY <3>2, <3>3
    <3>5. src[1] = y
      BY <3>1
    <3> QED
      BY <3>1, <3>4, <3>5
  <2>8. src \in DirPaths
    BY <2>7 DEF DirPaths
  <2>9. PICK e \in DirNames : dst = <<e>>
    BY <2>8 DEF DirPaths
  <2>10. Moved(p, src, dst) = Append(dst, p[2])
    BY <1>2, <2>1 DEF Moved
  <2>11. Append(<<e>>, x) = <<e, x>>
    BY AppendToOne
  <2>12. Moved(p, src, dst) = <<e, x>>
    BY <2>5, <2>9, <2>10, <2>11
  <2> QED
    BY <2>12 DEF FilePaths
<1> QED
  BY <1>1, <1>2

LEMMA RenameUsers ==
  ASSUME UsersOK, NEW src \in Paths, NEW dst \in Paths, Rename(src, dst)
  PROVE  UsersOK'
<1>1. /\ src # Root /\ dst # Root /\ (src \in DirPaths <=> dst \in DirPaths)
      /\ uprooted' = uprooted \cup {h \in Handles : src # dst /\ home[h] \in Below(src)}
      /\ UNCHANGED <<fh, task>>
  BY DEF Rename
<1>2. PICK r \in CallResults :
        home' = [h \in Handles |->
                   IF src = dst THEN home[h]
                   ELSE IF home[h] \in {src} \cup Below(src)
                   THEN IF r.ok THEN Moved(home[h], src, dst) ELSE Nowhere
                   ELSE IF home[h] = dst THEN Nowhere ELSE home[h]]
  BY DEF Rename
<1>3. ASSUME NEW h \in Handles, home[h] \in {src} \cup Below(src)
      PROVE  Moved(home[h], src, dst) \in FilePaths
  <2>1. home[h] # Nowhere
    <3>1. Len(Nowhere) = 0 /\ \A p \in Paths : Len(p) >= 0
      BY DEF Nowhere, Root, Paths, DirPaths, FilePaths
    <3>2. Nowhere \notin Below(src)
      BY <3>1 DEF Below
    <3> QED
      BY <1>1, <1>3, <3>2 DEF Nowhere
  <2>2. home[h] \in FilePaths
    BY <2>1 DEF UsersOK
  <2> QED
    BY <1>1, <1>3, <2>2, MovedOK
<1>4. home' \in [Handles -> FilePaths \cup {Nowhere}]
  BY <1>2, <1>3 DEF UsersOK
<1> QED
  BY <1>1, <1>4 DEF UsersOK

\* A new handle has an inode of the mapper.
LEMMA AllocateUsers ==
  ASSUME UsersOK, NEW h \in Handles, NEW p \in FilePaths, MapOK', InodesOK',
         imap' = GetOrCreate(imap, p), p \in Known(imap'),
         Allocate(h, p, InodeOf(imap, p)), UNCHANGED task
  PROVE  UsersOK'
<1>1. InodeOf(imap, p) = imap'.path_to_inode[p]
  BY DEF InodeOf
<1>2. imap'.path_to_inode[p] \in 1..MaxInode
  BY InodesBound DEF MapOK, InodesOK
<1>3. MaxInode \in Nat
  BY Assumptions DEF Assumptions
<1> QED
  BY <1>1, <1>2, <1>3 DEF UsersOK, HandleState, Allocate

LEMMA NextUsers ==
  ASSUME IInv, CInv, TInv, Next, MapOK', InodesOK'
  PROVE  UsersOK'
<1> USE DEF TInv
<1>0. /\ Idle \in [name : {"idle", "lookup"}, path : Paths]
      /\ UNCHANGED task => task' \in [name : {"idle", "lookup"}, path : Paths]
  BY RootIsAPath DEF Idle, UsersOK
<1>1. CASE Lookup
  <2>1. UNCHANGED <<fh, where>>
    BY <1>1 DEF Lookup, LookupInListing, LookupAtFiler, LookupEnds
  <2>2. task' \in [name : {"idle", "lookup"}, path : Paths]
    BY <1>0, <1>1 DEF Lookup, LookupInListing, LookupAtFiler, LookupEnds
  <2> QED
    BY <2>1, <2>2, UsersSame
<1>2. CASE ReadNames
  BY <1>0, <1>2, UsersSame DEF ReadNames, Getattr, Readdir
<1>3. CASE ChangeNames
  <2>1. ASSUME NEW p \in DirPaths, CreateDirectory(p)
        PROVE  UsersOK'
    BY <1>0, <2>1, UsersSame DEF CreateDirectory
  <2>2. ASSUME NEW p \in Paths, Delete(p)
        PROVE  UsersOK'
    BY <2>2 DEF Delete, UsersOK
  <2> QED
    BY <1>3, <2>1, <2>2, RenameUsers DEF ChangeNames
<1>4. CASE UseFiles
  <2>1. ASSUME NEW h \in Handles, NEW p \in FilePaths, NEW trunc \in BOOLEAN, OpenFile(h, p, trunc)
        PROVE  UsersOK'
    <3>1. imap' = GetOrCreate(imap, p) /\ p \in Known(imap') /\ UNCHANGED task
      BY <2>1 DEF OpenFile, GetOrCreate
    <3>2. CASE Allocate(h, p, InodeOf(imap, p))
      BY <3>1, <3>2, AllocateUsers
    <3>3. CASE UNCHANGED <<fh, where>>
      BY <1>0, <3>1, <3>3, UsersSame
    <3> QED
      BY <2>1, <3>2, <3>3 DEF OpenFile
  <2>2. ASSUME NEW h \in Handles, NEW p \in FilePaths, NEW trunc \in BOOLEAN,
               NEW excl \in BOOLEAN, NEW metaOk \in BOOLEAN, CreateFile(h, p, excl, trunc, metaOk)
        PROVE  UsersOK'
    <3>1. imap' = GetOrCreate(imap, p) /\ UNCHANGED task
      BY <2>2 DEF CreateFile
    <3>2. p \in Known(imap')
      BY <3>1, CreatedInode, FilePathsArePaths DEF IInv
    <3>3. CASE Allocate(h, p, InodeOf(imap, p))
      BY <3>1, <3>2, <3>3, AllocateUsers
    <3>4. CASE UNCHANGED <<fh, where>>
      BY <1>0, <3>1, <3>4, UsersSame
    <3> QED
      BY <2>2, <3>3, <3>4 DEF CreateFile
  <2>3. ASSUME NEW h \in Handles, Write(h)
        PROVE  UsersOK'
    <3>1. /\ fh' = [fh EXCEPT ![h] = [fh[h] EXCEPT !.buffered = TRUE, !.dirty = TRUE]]
          /\ UNCHANGED <<task, where>>
      BY <2>3 DEF Write, UsersOK, HandleState
    <3> QED
      BY <3>1 DEF UsersOK, HandleState, where
  <2>4. ASSUME NEW h \in Handles, Flush(h)
        PROVE  UsersOK'
    <3>1. /\ fh' = [fh EXCEPT ![h] = [fh[h] EXCEPT !.buffered = FALSE]]
          /\ UNCHANGED <<task, where>>
      BY <2>4 DEF Flush, UsersOK, HandleState
    <3> QED
      BY <3>1 DEF UsersOK, HandleState, where
  <2>5. ASSUME NEW h \in Handles, Release(h)
        PROVE  UsersOK'
    <3>1. NoHandle \in HandleState
      BY Assumptions DEF Assumptions, NoHandle, HandleState
    <3> QED
      BY <2>5, <3>1 DEF Release, UsersOK
  <2> QED
    BY <1>4, <2>1, <2>2, <2>3, <2>4, <2>5 DEF UseFiles
<1>5. CASE Truncate
  <2>1. PICK ino \in Inodes(imap) : SetSize(ino)
    BY <1>5 DEF Truncate
  <2>2. /\ fh' = [h \in Handles |->
                    IF h \in Open /\ fh[h].ino = ino
                    THEN [fh[h] EXCEPT !.buffered = FALSE, !.dirty = FALSE] ELSE fh[h]]
        /\ UNCHANGED <<task, where>>
    BY <2>1 DEF SetSize
  <2> QED
    BY <2>2 DEF UsersOK, HandleState, where
<1>6. CASE Environment
  <2>1. CASE Tick
    BY <1>0, <2>1, UsersSame DEF Tick
  <2>2. ASSUME NEW p \in Paths, OtherClient(p)
        PROVE  UsersOK'
    BY <2>2 DEF OtherClient, UsersOK
  <2> QED
    BY <1>6, <2>1, <2>2 DEF Environment
<1> QED
  BY <1>1, <1>2, <1>3, <1>4, <1>5, <1>6 DEF Next

LEMMA InitT == Init => TInv
<1> SUFFICES ASSUME Init
             PROVE  TInv
  OBVIOUS
<1>1. InodesOK
  BY Assumptions DEF Assumptions, Init, InodesOK, NewMapper, Inodes, RootInode
<1>2. NoHandle \in HandleState
  BY Assumptions DEF Assumptions, NoHandle, HandleState
<1>3. UsersOK
  BY <1>2, RootIsAPath DEF Init, UsersOK, Idle
<1> QED
  BY <1>1, <1>3 DEF TInv

LEMMA NextT == IInv /\ CInv /\ TInv /\ [Next]_vars /\ IInv' => TInv'
<1> SUFFICES ASSUME IInv, CInv, TInv, [Next]_vars, IInv'
             PROVE  TInv'
  OBVIOUS
<1>1. CASE Next
  <2>1. imap'.next_inode <= MaxInode + 1
    BY <1>1 DEF Next
  <2>2. InodesOK'
    BY <1>1, <2>1, NextAbove, InodesStep DEF IInv, TInv
  <2> QED
    BY <1>1, <2>2, NextUsers DEF IInv, TInv
<1>2. CASE UNCHANGED vars
  BY <1>2 DEF vars, TInv, InodesOK, UsersOK, where
<1> QED
  BY <1>1, <1>2

\* Every value of the state has its type: a time left in a cache is within its time
\* to live, and whatever the mapper gives out and handles hold is within the bound.
THEOREM DirTypes == Spec => []TypeOK
<1>1. IInv /\ CInv /\ TInv => TypeOK
  <2> SUFFICES ASSUME IInv, CInv, TInv
               PROVE  TypeOK
    OBVIOUS
  <2>1. imap \in Mappers(Paths) /\ Consistent(imap)
    BY DEF IInv, MapOK
  <2>2. DOMAIN imap = {"inode_to_path", "path_to_inode", "next_inode"}
    BY <2>1 DEF Mappers
  <2>3. /\ Inodes(imap) \subseteq 1..MaxInode
        /\ \A p \in Known(imap) : imap.path_to_inode[p] \in 1..MaxInode
    BY <2>1, InodesBound DEF TInv, InodesOK
  <2>4. Known(imap) \subseteq Paths /\ \A i \in Inodes(imap) : PathFor(imap, i) \in Paths
    BY <2>1, MapperFields
  <2> QED
    BY <2>2, <2>3, <2>4 DEF TypeOK, CInv, TreeOK, Tree, EntriesOK, Listings, Metadata, TInv, UsersOK,
         HandleState
<1> QED
  BY InitInv, NextKeepsInv, InitC, NextC, InitT, NextT, <1>1, PTL DEF Spec
=============================================================================
