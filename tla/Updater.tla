------------------------------ MODULE Updater ------------------------------
(* How a node replaces its own code (node/update.js): manifests signed along a
   chain of keys, a registry that has to have activated the build, an apply
   that awaits between its checks and its copying, the copy of what it
   replaced and the rollback to it.  The copying itself is one turn of the
   process, which only the end of the process can cut short.  Releases are cut
   on different days, so a file name belongs to one release. *)
EXTENDS Integers, FiniteSets

CONSTANTS Releases,     \* 1..n, in the order of their versions
          Items,        \* 1..k, in the order they are copied; 1 is node/
          Contracts,    \* the item that holds the deployed contract set
          CodeItems,    \* the list every updater knows (CODE)
          Ships,        \* Ships[v]: the items of release v ("zip has no node/" else)
          Dated,        \* Dated[v]: the deployedAt of the set it ships
          Signer, RotateTo, Retire,  \* each manifest's key and key changes
          Pinned,       \* the key every install starts from
          Callers,      \* who may ask for an apply: the timer, the operator
          MaxCuts       \* bound: ends of the process while it copies

ASSUME UpdaterAssumption ==
    /\ 1 \in Releases /\ Releases \subseteq Nat \ {0} /\ IsFiniteSet(Releases)
    /\ {1, Contracts} \subseteq CodeItems /\ CodeItems \subseteq Items
    /\ Items = 1..Cardinality(Items) /\ IsFiniteSet(Items)
    /\ Ships \in [Releases -> SUBSET Items] /\ \A v \in Releases : 1 \in Ships[v]
    /\ Dated \in [Releases -> Nat \ {0}]
    /\ MaxCuts \in Nat

Nothing == 0
Fragment == -1  \* an item half copied or half removed: it is there, and is no release's
Keys == {Pinned} \cup {Signer[v] : v \in Releases} \cup UNION {RotateTo[v] : v \in Releases}

VARIABLES
  install,   \* the install: its items, each the release it is from, and its set (0 for none)
  previous,  \* .previous: the same, with ITEMS.json; whole (history): it was written to the end
  running,   \* the release the process runs, Nothing while it is down
  latest,    \* the manifest the process holds
  opening,   \* the manifest whose signature is being checked (one check at a time)
  published, \* the newest release at the channel's address
  keys,      \* data/release-keys.json
  registry,  \* each build on chain
  apply,     \* apply[c]: where c's call is and the release it picked
  applying,  \* the guard
  cuts,
  before     \* history: the install as the last copying found it

updaterVars == <<install, previous, running, latest, opening, published, keys, registry,
                 apply, applying, cuts, before>>

Copy == [Items -> Releases \cup {Nothing, Fragment}]
CodeOf(v) == [i \in Items |-> IF i \in Ships[v] THEN v ELSE Nothing]
Idle == [at |-> "idle", file |-> Nothing]

UpdaterInit ==
    /\ install = [code |-> CodeOf(1), set |-> Dated[1]]
    /\ previous = [code |-> [i \in Items |-> Nothing], set |-> 0, items |-> {}, whole |-> FALSE]
    /\ running = 1 /\ latest = Nothing /\ opening = Nothing /\ published = 1
    /\ keys = [accepted |-> {Pinned}, retired |-> {}]
    /\ registry = [v \in Releases |-> "pending"]
    /\ apply = [c \in Callers |-> Idle]
    /\ applying = FALSE
    /\ cuts = 0
    /\ before = install.code

AcceptedKeys == keys.accepted \ keys.retired

(* check(): the signer is looked up, then the signature is awaited. *)
Fetch ==
    /\ running # Nothing /\ opening = Nothing
    /\ Signer[published] \in AcceptedKeys
    /\ opening' = published
    /\ UNCHANGED <<install, previous, running, latest, published, keys, registry, apply, applying, cuts, before>>

Opened ==
    /\ opening # Nothing
    /\ opening' = Nothing
    /\ LET more == keys.accepted \cup RotateTo[opening]
       IN keys' = [accepted |-> more,
                   retired |-> keys.retired \cup
                                 ((Retire[opening] \ {Signer[opening]}) \cap (more \ keys.retired))]
    /\ latest' = opening
    /\ UNCHANGED <<install, previous, running, published, registry, apply, applying, cuts, before>>

(* The publisher and the ReleaseRegistry: external. *)
Publish ==
    /\ published + 1 \in Releases /\ published' = published + 1
    /\ UNCHANGED <<install, previous, running, latest, opening, keys, registry, apply, applying, cuts, before>>

RegistryMoves(v) ==
    /\ \/ registry[v] = "pending" /\ registry' = [registry EXCEPT ![v] = "active"]
       \/ registry[v] = "active" /\ registry' = [registry EXCEPT ![v] = "revoked"]
    /\ UNCHANGED <<install, previous, running, latest, opening, published, keys, apply, applying, cuts, before>>

(* apply() reads its guard and picks the zip; force applies the release it
   runs once more.  Then it awaits the registry. *)
ApplyAsked(c) ==
    /\ running # Nothing /\ latest # Nothing
    /\ apply[c].at = "idle" /\ ~applying
    /\ latest >= running
    /\ apply' = [apply EXCEPT ![c] = [at |-> "gate", file |-> latest]]
    /\ UNCHANGED <<install, previous, running, latest, opening, published, keys, registry, applying, cuts, before>>

(* The registry's answer; only then the guard is set.  If another manifest
   came meanwhile, it does not know the file and the call fails. *)
ApplyGated(c) ==
    /\ apply[c].at = "gate"
    /\ IF registry[apply[c].file] = "active" /\ latest = apply[c].file
       THEN applying' = TRUE /\ apply' = [apply EXCEPT ![c].at = "download"]
       ELSE apply' = [apply EXCEPT ![c] = Idle] /\ UNCHANGED applying
    /\ UNCHANGED <<install, previous, running, latest, opening, published, keys, registry, cuts, before>>

(* A download fails or its hash is wrong. *)
DownloadFails(c) ==
    /\ apply[c].at = "download"
    /\ applying' = FALSE /\ apply' = [apply EXCEPT ![c] = Idle]
    /\ UNCHANGED <<install, previous, running, latest, opening, published, keys, registry, cuts, before>>

(* keepNewerContracts: the set with the later deployedAt, where there is one. *)
Kept(old, new) == IF old > new /\ new # 0 THEN old ELSE new

(* Mutation: .previous is written as the items are replaced. *)
SavedItems_Late(k) == 0..k
(* The copy of what is replaced is complete before the first item is. *)
SavedItems(k) == Items

Only(list, code) == [i \in Items |-> IF i \in list THEN code[i] ELSE Nothing]

Listed(v) == CodeItems \cup Ships[v]
Saved(v, k) == [code |-> Only(Listed(v) \cap SavedItems(k), install.code), set |-> install.set,
                items |-> Listed(v), whole |-> TRUE]

(* Release v over the install, up to the k-th item. *)
Replaced(v, k) == [i \in Items |-> IF i <= k /\ i \in Ships[v] THEN v ELSE install.code[i]]
SetAfter(v, k) == IF Contracts <= k /\ Contracts \in Ships[v] THEN Dated[v] ELSE install.set

LastRun == CHOOSE k \in Items : \A i \in Items : i <= k

ApplyDone(c) ==
    LET v == apply[c].file
    IN
    /\ apply[c].at = "download"
    /\ previous' = Saved(v, LastRun)
    /\ install' = [code |-> Replaced(v, LastRun), set |-> Kept(install.set, SetAfter(v, LastRun))]
    /\ before' = install.code
    /\ applying' = FALSE /\ apply' = [apply EXCEPT ![c] = Idle]
    /\ UNCHANGED <<running, latest, opening, published, keys, registry, cuts>>

(* The process is gone: what it held in memory is too. *)
Down ==
    /\ running' = Nothing /\ latest' = Nothing /\ opening' = Nothing
    /\ apply' = [c \in Callers |-> Idle] /\ applying' = FALSE

Cut == cuts < MaxCuts /\ cuts' = cuts + 1 /\ Down /\ UNCHANGED <<published, keys, registry>>

(* The item after the k-th may be gone or in pieces. *)
Torn(k, code, list) ==
    {code} \cup {[i \in Items |-> IF i = k + 1 /\ i \in list THEN x ELSE code[i]] :
                   x \in {Nothing, Fragment}}

(* A contracts/ that is gone or in pieces has no set to read. *)
SetIn(code, set) == IF code[Contracts] \in Releases THEN set ELSE 0

(* .previous half removed, in whatever order the directory is read. *)
Remains(gone, torn) ==
    [i \in Items |-> IF i \in gone THEN Nothing
                     ELSE IF i \in torn /\ previous.code[i] # Nothing THEN Fragment
                     ELSE previous.code[i]]
HalfRemoved ==
    \E gone \in SUBSET Items, torn \in {{}} \cup {{i} : i \in Items},
       items \in {previous.items, {}} :
      previous' = [code |-> Remains(gone, torn), items |-> items, whole |-> FALSE,
                   set |-> SetIn(Remains(gone, torn), previous.set)]

(* The process ends while it copies: the old .previous is half removed, or the
   new one holds k items, a piece of the next and no record, or it is whole and
   k items are replaced, the next one perhaps gone or in pieces. *)
ApplyCut(c) ==
    LET v == apply[c].file
    IN
    /\ apply[c].at = "download"
    /\ Cut
    /\ before' = install.code
    /\ \/ HalfRemoved /\ UNCHANGED install
       \/ \E k \in {0} \cup Items :
            /\ \E code \in Torn(k, Only(Listed(v) \cap 0..k, install.code),
                                {i \in Listed(v) : install.code[i] # Nothing}) :
                 previous' = [code |-> code, items |-> {}, whole |-> FALSE,
                              set |-> SetIn(code, install.set)]
            /\ UNCHANGED install
       \/ \E k \in {0} \cup Items :
            /\ previous' = Saved(v, k)
            /\ \E code \in Torn(k, Replaced(v, k), Ships[v]) :
                 install' = [code |-> code, set |-> SetIn(code, SetAfter(v, k))]

(* Recorded as replaced and not in .previous: the update added it. *)
Removes(i) == i \in previous.items

(* The items a rollback goes through: those recorded, or the known ones. *)
PutBack == CodeItems \cup previous.items

RolledBack(k) == [i \in Items |->
    IF i <= k /\ i \in PutBack
    THEN IF previous.code[i] # Nothing THEN previous.code[i]
         ELSE IF Removes(i) THEN Nothing ELSE install.code[i]
    ELSE install.code[i]]
SetBack(k) == IF k < Contracts THEN install.set
              ELSE IF previous.code[Contracts] # Nothing THEN previous.set
              ELSE IF Removes(Contracts) THEN 0 ELSE install.set

MayRollBack == running # Nothing /\ previous.code[1] # Nothing

RollbackDone ==
    /\ MayRollBack
    /\ install' = [code |-> RolledBack(LastRun), set |-> Kept(install.set, SetBack(LastRun))]
    /\ UNCHANGED <<previous, running, latest, opening, published, keys, registry, apply, applying, cuts, before>>

RollbackCut ==
    /\ MayRollBack
    /\ Cut
    /\ \E k \in {0} \cup Items :
         \E code \in Torn(k, RolledBack(k), {i \in PutBack : previous.code[i] # Nothing}) :
           install' = [code |-> code, set |-> SetIn(code, SetBack(k))]
    /\ UNCHANGED <<previous, before>>

(* The launcher: whatever node/ is installed, unless a file of it is missing. *)
Relaunched ==
    /\ install.code[1] \in Releases
    /\ running' = install.code[1] /\ latest' = Nothing /\ opening' = Nothing
    /\ apply' = [c \in Callers |-> Idle] /\ applying' = FALSE
    /\ UNCHANGED <<install, previous, published, keys, registry, cuts, before>>

UpdaterNext ==
    \/ Fetch \/ Opened \/ Publish
    \/ \E v \in Releases : RegistryMoves(v)
    \/ \E c \in Callers : \/ ApplyAsked(c) \/ ApplyGated(c) \/ DownloadFails(c)
                          \/ ApplyDone(c) \/ ApplyCut(c)
    \/ RollbackDone \/ RollbackCut \/ Relaunched

UpdaterSpec == UpdaterInit /\ [][UpdaterNext]_updaterVars

---------------------------------------------------------------------------
(* Properties. *)

UpdaterTypeOK ==
    /\ install \in [code: Copy, set: Nat]
    /\ previous \in [code: Copy, set: Nat, items: SUBSET Items, whole: BOOLEAN]
    /\ {running, latest, opening} \subseteq Releases \cup {Nothing}
    /\ published \in Releases
    /\ keys \in [accepted: SUBSET Keys, retired: SUBSET Keys]
    /\ registry \in [Releases -> {"pending", "active", "revoked"}]
    /\ apply \in [Callers -> [at: {"idle", "gate", "download"}, file: Releases \cup {Nothing}]]
    /\ applying \in BOOLEAN
    /\ cuts \in 0..MaxCuts

Whole(code) == \E v \in Releases : \A i \in Ships[v] : code[i] = v

(* "keep what we replace, so rollback() needs no network": a rollback is there
   and would bring back a whole release, whatever the install looks like. *)
Heals == previous.code[1] # Nothing /\ Whole(RolledBack(LastRun))
Sound == Whole(install.code) /\ (previous.code[1] # Nothing => Heals)

(* The first end of the process in the midst of an apply or a rollback, at
   whatever item, and any later one that finds the install and its rollback
   whole, leaves a whole release on disk: the install, or the one a rollback
   brings back. *)
EndLeavesAWhole ==
    [][cuts' # cuts /\ (cuts = 0 \/ Sound) => (Whole(install.code) \/ Heals)']_updaterVars

(* A rollback that completes restores the code the last copying found, items
   the update added are gone, however often the process ended in between, if
   the copy it restores was written to the end. *)
RollbackUndoes == [][RollbackDone /\ previous.whole => install'.code = before]_updaterVars

(* Code moves forth and back, the deployed contract set only forward, unless
   the process ends in the middle of the copying or a rollback puts back a
   contracts/ that is gone or in pieces. *)
NewestSetStays ==
    [][cuts' = cuts /\ (RollbackDone => SetBack(LastRun) # 0)
         => install'.set >= install.set]_updaterVars

(* Not kept: the same of every rollback.  rollback() asks only whether
   .previous/node is there, and puts back a copy that was cut short over an
   install that was whole. *)
RollbackRestores == [][RollbackDone => install'.code = before]_updaterVars
SetOnlyRises == [][cuts' = cuts => install'.set >= install.set]_updaterVars
=============================================================================
