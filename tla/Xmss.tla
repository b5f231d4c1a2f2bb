-------------------------------- MODULE Xmss --------------------------------
(***************************************************************************)
(* crates/xmss/src/xmss.rs and wots.rs: a key for a range of epochs out of *)
(* 2^LogLifetime, with the nodes outside of the range filled in at random, *)
(* the layers above the split kept in the key, and one subtree below it    *)
(* cached under a mutex for whichever threads sign.                        *)
(***************************************************************************)
EXTENDS TweakHash
CONSTANTS LogLifetime, Chains, ChainLength, TargetSum, MaxRandomizerTrials,
          Messages, Thread, MaxCalls,
          DigitsOf(_) \* the digits in a digest, << >> if a word is too large

ASSUME XmssAssumption ==
  /\ {LogLifetime, Chains, TargetSum, MaxRandomizerTrials, MaxCalls} \subseteq Nat
  /\ ChainLength \in Nat \ {0} /\ "none" \notin Thread

VARIABLES key,     \* the secret key, or NoKey
          cache,   \* the cached subtree, or NoSubtree
          holder,  \* who holds the cache's mutex, or NoThread
          threads, \* per thread, the call it is in
          calls,   \* calls made so far
          signed   \* the signatures that were returned
xmssVars == <<key, cache, holder, threads, calls, signed>>

Epochs    == 0..2^LogLifetime - 1
NoKey     == [made |-> FALSE]
NoSubtree == [index |-> -1]
NoThread  == "none"
Idle      == [at |-> "idle"]
Seed      == <<"seed">>
Param(seed) == <<"param of", seed>>

Shift(n, by) == n \div 2^by
Log2CeilOf(n) == CHOOSE k \in 0..LogLifetime : n <= 2^k /\ \A j \in 0..k - 1 : n > 2^j

-----------------------------------------------------------------------------
(* One-time signatures. *)

Tweaked(pp, type, sub, index, payload) == TweakHashOf(pp, <<type, sub, index>>, payload)

\* As ChainTweak, without the number of the chain.
ChainTweakAlike(epoch, i, step) == <<"CHAIN", step, epoch>>

ChainTweak(epoch, i, step) == <<"CHAIN", i * ChainLength + step, epoch>>

IterateHash(start, steps, pp, epoch, i, startStep) ==
  Iterate(pp, [k \in 1..steps |-> ChainTweak(epoch, i, startStep + k - 1)], start)

WotsSecret(seed, pp, epoch, i) == Tweaked(pp, "PRF", i, epoch, <<seed>>)

WotsPublicKey(seed, pp, epoch) ==
  [i \in 1..Chains |-> IterateHash(WotsSecret(seed, pp, epoch, i), ChainLength - 1, pp, epoch, i, 0)]

WotsHash(tips, pp, epoch) == Tweaked(pp, "WOTS_PK", 0, epoch, tips)

Randomness(seed, pp, message, epoch, trial) == Tweaked(pp, "RANDOMIZER", trial, epoch, <<seed, message>>)

WotsEncode(message, epoch, pp, randomness) ==
  CodewordOf(DigitsOf(Tweaked(pp, "ENCODING", 0, epoch, <<message, randomness>>)), TargetSum)

\* The trial whose randomness encodes, or -1.
FindRandomness(message, epoch, pp, seed) ==
  FirstOf({k \in 0..MaxRandomizerTrials - 1 :
             WotsEncode(message, epoch, pp, Randomness(seed, pp, message, epoch, k)) # << >>})

WotsSign(seed, pp, message, epoch, randomness) ==
  LET encoding == WotsEncode(message, epoch, pp, randomness)
  IN  [tips |-> [i \in 1..Chains |->
                   IterateHash(WotsSecret(seed, pp, epoch, i), encoding[i], pp, epoch, i, 0)],
       randomness |-> randomness]

RecoverPublicKey(wots, encoding, pp, epoch) ==
  [i \in 1..Chains |->
     IterateHash(wots.tips[i], ChainLength - 1 - encoding[i], pp, epoch, i, encoding[i])]

-----------------------------------------------------------------------------
(* The tree.  A layer is a function on the indices of the nodes in range. *)

MerkleTweak(level, index) == <<"MERKLE", level, index>>
MerkleNode(pp, level, index, left, right) == TweakHashOf(pp, MerkleTweak(level, index), <<left, right>>)
RandomNode(seed, pp, level, index) == Tweaked(pp, "FILLER", level, index, <<seed>>)

LeafLayer(seed, pp, first, last) ==
  [e \in first..last |-> WotsHash(WotsPublicKey(seed, pp, e), pp, e)]

BuildUp(seed, pp, bottom, first, last, from, to) ==
  LET layers[level \in from..to] ==
        IF level = from THEN bottom
        ELSE LET child(c) == IF c \in Shift(first, level - 1)..Shift(last, level - 1)
                             THEN layers[level - 1][c]
                             ELSE RandomNode(seed, pp, level - 1, c)
             IN  [n \in Shift(first, level)..Shift(last, level) |->
                    MerkleNode(pp, level, n, child(2 * n), child(2 * n + 1))]
  IN  layers

SubtreeBounds(first, last, split, index) ==
  [first |-> IF first > index * 2^split THEN first ELSE index * 2^split,
   last  |-> IF last < (index + 1) * 2^split - 1 THEN last ELSE (index + 1) * 2^split - 1]

BuildSubtree(seed, pp, bounds, to) ==
  BuildUp(seed, pp, LeafLayer(seed, pp, bounds.first, bounds.last), bounds.first, bounds.last, 0, to)

\* The nodes at the split, then what is above them.
KeyGen(first, last) ==
  /\ key = NoKey /\ first <= last
  /\ LET pp    == Param(Seed)
         split == (Log2CeilOf(last - first + 1) + 1) \div 2
         roots == [i \in Shift(first, split)..Shift(last, split) |->
                     BuildSubtree(Seed, pp, SubtreeBounds(first, last, split, i), split)[split][i]]
     IN  key' = [made |-> TRUE, first |-> first, last |-> last, split |-> split, seed |-> Seed, param |-> pp,
                 top |-> BuildUp(Seed, pp, roots, first, last, split, LogLifetime)]
  /\ UNCHANGED <<cache, holder, threads, calls, signed>>

Root == key.top[LogLifetime][0]

-----------------------------------------------------------------------------
(* Calls. *)

Return(t) == threads' = [threads EXCEPT ![t] = Idle]

\* Out of range, or no randomness encodes: an error.
SignCall(t, message, epoch) ==
  /\ key # NoKey /\ threads[t] = Idle /\ calls < MaxCalls
  /\ calls' = calls + 1
  /\ LET trial == FindRandomness(message, epoch, key.param, key.seed)
     IN  IF epoch \notin key.first..key.last \/ trial = -1 THEN Return(t)
         ELSE threads' = [threads EXCEPT ![t] =
                [at |-> "lock", for |-> "sign", message |-> message, epoch |-> epoch, proof |-> << >>,
                 wots |-> WotsSign(key.seed, key.param, message, epoch,
                                   Randomness(key.seed, key.param, message, epoch, trial))]]
  /\ UNCHANGED <<key, cache, holder, signed>>

Prepare(t, epoch) ==
  /\ key # NoKey /\ threads[t] = Idle /\ calls < MaxCalls
  /\ calls' = calls + 1
  /\ epoch \in key.first..key.last
  /\ threads' = [threads EXCEPT ![t] = [at |-> "lock", for |-> "prepare", epoch |-> epoch]]
  /\ UNCHANGED <<key, cache, holder, signed>>

\* The subtree of the epoch, if the cache does not have it.
SubtreeFor(epoch) ==
  LET index == Shift(epoch, key.split)
  IN  IF cache.index = index THEN cache
      ELSE [index |-> index,
            layers |-> BuildSubtree(key.seed, key.param,
                                    SubtreeBounds(key.first, key.last, key.split, index), key.split)]

\* As CachedBottomSubtree, with the mutex let go of before the subtree is read.
CachedBottomSubtreeLetGo(t) ==
  /\ threads[t].at = "lock" /\ holder = NoThread
  /\ cache' = SubtreeFor(threads[t].epoch)
  /\ IF threads[t].for = "prepare" THEN Return(t) ELSE threads' = [threads EXCEPT ![t].at = "read"]
  /\ UNCHANGED <<key, holder, calls, signed>>

\* The mutex is taken and goes with the subtree; preparing drops it at once.
CachedBottomSubtree(t) ==
  /\ threads[t].at = "lock" /\ holder = NoThread
  /\ cache' = SubtreeFor(threads[t].epoch)
  /\ IF threads[t].for = "prepare" THEN Return(t) /\ UNCHANGED holder
     ELSE threads' = [threads EXCEPT ![t].at = "read"] /\ holder' = t
  /\ UNCHANGED <<key, calls, signed>>

MerkleSibling(level, neighbour) ==
  LET bounds == IF level >= key.split THEN [first |-> key.first, last |-> key.last]
                ELSE SubtreeBounds(key.first, key.last, key.split, cache.index)
      layer  == IF level >= key.split THEN key.top[level] ELSE cache.layers[level]
  IN  IF neighbour \in Shift(bounds.first, level)..Shift(bounds.last, level)
      THEN layer[neighbour] ELSE RandomNode(key.seed, key.param, level, neighbour)

ReadSibling(t) ==
  /\ threads[t].at = "read" /\ Len(threads[t].proof) < LogLifetime
  /\ LET level == Len(threads[t].proof)
         node  == Shift(threads[t].epoch, level)
     IN  threads' = [threads EXCEPT ![t].proof =
                       Append(@, MerkleSibling(level, IF node % 2 = 0 THEN node + 1 ELSE node - 1))]
  /\ UNCHANGED <<key, cache, holder, calls, signed>>

SignReturns(t) ==
  /\ threads[t].at = "read" /\ Len(threads[t].proof) = LogLifetime
  /\ holder' = IF holder = t THEN NoThread ELSE holder
  /\ signed' = signed \cup {[message |-> threads[t].message, epoch |-> threads[t].epoch,
                             wots |-> threads[t].wots, proof |-> threads[t].proof]}
  /\ Return(t)
  /\ UNCHANGED <<key, cache, calls>>

XmssVerify(root, pp, message, s, epoch) ==
  LET encoding == WotsEncode(message, epoch, pp, s.wots.randomness)
  IN  IF encoding = << >> THEN "invalid wots"
      ELSE IF FoldPath(pp, [level \in 1..Len(s.proof) |-> MerkleTweak(level, Shift(epoch, level))],
                       WotsHash(RecoverPublicKey(s.wots, encoding, pp, epoch), pp, epoch), epoch, s.proof) = root
           THEN "ok" ELSE "invalid merkle path"

-----------------------------------------------------------------------------
XmssInit ==
  /\ key = NoKey /\ cache = NoSubtree /\ holder = NoThread
  /\ threads = [t \in Thread |-> Idle] /\ calls = 0 /\ signed = {}

XmssNext ==
  \/ \E first, last \in Epochs : KeyGen(first, last)
  \/ \E t \in Thread :
       \/ \E message \in Messages, epoch \in Epochs : SignCall(t, message, epoch)
       \/ \E epoch \in Epochs : Prepare(t, epoch)
       \/ CachedBottomSubtree(t) \/ ReadSibling(t) \/ SignReturns(t)

-----------------------------------------------------------------------------
(* Every signature that was returned verifies under the key, at its epoch  *)
(* and for its message, whichever subtrees other threads had put in the    *)
(* cache meanwhile and wherever the range of the key ends (xmss.rs:244).   *)
SignaturesVerify ==
  \A s \in signed : XmssVerify(Root, key.param, s.message, s, s.epoch) = "ok"

\* The digests of the key and of what was returned, down to the secrets.  A tweak
\* for a message is no promise: the trials of one epoch share it.
XmssReturned ==
  {Root} \cup (UNION {ToSet(s.wots.tips) \cup ToSet(s.proof) : s \in signed})
XmssHashed == IF key = NoKey THEN {} ELSE HashedIn(XmssReturned, LogLifetime + ChainLength)
=============================================================================
