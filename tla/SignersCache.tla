---------------------------- MODULE SignersCache ----------------------------
(***************************************************************************)
(* crates/rec_aggregation/src/signers_cache.rs: the signers that tests and *)
(* benchmarks use, kept in a process under a mutex and between processes   *)
(* in a file that is written in place.  Bytes are units: of an XMSS file   *)
(* its head with the version and the count, and two halves of each signer; *)
(* of a SPHINCS file the halves alone.                                     *)
(***************************************************************************)
EXTENDS Integers, Sequences, SequencesExt, FiniteSets
CONSTANTS Process, MaxSigners, MaxFailures,
          Kind,    \* subset of {"xmss", "sphincs"}
          StaleFrom \* an older build's file has signers that verify up to here

ASSUME CacheAssumption ==
  /\ Kind \subseteq {"xmss", "sphincs"}
  /\ MaxSigners \in Nat /\ StaleFrom \in Nat

VARIABLES kind,     \* which of the two caches, that have nothing in common
          file,     \* its units, or Absent
          procs,    \* per process, its pool and where its call is
          failures, \* crashes and failed writes so far
          returned  \* what calls have returned
cacheVars == <<kind, file, procs, failures, returned>>

Absent == << <<"absent", 0>> >>
FileHead(count) == <<"head", count>>
Half(which, signer) == <<which, signer>>

Valid(i) == [signer |-> i, verifies |-> TRUE]
Stale(i) == [signer |-> i, verifies |-> FALSE]
NoSigner == [signer |-> 0, verifies |-> FALSE] \* what zeros decode to
Hole == <<"zeros", NoSigner>>

Waiting(pool) == [at |-> "idle", pool |-> pool]

Serialized(signers) ==
  (IF kind = "xmss" THEN <<FileHead(Len(signers))>> ELSE << >>)
    \o FlattenSeq([i \in 1..Len(signers) |-> <<Half("first", signers[i]), Half("last", signers[i])>>])

\* The signers in a row of units, as far as there are whole ones; halves of two
\* are no signer.
Decoded(units) ==
  [i \in 1..Len(units) \div 2 |->
     IF units[2 * i - 1][2] = units[2 * i][2] THEN units[2 * i][2] ELSE NoSigner]

\* Signers up to the first that does not verify.
Verifying(signers) ==
  LET bad == {i \in 1..Len(signers) : ~signers[i].verifies}
  IN  IF bad = {} THEN signers
      ELSE SubSeq(signers, 1, (CHOOSE i \in bad : \A j \in bad : i <= j) - 1)

\* As TryLoad, trusting what was read.
TryLoadUnverified(units) ==
  IF kind = "sphincs" THEN Decoded(units)
  ELSE IF units = << >> \/ units[1] = Hole \/ Len(units) - 1 < 2 * units[1][2] THEN << >>
  ELSE Decoded(SubSeq(units, 2, 2 * units[1][2] + 1))

\* An XMSS file that is too short for its count is nothing; a SPHINCS file is
\* read as far as it has whole records.
TryLoad(units) ==
  IF kind = "sphincs" THEN Verifying(Decoded(units))
  ELSE IF units = << >> \/ units[1] = Hole \/ Len(units) - 1 < 2 * units[1][2] THEN << >>
  ELSE Verifying(Decoded(SubSeq(units, 2, 2 * units[1][2] + 1)))

-----------------------------------------------------------------------------
(* A call of get_signers_at or get_sphincs_signers, in a process: the mutex *)
(* of the pool is held all through it.                                      *)

Change(p, call) == procs' = [procs EXCEPT ![p] = call]

ReturnSigners(p, n, pool) ==
  /\ Change(p, Waiting(pool))
  /\ returned' = returned \cup {[n |-> n, signers |-> SubSeq(pool, 1, n)]}

GetSigners(p, n) ==
  /\ procs[p].at = "idle"
  /\ IF Len(procs[p].pool) >= n THEN ReturnSigners(p, n, procs[p].pool)
     ELSE Change(p, [at |-> "read", pool |-> procs[p].pool, n |-> n, units |-> << >>]) /\ UNCHANGED returned
  /\ UNCHANGED <<kind, file, failures>>

\* The file is read piece by piece while others may write it.
ReadFile(p) ==
  LET c == procs[p]
  IN  /\ c.at = "read" /\ file # Absent /\ Len(c.units) < Len(file)
      /\ Change(p, [c EXCEPT !.units = Append(@, file[Len(@) + 1])])
      /\ UNCHANGED <<kind, file, failures, returned>>

\* At the end of the file: what is on disk if it is more, and what is missing
\* computed.
LoadAndGenerate(p) ==
  LET c    == procs[p]
      disk == TryLoad(c.units)
      pool == IF Len(disk) > Len(c.pool) THEN disk ELSE c.pool
  IN  /\ c.at = "read" /\ (file = Absent \/ Len(c.units) >= Len(file))
      /\ IF Len(pool) >= c.n THEN ReturnSigners(p, c.n, pool)
         ELSE /\ Change(p, [at |-> "open", n |-> c.n,
                               pool |-> pool \o [i \in 1..c.n - Len(pool) |-> Valid(Len(pool) + i)]])
              /\ UNCHANGED returned
      /\ UNCHANGED <<kind, file, failures>>

\* The file is cut to nothing, then written from the start.
OpenFile(p) ==
  LET c == procs[p]
  IN  /\ c.at = "open"
      /\ file' = << >>
      /\ Change(p, [at |-> "write", n |-> c.n, pool |-> c.pool, offset |-> 0])
      /\ UNCHANGED <<kind, failures, returned>>

\* A file that another process has cut meanwhile gets a hole.
WriteFile(p) ==
  LET c    == procs[p]
      all  == Serialized(c.pool)
      size == IF Len(file) > c.offset THEN Len(file) ELSE c.offset + 1
  IN  /\ c.at = "write" /\ c.offset < Len(all)
      /\ file' = [i \in 1..size |-> IF i = c.offset + 1 THEN all[i]
                                    ELSE IF i <= Len(file) THEN file[i] ELSE Hole]
      /\ Change(p, [c EXCEPT !.offset = @ + 1])
      /\ UNCHANGED <<kind, failures, returned>>

Saved(p) ==
  LET c == procs[p]
  IN  /\ c.at = "write" /\ c.offset = Len(Serialized(c.pool))
      /\ ReturnSigners(p, c.n, c.pool)
      /\ UNCHANGED <<kind, file, failures>>

\* A warning is printed and the file left as it is.
SaveFails(p) ==
  /\ procs[p].at \in {"open", "write"} /\ failures < MaxFailures
  /\ failures' = failures + 1
  /\ ReturnSigners(p, procs[p].n, procs[p].pool)
  /\ UNCHANGED <<kind, file>>

\* The process ends, wherever it is; another starts with empty pools.
Crash(p) ==
  /\ failures < MaxFailures
  /\ failures' = failures + 1
  /\ procs' = [procs EXCEPT ![p] = Waiting(<< >>)]
  /\ UNCHANGED <<kind, file, returned>>

-----------------------------------------------------------------------------
\* There is no file, or one of an older build of which signers no longer verify.
OldFile(n) ==
  Serialized([i \in 1..n |-> IF i >= StaleFrom THEN Stale(i) ELSE Valid(i)])

CacheInit ==
  /\ kind \in Kind
  /\ file \in {Absent, OldFile(MaxSigners)}
  /\ procs = [p \in Process |-> Waiting(<< >>)]
  /\ failures = 0 /\ returned = {}

CacheNext ==
  \E p \in Process :
    \/ Crash(p)
    \/ \E n \in 1..MaxSigners : GetSigners(p, n)
    \/ ReadFile(p) \/ LoadAndGenerate(p)
    \/ OpenFile(p) \/ WriteFile(p) \/ Saved(p) \/ SaveFails(p)

CacheSpec == CacheInit /\ [][CacheNext]_cacheVars

-----------------------------------------------------------------------------
(* A call that asked for n signers gets the first n, in their order, each  *)
(* with a signature that verifies: after a crash in the write, with two    *)
(* processes writing the file at once, while another reads it, and with a  *)
(* file left by an older build (signers_cache.rs:105, 127, 167, 284).      *)
ReturnedSignersVerify ==
  \A r \in returned : r.signers = [i \in 1..r.n |-> Valid(i)]
=============================================================================
