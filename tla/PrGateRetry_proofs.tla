------------------------ MODULE PrGateRetry_proofs ------------------------
(***************************************************************************)
(* About the retry of a lost runner and what is left of a diff's jobs.     *)
(* When all jobs have ended, one failure included, no check looks at work  *)
(* and no retry is left authorised or reserved; and a diff is retried      *)
(* once, in a fork too.  For any number of checks, child runs, jobs,       *)
(* pushes and, for the second, failures.                                   *)
(***************************************************************************)
EXTENDS PrGateRefinement_proofs

-----------------------------------------------------------------------------
(* The inductive invariant.  A check that may not stay as it is has a job  *)
(* that will settle it, and that one failure does not keep from it: what   *)
(* fails first leads to the steps that run always(), and those do not fail *)
(* a second time.                                                          *)

Moving == {"evaluating", "authorized", "preparing", "running"}

\* A job in these phases has its check among those that are not finalized.
Minding == Preparing \cup Attending

\* These phases settle the check only where a failure has led to them.
Aftermath == {"retry", "reserve", "unretry", "cleanup", "abandon"}

\* The current check looks at work, or is reserved for a retry.
Loose(cs) ==
    LET n == Len(cs) IN
    /\ n # 0
    /\ \/ cs[n].phase \in Moving
       \/ cs[n].phase = "reserved" /\ n > 1 /\ Lost(cs[n - 1])

\* The current check authorises a retry.
Licensed(cs) == Len(cs) # 0 /\ Lost(cs[Len(cs)])

Tends(r, cs, f) ==
    /\ r.pc \in Minding \cup Aftermath
    /\ Len(cs) \in r.open
    /\ r.pc \in Aftermath => f # 0

\* The replacement was created although the job has not been told.
Replaces(r, cs, f) ==
    LET n == Len(cs) IN
    /\ r.pc = "unretry" /\ f # 0
    /\ n > 1 /\ r.check = n - 1
    /\ cs[n].phase = "reserved" /\ r.run = cs[n - 1].run

\* Who holds the licence takes it up or gives it back; a verdict that was written although
\* the answer said otherwise is overwritten.
Owes(r, cs, f) ==
    /\ r.pc \in {"retry", "reserve", "unretry", "fail"}
    /\ r.check = Len(cs) /\ r.run = cs[Len(cs)].run
    /\ r.pc \in {"unretry", "fail"} => f # 0

Settles(r, cs, f) ==
    /\ Loose(cs) => Tends(r, cs, f) \/ Replaces(r, cs, f)
    /\ Licensed(cs) => Owes(r, cs, f)

\* What is retried stays a lost runner unless it is cancelled.
Retries(r, cs) ==
    Retrying(r) => Len(cs) > 1 /\ (Lost(cs[Len(cs) - 1]) \/ Cancelled(cs[Len(cs) - 1]))

\* Only the first lost runner of a diff authorises a retry, and with the verdict.
Authorises(r) ==
    /\ r.pc \in {"confirm", "close"} /\ r.retry = "child-cancelled" =>
          ~Retrying(r) /\ r.conclusion = "failure"
    /\ r.pc = "close" /\ r.retry = "child-cancelled" => r.auth
    /\ r.pc = "fail" => r.retry # "child-cancelled"

\* A seed works on no check.
Seeds(r) ==
    r.kind = "seed" /\ Busy(r) => r.open = {} /\ r.pc \in {"live", "ensure", "create", "cleanup"}

Minds(r, cs) ==
    /\ r.pc \in Minding => r.check \in r.open /\ Retries(r, cs)
    /\ r.pc = "reserve" => Lost(cs[Len(cs)]) \/ Cancelled(cs[Len(cs)])
    /\ r.pc \in {"live", "ensure", "create"} => ~Retrying(r)
    /\ Authorises(r) /\ Seeds(r)

ChecksTidy(cs) ==
    \A k \in 1..Len(cs) :
        /\ Lost(cs[k]) => Retryable(cs[k])
        /\ cs[k].phase = "reserved" => cs[k].run = 0

\* At most one call or step has failed, no job was lost, and the history is readable.
Steady == Undisturbed /\ HistoryOk

Tidy ==
    /\ ChecksTidy(checks)
    /\ \A j \in 1..MaxJobs : Minds(jobs[j], checks)
    /\ Steady =>
          /\ Loose(checks) =>
                \E j \in 1..MaxJobs : \/ Tends(jobs[j], checks, faults)
                                      \/ Replaces(jobs[j], checks, faults)
          /\ Licensed(checks) => \E j \in 1..MaxJobs : Owes(jobs[j], checks, faults)


-----------------------------------------------------------------------------
(* What settles the current check.                                         *)

LEMMA PhasesMind ==
    ASSUME NEW pc, pc \in Minding \cup Aftermath
    PROVE  pc \notin {"idle", "done", "vanished", "cancel_runs", "cancel_checks",
                      "live", "ensure", "create"}
BY DEF Minding, Aftermath, Preparing, Attending

\* Only a job of the group settles anything ...
LEMMA OnlyBusySettles ==
    ASSUME NEW r, NEW cs, NEW f, ~Busy(r)
    PROVE  ~Tends(r, cs, f) /\ ~Replaces(r, cs, f) /\ ~Owes(r, cs, f)
BY PhasesMind DEF Busy, Tends, Replaces, Owes

\* ... and what it minds depends on the checks only while it is at work.
LEMMA MindsWhenAway ==
    ASSUME NEW r, NEW cs, ~Busy(r)
    PROVE  Minds(r, cs)
BY PhasesMind DEF Busy, Minds, Authorises, Seeds

LEMMA NothingToSettle ==
    ASSUME NEW cs, ~Loose(cs), ~Licensed(cs), NEW s, NEW f
    PROVE  Settles(s, cs, f)
BY DEF Settles

\* A job that starts leaves nothing to settle behind it, or nothing was there.
LEMMA StartingSettles ==
    ASSUME NEW r, NEW cs, NEW f, r.pc \notin Minding \cup Aftermath, Settles(r, cs, f)
    PROVE  ~Loose(cs) /\ ~Licensed(cs)
<1>1. r.pc \notin {"retry", "reserve", "unretry", "fail"}
  BY DEF Minding, Aftermath, Attending
<1>2. QED
  BY <1>1 DEF Settles, Tends, Replaces, Owes

\* No licence is out while the verdict is still to be written.
LEMMA MindingSettles ==
    ASSUME NEW r, NEW cs, NEW f, r.pc \in Minding, Settles(r, cs, f), r.pc # "fail" \/ f = 0
    PROVE  /\ ~Licensed(cs)
           /\ Loose(cs) => Len(cs) \in r.open
<1>1. r.pc \notin {"retry", "reserve", "unretry"}
  BY DEF Minding, Preparing, Attending
<1>2. QED
  BY <1>1 DEF Settles, Tends, Replaces, Owes

\* The steps that run always() have a failure behind them.
LEMMA AftermathSettles ==
    ASSUME NEW r, NEW cs, r.pc \in {"unretry", "cleanup", "abandon"}, Settles(r, cs, 0)
    PROVE  ~Loose(cs) /\ ~Licensed(cs)
<1>1. r.pc \in Aftermath /\ r.pc \notin {"retry", "reserve", "fail"}
  BY DEF Aftermath
<1>2. QED
  BY <1>1 DEF Settles, Tends, Replaces, Owes

\* Whoever holds the current check among those not finalized settles it.
LEMMA HolderSettles ==
    ASSUME NEW s, NEW cs, NEW f, s.pc \in Minding \cup Aftermath, ~Licensed(cs),
           Loose(cs) => Len(cs) \in s.open, s.pc \in Aftermath => f # 0
    PROVE  Settles(s, cs, f)
BY DEF Settles, Tends

\* A licence passes on with the phase.
LEMMA LicenceSettles ==
    ASSUME NEW r, NEW s, NEW cs, NEW f, NEW g,
           r.pc \in {"retry", "reserve"}, s.pc \in {"reserve", "unretry"},
           s.open = r.open, s.check = r.check, s.run = r.run,
           f # 0 => g # 0, s.pc = "unretry" => g # 0, Settles(r, cs, f)
    PROVE  Settles(s, cs, g)
<1>1. s.pc \in Aftermath
  BY DEF Aftermath
<1>2. Loose(cs) => Tends(s, cs, g)
  <2>1. r.pc \in Aftermath /\ r.pc # "unretry"
    BY DEF Aftermath
  <2>2. QED
    BY <1>1, <2>1 DEF Settles, Tends, Replaces
<1>3. Licensed(cs) => Owes(s, cs, g)
  BY DEF Settles, Owes
<1>4. QED
  BY <1>2, <1>3 DEF Settles

-----------------------------------------------------------------------------
(* The shape of a step of a job that leaves nothing behind.                *)

Tidies(j) ==
    \E s : /\ jobs' = [jobs EXCEPT ![j] = s]
           /\ Minds(s, checks') /\ ChecksTidy(checks')
           /\ HistoryOk' /\ faults' <= 1 /\ s.pc # "vanished" =>
                 HistoryOk /\ (Settles(jobs[j], checks, faults) => Settles(s, checks', faults'))

LEMMA TidiesKeep ==
    ASSUME IInv, Order, Tidy, NEW j \in 1..MaxJobs, Tidies(j), jobs[j].pc # "vanished",
           faults' \in Nat, faults <= faults',
           Busy(jobs[j]) \/ \A i \in 1..MaxJobs : i # j => ~Busy(jobs[i])
    PROVE  Tidy'
<1>1. /\ jobs \in [1..MaxJobs -> Job] /\ faults \in Nat
      /\ \A i \in 1..MaxJobs : i # j => ~Busy(jobs[i])
  BY DEF IInv, TypeOK, Order
<1>2. PICK s : /\ jobs' = [jobs EXCEPT ![j] = s]
               /\ Minds(s, checks') /\ ChecksTidy(checks')
               /\ HistoryOk' /\ faults' <= 1 /\ s.pc # "vanished" =>
                     HistoryOk /\ (Settles(jobs[j], checks, faults) =>
                                      Settles(s, checks', faults'))
  BY DEF Tidies
<1>3. jobs'[j] = s /\ \A i \in 1..MaxJobs : i # j => jobs'[i] = jobs[i]
  BY <1>1, <1>2
<1>4. ASSUME NEW i \in 1..MaxJobs PROVE Minds(jobs'[i], checks')
  <2>1. CASE i = j
    BY <1>2, <1>3, <2>1
  <2>2. CASE i # j
    <3>1. Minds(jobs[i], checks')
      BY <1>1, <2>2, MindsWhenAway
    <3>2. QED
      BY <1>3, <2>2, <3>1
  <2>3. QED
    BY <2>1, <2>2
<1>5. ASSUME Steady'
      PROVE  Settles(s, checks', faults')
  <2>1. HistoryOk' /\ faults' <= 1 /\ \A i \in 1..MaxJobs : jobs'[i].pc # "vanished"
    BY <1>5 DEF Steady, Undisturbed, At
  <2>2. HistoryOk /\ (Settles(jobs[j], checks, faults) => Settles(s, checks', faults'))
    BY <1>2, <1>3, <2>1
  <2>3. Undisturbed
    <3>1. faults <= 1
      BY <1>1, <2>1
    <3>2. \A i \in 1..MaxJobs : jobs[i].pc # "vanished"
      BY <1>3, <2>1
    <3>3. QED
      BY <3>1, <3>2 DEF Undisturbed, At
  <2>4. Settles(jobs[j], checks, faults)
    <3>1. /\ Loose(checks) => \E i \in 1..MaxJobs : \/ Tends(jobs[i], checks, faults)
                                                    \/ Replaces(jobs[i], checks, faults)
          /\ Licensed(checks) => \E i \in 1..MaxJobs : Owes(jobs[i], checks, faults)
      BY <2>2, <2>3 DEF Tidy, Steady
    <3>2. QED
      BY <1>1, <3>1, OnlyBusySettles DEF Settles
  <2>5. QED
    BY <2>2, <2>4
<1>6. ChecksTidy(checks)' /\ \A i \in 1..MaxJobs : Minds(jobs[i], checks)'
  BY <1>2, <1>4
<1>7. Steady' =>
         /\ Loose(checks') => \/ Tends(jobs'[j], checks', faults')
                              \/ Replaces(jobs'[j], checks', faults')
         /\ Licensed(checks') => Owes(jobs'[j], checks', faults')
  BY <1>3, <1>5 DEF Settles
<1>8. QED
  BY <1>6, <1>7 DEF Tidy

-----------------------------------------------------------------------------
(* What the operations on checks leave.                                    *)

\* The checks are not changed.
LEMMA StaysTidies ==
    ASSUME Tidy, NEW j, NEW s, Becomes(j, s), checks' = checks, Minds(s, checks),
           HistoryOk /\ faults' <= 1 /\ s.pc # "vanished" /\ Settles(jobs[j], checks, faults)
              => Settles(s, checks, faults')
    PROVE  Tidies(j)
<1>1. HistoryOk' => HistoryOk
  BY DEF HistoryOk
<1>2. ChecksTidy(checks') /\ Minds(s, checks')
  BY DEF Tidy
<1>3. HistoryOk' /\ faults' <= 1 /\ s.pc # "vanished" =>
         HistoryOk /\ (Settles(jobs[j], checks, faults) => Settles(s, checks', faults'))
  BY <1>1
<1>4. QED
  BY <1>2, <1>3 DEF Tidies, Becomes

LEMMA ReadsTidies ==
    ASSUME Tidy, NEW j, NEW s, Reads(j, s), Minds(s, checks),
           HistoryOk /\ faults <= 1 /\ Settles(jobs[j], checks, faults)
              => Settles(s, checks, faults)
    PROVE  Tidies(j)
BY StaysTidies DEF Reads

LEMMA MindsPatched ==
    ASSUME NEW cs, NEW ds, NEW c, Patched(cs, ds, c),
           NEW s, s.pc # "reserve", Minds(s, cs)
    PROVE  Minds(s, ds)
<1>1. Len(cs) \in Nat /\ Len(ds) = Len(cs)
  BY DEF Patched
<1>2. Len(cs) > 1 => ds[Len(cs) - 1] = cs[Len(cs) - 1]
  BY <1>1 DEF Patched
<1>3. Retries(s, cs) => Retries(s, ds)
  BY <1>1, <1>2 DEF Retries
<1>4. QED
  BY <1>3 DEF Minds

LEMMA TidyPatched ==
    ASSUME NEW cs, NEW ds, NEW c, Patched(cs, ds, c), ChecksTidy(cs),
           Lost(c) => Retryable(c), c.phase # "reserved"
    PROVE  ChecksTidy(ds)
BY DEF Patched, ChecksTidy

LEMMA PatchesTidies ==
    ASSUME IInv, Order, Tidy, NEW j \in 1..MaxJobs, Len(checks) # 0, NEW c,
           Lost(c) => Retryable(c), c.phase # "reserved",
           NEW good, NEW bad, Minds(good, checks), Minds(bad, checks),
           good.pc # "reserve", bad.pc # "reserve",
           Settles(jobs[j], checks, faults) =>
              \A ds : Patched(checks, ds, c) => Settles(good, ds, faults),
           faults = 0 /\ Settles(jobs[j], checks, 0) =>
              /\ Settles(bad, checks, 1)
              /\ \A ds : Patched(checks, ds, c) => Settles(bad, ds, 1),
           Patches(j, Len(checks), c, good, bad)
    PROVE  Tidies(j)
<1> DEFINE ds == [checks EXCEPT ![Len(checks)] = c]
<1>1. Len(checks) \in Nat /\ checks \in Seq(Check) /\ faults \in Nat
  BY Known DEF TypeOK
<1>2. Patched(checks, ds, c)
  <2>1. Len(checks) \in 1..Len(checks)
    BY <1>1
  <2>2. /\ Len(ds) = Len(checks)
        /\ \A k \in 1..Len(checks) : ds[k] = IF k = Len(checks) THEN c ELSE checks[k]
    BY <1>1, <2>1, ExceptSeq
  <2> HIDE DEF ds
  <2>3. QED
    BY <1>1, <2>2 DEF Patched
<1>3. \/ checks' = ds /\ Becomes(j, good) /\ faults' = faults
      \/ checks' \in {checks, ds} /\ Becomes(j, bad) /\ faults' = faults + 1
  BY DEF Patches, Fault
<1> HIDE DEF ds
<1>4. ChecksTidy(ds) /\ Minds(good, ds) /\ Minds(bad, ds)
  BY <1>2, TidyPatched, MindsPatched DEF Tidy
<1>5. ChecksTidy(checks') /\ (HistoryOk' => HistoryOk)
  <2>1. Len(ds) = Len(checks) /\ \A k \in 1..Len(checks) - 1 : ds[k] = checks[k]
    BY <1>2 DEF Patched
  <2>2. CASE checks' = ds
    BY <1>4, <2>1, <2>2 DEF HistoryOk
  <2>3. CASE checks' = checks
    BY <2>3 DEF HistoryOk, Tidy
  <2>4. QED
    BY <1>3, <2>2, <2>3
<1>6. CASE checks' = ds /\ Becomes(j, good) /\ faults' = faults
  <2>1. Minds(good, checks')
    BY <1>4, <1>6
  <2>2. Settles(jobs[j], checks, faults) => Settles(good, checks', faults')
    BY <1>2, <1>6
  <2>3. QED
    BY <1>5, <1>6, <2>1, <2>2 DEF Tidies, Becomes
<1>7. CASE checks' \in {checks, ds} /\ Becomes(j, bad) /\ faults' = faults + 1
  <2>1. Minds(bad, checks')
    BY <1>4, <1>7
  <2>2. faults' <= 1 /\ Settles(jobs[j], checks, faults) => Settles(bad, checks', faults')
    <3>1. SUFFICES ASSUME faults' <= 1, Settles(jobs[j], checks, faults)
                   PROVE  Settles(bad, checks', faults')
      OBVIOUS
    <3>2. faults = 0 /\ faults' = 1
      BY <1>1, <1>7, <3>1
    <3>3. Settles(bad, checks, 1) /\ Settles(bad, ds, 1)
      BY <1>2, <3>1, <3>2
    <3>4. QED
      BY <1>7, <3>2, <3>3
  <2>3. QED
    BY <1>5, <1>7, <2>1, <2>2 DEF Tidies, Becomes
<1>8. QED
  BY <1>3, <1>6, <1>7

\* The job puts its check to work, and goes on to mind it.
LEMMA StartsTidies ==
    ASSUME IInv, Order, Tidy, NEW j \in 1..MaxJobs, Len(checks) # 0,
           jobs[j].pc \in Minding \ {"fail"}, NEW c, ~Lost(c), c.phase # "reserved",
           NEW good, NEW bad, Minds(good, checks), Minds(bad, checks),
           good.pc \in Minding, bad.pc \in Minding \cup {"cleanup"},
           Len(checks) \in good.open, Len(checks) \in bad.open,
           Patches(j, Len(checks), c, good, bad)
    PROVE  Tidies(j)
<1>1. /\ good.pc \notin Aftermath /\ good.pc # "reserve" /\ bad.pc # "reserve"
      /\ bad.pc \in Minding \cup Aftermath
  BY DEF Minding, Preparing, Attending, Aftermath
<1>2. ASSUME NEW ds, Patched(checks, ds, c)
      PROVE  /\ ~Licensed(ds) /\ Len(ds) \in good.open /\ Len(ds) \in bad.open
  BY <1>2 DEF Patched, Licensed
<1>3. \A ds : Patched(checks, ds, c) => Settles(good, ds, faults) /\ Settles(bad, ds, 1)
  BY <1>1, <1>2, HolderSettles
<1>4. Settles(jobs[j], checks, 0) => Settles(bad, checks, 1)
  BY <1>1, MindingSettles, HolderSettles
<1>5. QED
  BY <1>1, <1>3, <1>4, PatchesTidies

\* The job closes its check, for good or for a reason other than a lost runner.
LEMMA ClosesTidies ==
    ASSUME IInv, Order, Tidy, NEW j \in 1..MaxJobs, Len(checks) # 0,
           NEW c, ~Lost(c), c.phase \notin Moving \cup {"reserved"},
           NEW good, NEW bad, Minds(good, checks), Minds(bad, checks),
           good.pc # "reserve", bad.pc # "reserve",
           faults = 0 /\ Settles(jobs[j], checks, 0) => Settles(bad, checks, 1),
           Patches(j, Len(checks), c, good, bad)
    PROVE  Tidies(j)
<1>1. ASSUME NEW ds, Patched(checks, ds, c), NEW s, NEW f
      PROVE  Settles(s, ds, f)
  <2>1. Len(ds) = Len(checks) /\ Len(ds) \in Nat /\ ds[Len(ds)] = c
    BY <1>1 DEF Patched
  <2>2. ~Loose(ds) /\ ~Licensed(ds)
    BY <2>1 DEF Loose, Licensed
  <2>3. QED
    BY <2>2, NothingToSettle
<1>2. QED
  BY <1>1, PatchesTidies

\* The job creates a check.
LEMMA CreatesTidies ==
    ASSUME IInv, Order, Tidy, NEW j \in 1..MaxJobs, NEW good, NEW bad,
           NEW ds, ds = Append(checks, Reserved),
           Minds(good, ds), Minds(bad, checks), Minds(bad, ds),
           Settles(jobs[j], checks, faults) => Settles(good, ds, faults),
           faults = 0 /\ Settles(jobs[j], checks, 0) =>
              Settles(bad, checks, 1) /\ Settles(bad, ds, 1),
           Creates(j, good, bad)
    PROVE  Tidies(j)
<1>1. Len(checks) \in Nat /\ checks \in Seq(Check) /\ faults \in Nat
  BY Known DEF TypeOK
<1>2. /\ Len(ds) = Len(checks) + 1 /\ ds[Len(checks) + 1] = Reserved
      /\ \A k \in 1..Len(checks) : ds[k] = checks[k]
  BY <1>1, ReservedTyped, AppendProperties
<1>3. \/ checks' = ds /\ Becomes(j, good) /\ faults' = faults
      \/ checks' \in {checks, ds} /\ Becomes(j, bad) /\ faults' = faults + 1
  BY DEF Creates, Fault
<1>4. ChecksTidy(ds)
  <2>1. ~Lost(Reserved) /\ Reserved.run = 0
    BY DEF Lost, Reserved
  <2>2. \A k \in 1..Len(ds) : k \in 1..Len(checks) \/ k = Len(checks) + 1
    BY <1>1, <1>2
  <2>3. QED
    BY <1>2, <2>1, <2>2 DEF Tidy, ChecksTidy
<1>5. ChecksTidy(checks') /\ (HistoryOk' => HistoryOk)
  <2>1. CASE checks' = ds
    <3>1. \A k \in 1..Len(checks) - 1 : k \in 1..Len(ds) - 1 /\ ds[k] = checks[k]
      BY <1>1, <1>2
    <3>2. QED
      BY <1>4, <2>1, <3>1 DEF HistoryOk
  <2>2. CASE checks' = checks
    BY <2>2 DEF HistoryOk, Tidy
  <2>3. QED
    BY <1>3, <2>1, <2>2
<1>6. CASE checks' = ds /\ Becomes(j, good) /\ faults' = faults
  BY <1>5, <1>6 DEF Tidies, Becomes
<1>7. CASE checks' \in {checks, ds} /\ Becomes(j, bad) /\ faults' = faults + 1
  <2>1. Minds(bad, checks')
    BY <1>7
  <2>2. faults' <= 1 /\ Settles(jobs[j], checks, faults) => Settles(bad, checks', faults')
    <3>1. SUFFICES ASSUME faults' <= 1, Settles(jobs[j], checks, faults)
                   PROVE  Settles(bad, checks', faults')
      OBVIOUS
    <3>2. faults = 0 /\ faults' = 1
      BY <1>1, <1>7, <3>1
    <3>3. Settles(bad, checks, 1) /\ Settles(bad, ds, 1)
      BY <3>1, <3>2
    <3>4. QED
      BY <1>7, <3>2, <3>3
  <2>3. QED
    BY <1>5, <1>7, <2>1, <2>2 DEF Tidies, Becomes
<1>8. QED
  BY <1>3, <1>6, <1>7

-----------------------------------------------------------------------------
(* A job that minds its check.                                             *)

LEMMA MindingAt ==
    ASSUME IInv, Order, Tidy, NEW j \in 1..MaxJobs, jobs[j].pc \in Minding
    PROVE  /\ Len(checks) \in Nat /\ Len(checks) # 0 /\ jobs[j].check = Len(checks)
           /\ Len(checks) \in jobs[j].open /\ jobs[j] \in Job /\ Busy(jobs[j])
           /\ checks[Len(checks)] \in Check
           /\ Minds(jobs[j], checks) /\ jobs[j].kind # "seed"
           /\ jobs[j].pc \notin Judging => jobs[j].retry = "none"
<1> DEFINE r == jobs[j]
<1>1. /\ r \in Job /\ Len(checks) \in Nat /\ Suits(r, checks, runs)
      /\ \A k \in 1..Len(checks) : checks[k] \in Check
  BY Standing
<1>2. Current(r, checks) /\ (r.pc \notin Judging => r.retry = "none")
  <2>1. CASE r.pc \in Preparing
    BY <1>1, <2>1, ReadyWhen DEF Ready
  <2>2. CASE r.pc \in Attending
    BY <1>1, <2>2, AtRunWhen DEF AtRun
  <2>3. QED
    BY <2>1, <2>2 DEF Minding
<1>3. Minds(r, checks) /\ r.check \in r.open
  BY DEF Tidy, Minds
<1>4. r.pc \notin {"live", "ensure", "create", "cleanup"} /\ Busy(r)
  BY PhasesMind DEF Busy, Minding, Preparing, Attending
<1>5. r.kind # "seed"
  BY <1>3, <1>4 DEF Minds, Seeds
<1>6. Len(checks) \in 1..Len(checks)
  BY <1>1, <1>2 DEF Current
<1>7. QED
  BY <1>1, <1>2, <1>3, <1>4, <1>5, <1>6 DEF Current

\* It may change what it knows of its run and its verdict ...
LEMMA EditMinds ==
    ASSUME NEW r, NEW s, NEW cs, Minds(r, cs), r.pc \in Minding, r.kind # "seed",
           s.pc \in Minding, s.kind = r.kind, s.check = r.check, s.open = r.open,
           s.source = r.source, Authorises(s)
    PROVE  Minds(s, cs)
<1>1. s.pc \notin {"reserve", "live", "ensure", "create"}
  BY DEF Minding, Preparing, Attending
<1>2. s.check \in s.open /\ Retries(s, cs)
  BY DEF Minds, Retries, Retrying
<1>3. QED
  BY <1>1, <1>2 DEF Minds, Seeds

\* ... or leave it to the steps that run always().
LEMMA FreeMinds ==
    ASSUME NEW s, NEW cs,
           s.pc \in {"done", "vanished", "cleanup", "abandon", "retry", "unretry"},
           s.kind # "seed" \/ s.pc \in {"done", "vanished"} \/ (s.pc = "cleanup" /\ s.open = {})
    PROVE  Minds(s, cs)
<1>1. s.pc \notin Minding /\ (s.pc \in {"done", "vanished"} => s.pc \notin Aftermath)
  BY DEF Minding, Preparing, Attending, Aftermath
<1>2. QED
  BY <1>1 DEF Minds, Authorises, Seeds, Busy

LEMMA MindsOn ==
    ASSUME IInv, Order, Tidy, NEW j \in 1..MaxJobs, jobs[j].pc \in Minding \ {"fail"},
           NEW s, s.pc \in Minding, s.kind = jobs[j].kind, s.check = jobs[j].check,
           s.open = jobs[j].open, s.source = jobs[j].source, Authorises(s),
           Becomes(j, s), checks' = checks
    PROVE  Tidies(j)
<1>1. Minds(s, checks)
  BY MindingAt, EditMinds
<1>2. s.pc \notin Aftermath
  BY DEF Minding, Preparing, Attending, Aftermath
<1>3. Settles(jobs[j], checks, faults) => Settles(s, checks, faults')
  BY <1>2, MindingSettles, HolderSettles
<1>4. QED
  BY <1>1, <1>3, StaysTidies

\* Most steps change the phase only.
Ordinary == Minding \ {"confirm", "close"}

LEMMA MindingGoes ==
    ASSUME IInv, Order, Tidy, NEW j \in 1..MaxJobs, jobs[j].pc \in Minding
    PROVE  LET r == jobs[j] IN
           /\ \A pc \in Ordinary \cup Aftermath :
                 LET s == Goes(j, pc) IN
                 /\ s.pc = pc /\ s.kind = r.kind /\ s.check = r.check /\ s.open = r.open
                 /\ s.source = r.source /\ s.retry = r.retry /\ s.run = r.run
                 /\ s.conclusion = r.conclusion
           /\ r.retry # "child-cancelled" =>
                 \A pc \in Ordinary : Minds(Goes(j, pc), checks) /\ Authorises(Goes(j, pc))
           /\ \A pc \in {"cleanup", "retry", "unretry"} : Minds(Goes(j, pc), checks)
<1> DEFINE r == jobs[j]
<1>1. r \in Job /\ Minds(r, checks) /\ r.kind # "seed"
  BY MindingAt
<1>2. ASSUME NEW pc \in Ordinary \cup Aftermath
      PROVE  LET s == Goes(j, pc) IN
             /\ s.pc = pc /\ s.kind = r.kind /\ s.check = r.check /\ s.open = r.open
             /\ s.source = r.source /\ s.retry = r.retry /\ s.run = r.run
             /\ s.conclusion = r.conclusion
  <2>1. pc \in Phases /\ pc \notin {"done", "vanished"}
    BY DEF Ordinary, Minding, Preparing, Attending, Aftermath, Phases
  <2>2. Goes(j, pc) = [r EXCEPT !.pc = pc]
    BY <2>1 DEF Goes
  <2>3. QED
    BY <1>1, <2>2 DEF Job
<1>3. ASSUME r.retry # "child-cancelled", NEW pc \in Ordinary
      PROVE  Minds(Goes(j, pc), checks) /\ Authorises(Goes(j, pc))
  <2> DEFINE s == Goes(j, pc)
  <2>1. /\ s.pc = pc /\ s.kind = r.kind /\ s.check = r.check /\ s.open = r.open
        /\ s.source = r.source /\ s.retry = r.retry
    BY <1>2
  <2> HIDE DEF s
  <2>2. Authorises(s)
    BY <1>3, <2>1 DEF Authorises, Ordinary
  <2>3. Minds(s, checks)
    BY <1>1, <2>1, <2>2, EditMinds DEF Ordinary
  <2>4. QED
    BY <2>2, <2>3 DEF s
<1>4. ASSUME NEW pc \in {"cleanup", "retry", "unretry"} PROVE Minds(Goes(j, pc), checks)
  <2> DEFINE s == Goes(j, pc)
  <2>1. s.pc = pc /\ s.kind = r.kind
    BY <1>2 DEF Aftermath
  <2> HIDE DEF s
  <2>2. Minds(s, checks)
    BY <1>1, <2>1, FreeMinds
  <2>3. QED
    BY <2>2 DEF s
<1>5. QED
  BY <1>2, <1>3, <1>4

LEMMA GoesOn ==
    ASSUME IInv, Order, Tidy, NEW j \in 1..MaxJobs, jobs[j].pc \in Minding \ Judging,
           NEW pc \in Ordinary, Becomes(j, Goes(j, pc)), checks' = checks
    PROVE  Tidies(j)
<1>1. jobs[j].retry = "none" /\ jobs[j].pc # "fail"
  BY MindingAt DEF Judging
<1> DEFINE s == Goes(j, pc)
<1>2. /\ s.pc \in Minding /\ s.kind = jobs[j].kind /\ s.check = jobs[j].check
      /\ s.open = jobs[j].open /\ s.source = jobs[j].source /\ Authorises(s)
  BY <1>1, MindingGoes DEF Ordinary
<1>3. Becomes(j, s)
  OBVIOUS
<1> HIDE DEF s
<1>4. QED
  BY <1>1, <1>2, <1>3, MindsOn

LEMMA GoneMinds ==
    ASSUME NEW j, NEW cs, NEW pc \in {"done", "vanished"}
    PROVE  /\ Goes(j, pc).pc = pc /\ Minds(Goes(j, pc), cs)
           /\ Final(Goes(j, "done")).pc = "done" /\ Minds(Final(Goes(j, "done")), cs)
<1>1. \A q \in {"done", "vanished"} : Goes(j, q) = [Idle EXCEPT !.pc = q]
  BY DEF Goes
<1>2. \A q \in {"done", "vanished"} : Goes(j, q) \in Job /\ Goes(j, q).pc = q
  BY <1>1, IdleTyped DEF Job, Phases
<1>3. Final(Goes(j, "done")).pc = "done"
  BY <1>2, FinalLike
<1>4. QED
  BY <1>2, <1>3, FreeMinds

\* Where the answer to a change of its check leads a job that minds it.
LEMMA StartsOn ==
    ASSUME IInv, Order, Tidy, NEW j \in 1..MaxJobs, jobs[j].pc \in Minding \ Judging,
           NEW c, ~Lost(c), c.phase # "reserved",
           NEW g \in Ordinary, NEW b \in Ordinary \cup {"cleanup"},
           Patches(j, jobs[j].check, c, Goes(j, g), Goes(j, b))
    PROVE  Tidies(j)
<1> DEFINE r == jobs[j]
           n == Len(checks)
           good == Goes(j, g)
           bad == Goes(j, b)
<1>1. r.check = n /\ n # 0 /\ n \in r.open /\ r.retry = "none" /\ r.pc # "fail"
  BY MindingAt DEF Judging
<1>2. "cleanup" \in Aftermath /\ Ordinary \subseteq Minding
  BY DEF Aftermath, Ordinary
<1>3. good.pc = g /\ good.open = r.open /\ bad.pc = b /\ bad.open = r.open
  BY <1>2, MindingGoes
<1>4. Minds(good, checks) /\ Minds(bad, checks)
  BY <1>1, MindingGoes
<1>5. Patches(j, n, c, good, bad)
  BY <1>1
<1> HIDE DEF good, bad
<1>6. QED
  BY <1>1, <1>2, <1>3, <1>4, <1>5, StartsTidies

LEMMA ClosesOn ==
    ASSUME IInv, Order, Tidy, NEW j \in 1..MaxJobs, jobs[j].pc \in Minding \ Judging,
           NEW c, ~Lost(c), c.phase \notin Moving \cup {"reserved"},
           NEW good, Minds(good, checks), good.pc # "reserve",
           NEW b \in Ordinary \cup {"cleanup"},
           Patches(j, jobs[j].check, c, good, Goes(j, b))
    PROVE  Tidies(j)
<1> DEFINE r == jobs[j]
           n == Len(checks)
           bad == Goes(j, b)
<1>1. r.check = n /\ n # 0 /\ n \in r.open /\ r.retry = "none" /\ r.pc # "fail"
  BY MindingAt DEF Judging
<1>2. "cleanup" \in Aftermath /\ Ordinary \subseteq Minding /\ "reserve" \notin Minding
  BY DEF Aftermath, Ordinary, Minding, Preparing, Attending
<1>3. bad.pc = b /\ bad.open = r.open /\ bad.pc # "reserve"
  BY <1>2, MindingGoes
<1>4. Minds(bad, checks)
  BY <1>1, MindingGoes
<1>5. Patches(j, n, c, good, bad)
  BY <1>1
<1> HIDE DEF bad
<1>6. Settles(r, checks, 0) => Settles(bad, checks, 1)
  BY <1>1, <1>2, <1>3, MindingSettles, HolderSettles
<1>7. QED
  BY <1>1, <1>3, <1>4, <1>5, <1>6, ClosesTidies

LEMMA StartedIs ==
    ASSUME NEW c \in Check, NEW phase, NEW run
    PROVE  /\ Started(c, phase).phase = phase /\ ~Lost(Started(c, phase))
           /\ LET d == [Started(c, phase) EXCEPT !.run = run] IN d.phase = phase /\ ~Lost(d)
BY DEF Started, Check, Lost

LEMMA ClosedIs ==
    ASSUME NEW c \in Check, NEW conclusion, NEW retry, NEW run, NEW lost
    PROVE  LET d == Closed(c, conclusion, retry, run, lost) IN
           /\ d.phase = "closed" /\ d.phase \notin Moving \cup {"reserved"}
           /\ d.conclusion = conclusion /\ d.retry = retry
           /\ run # 0 => d.run = run
BY DEF Closed, Check, Moving

-----------------------------------------------------------------------------
(* The steps of the jobs.                                                  *)

\* From the evaluation to the dispatch.
LEMMA EvaluateTidies ==
    ASSUME IInv, Order, Tidy, NEW j \in 1..MaxJobs,
           \/ Mark(j) \/ Evaluate(j) \/ Conclude(j) \/ Approve(j) \/ Authorize(j)
           \/ Restore(j) \/ Recheck(j) \/ Acquire(j) \/ Prepare(j) \/ Revalidate(j)
    PROVE  Tidies(j)
<1> DEFINE r == jobs[j]
           c == checks[r.check]
<1>1. /\ r.pc \in {"mark", "evaluate", "conclude", "approve", "authorize", "restore",
                   "recheck", "acquire", "prepare", "revalidate"}
      /\ r.pc \in Minding \ Judging
  BY DEF Mark, Evaluate, Conclude, Approve, Authorize, Restore, Recheck, Acquire, Prepare,
     Revalidate, At, Minding, Preparing, Judging
<1>2. c \in Check /\ (r.pc \notin Judging => r.retry = "none")
  BY <1>1, MindingAt
<1>3. /\ \A pc \in {"evaluate", "recheck", "conclude", "fail", "authorize", "restore", "post",
                    "prepare", "revalidate"} : pc \in Ordinary
  BY DEF Ordinary, Minding, Preparing, Attending
<1>4. ASSUME NEW pc \in Ordinary, Reads(j, Goes(j, pc)) PROVE Tidies(j)
  BY <1>1, <1>4, GoesOn DEF Reads
<1>5. OnError(r) \in Ordinary
  BY <1>3 DEF OnError
<1>6. CASE Mark(j) \/ Authorize(j) \/ Prepare(j)
  <2>1. \E phase \in {"evaluating", "authorized", "preparing"}, g \in Ordinary,
           b \in Ordinary \cup {"cleanup"} :
              Patches(j, r.check, Started(c, phase), Goes(j, g), Goes(j, b))
    BY <1>3, <1>6 DEF Mark, Authorize, Prepare
  <2>2. QED
    BY <1>1, <1>2, <2>1, StartedIs, StartsOn
<1>7. CASE Evaluate(j)
  <2>1. CASE Patches(j, r.check, Closed(c, "failure", "prerequisite-ci", 0, 0),
                     Final(Goes(j, "done")), Goes(j, "fail"))
    <3> DEFINE d == Closed(c, "failure", "prerequisite-ci", 0, 0)
    <3>1. d.phase \notin Moving \cup {"reserved"} /\ ~Lost(d)
      BY <1>2, ClosedIs DEF Lost
    <3> HIDE DEF d
    <3>2. Patches(j, r.check, d, Final(Goes(j, "done")), Goes(j, "fail"))
      BY <2>1 DEF d
    <3>3. QED
      BY <1>1, <1>3, <3>1, <3>2, GoneMinds, ClosesOn
  <2>2. QED
    BY <1>3, <1>4, <1>7, <2>1 DEF Evaluate
<1>8. CASE Conclude(j)
  <2> DEFINE d == IF plan = "none" THEN Closed(c, "success", "none", 0, 0)
                  ELSE Started(c, "awaiting")
  <2>1. d.phase \notin Moving \cup {"reserved"} /\ ~Lost(d)
    BY <1>2, ClosedIs, StartedIs DEF Lost, Moving
  <2>2. Patches(j, r.check, d, Final(Goes(j, "done")), Goes(j, "fail"))
    BY <1>8 DEF Conclude
  <2> HIDE DEF d
  <2>3. QED
    BY <1>1, <1>3, <2>1, <2>2, GoneMinds, ClosesOn
<1>9. CASE Restore(j)
  <2> DEFINE d == Started(c, "awaiting")
  <2>1. d.phase = "awaiting" /\ ~Lost(d)
    BY <1>2, StartedIs
  <2>2. Patches(j, r.check, d, Final(Goes(j, "done")), Goes(j, "cleanup"))
    BY <1>9 DEF Restore
  <2> HIDE DEF d
  <2>3. d.phase \notin Moving \cup {"reserved"}
    BY <2>1 DEF Moving
  <2>4. QED
    BY <1>1, <2>1, <2>2, <2>3, GoneMinds, ClosesOn
<1>10. CASE Approve(j) \/ Acquire(j)
  BY <1>3, <1>4, <1>10 DEF Approve, Acquire
<1>11. CASE Recheck(j)
  BY <1>3, <1>4, <1>5, <1>11 DEF Recheck
<1>12. CASE Revalidate(j)
  <2>1. "recheck" \in Ordinary /\ "fail" \in Ordinary
    BY <1>3
  <2>2. \E pc \in {"recheck", "fail"} : Reads(j, Goes(j, pc))
    BY <1>12 DEF Revalidate
  <2>3. QED
    BY <1>4, <2>1, <2>2
<1>13. QED
  BY <1>6, <1>7, <1>8, <1>9, <1>10, <1>11, <1>12

\* The dispatch, and what the job does about a child run that is not sure to be wanted.
LEMMA DispatchTidies ==
    ASSUME IInv, Order, Tidy, NEW j \in 1..MaxJobs,
           \/ Post(j) \/ Reconcile(j) \/ Adopt(j) \/ Publish(j) \/ Revoke(j)
           \/ CancelChild(j) \/ Wait(j)
    PROVE  Tidies(j)
<1> DEFINE r == jobs[j]
           c == checks[r.check]
<1>1. r.pc \in Minding \ Judging /\ r.pc \in Minding \ {"fail"}
  BY DEF Post, Reconcile, Adopt, Publish, Revoke, CancelChild, Wait, At, Minding, Preparing,
     Attending, Judging
<1>2. c \in Check /\ r.retry = "none" /\ r \in Job
  BY <1>1, MindingAt
<1>3. /\ \A pc \in {"publish", "reconcile", "adopt", "fail", "cancel_child", "wait", "revoke",
                    "finish", "restore"} : pc \in Ordinary
      /\ Ordinary \subseteq Minding
  BY DEF Ordinary, Minding, Preparing, Attending
<1>4. ASSUME NEW pc \in Ordinary, Becomes(j, Goes(j, pc)), checks' = checks PROVE Tidies(j)
  BY <1>1, <1>4, GoesOn
<1>5. ASSUME NEW s, s.pc \in Ordinary, s.kind = r.kind, s.check = r.check, s.open = r.open,
             s.source = r.source, s.retry # "child-cancelled",
             Becomes(j, s), checks' = checks
      PROVE  Tidies(j)
  <2>1. Authorises(s)
    BY <1>5 DEF Authorises, Ordinary
  <2>2. QED
    BY <1>1, <1>3, <1>5, <2>1, MindsOn
<1>6. CASE Post(j)
  <2>1. OnError(r) \in Ordinary
    BY <1>3 DEF OnError
  <2> DEFINE n == Len(runs) + 1
             got == [r EXCEPT !.run = n, !.pc = "publish"]
             no == [r EXCEPT !.lost = 0, !.pc = "reconcile"]
             maybe == [r EXCEPT !.lost = n, !.pc = "reconcile"]
  <2>2. \/ Becomes(j, got) \/ Becomes(j, Goes(j, OnError(r)))
        \/ Becomes(j, no) \/ Becomes(j, maybe)
    BY <1>6 DEF Post
  <2>3. checks' = checks
    BY <1>6 DEF Post
  <2>4. ASSUME NEW s \in {got, no, maybe}
        PROVE  /\ s.pc \in {"publish", "reconcile"} /\ s.kind = r.kind /\ s.check = r.check
               /\ s.open = r.open /\ s.source = r.source /\ s.retry = "none"
    BY <1>2, <2>4 DEF Job
  <2> HIDE DEF got, no, maybe
  <2>5. QED
    BY <1>3, <1>4, <1>5, <2>1, <2>2, <2>3, <2>4
<1>7. CASE Reconcile(j)
  <2> DEFINE s == [r EXCEPT !.retry = "dispatch-not-observed", !.pc = "fail"]
  <2>1. (Becomes(j, s) \/ Becomes(j, Goes(j, "adopt"))) /\ checks' = checks
    BY <1>7 DEF Reconcile, Reads
  <2>2. /\ s.pc = "fail" /\ s.kind = r.kind /\ s.check = r.check
        /\ s.open = r.open /\ s.source = r.source /\ s.retry = "dispatch-not-observed"
    BY <1>2 DEF Job
  <2> HIDE DEF s
  <2>3. QED
    BY <1>3, <1>4, <1>5, <2>1, <2>2
<1>8. CASE Adopt(j)
  <2>1. PICK pc \in {"publish", "cancel_child"} :
           Reads(j, [r EXCEPT !.run = r.lost, !.lost = 0, !.pc = pc])
    BY <1>8 DEF Adopt
  <2> DEFINE s == [r EXCEPT !.run = r.lost, !.lost = 0, !.pc = pc]
  <2>2. /\ s.pc = pc /\ s.kind = r.kind /\ s.check = r.check
        /\ s.open = r.open /\ s.source = r.source /\ s.retry = "none"
    BY <1>2 DEF Job
  <2>3. Becomes(j, s) /\ checks' = checks
    BY <2>1 DEF Reads
  <2> HIDE DEF s
  <2>4. QED
    BY <1>3, <1>5, <2>2, <2>3
<1>9. CASE Publish(j)
  <2> DEFINE d == [Started(c, "running") EXCEPT !.run = r.run]
  <2>1. Patches(j, r.check, d, Goes(j, "wait"), Goes(j, "revoke"))
    BY <1>9 DEF Publish
  <2>2. d.phase # "reserved" /\ ~Lost(d)
    BY <1>2, StartedIs
  <2> HIDE DEF d
  <2>3. QED
    BY <1>1, <1>3, <2>1, <2>2, StartsOn
<1>10. CASE Revoke(j)
  <2> DEFINE d == Closed(c, "failure", "none", r.run, 0)
  <2>1. Patches(j, r.check, d, Goes(j, "cancel_child"), Goes(j, "cancel_child"))
    BY <1>10 DEF Revoke
  <2>2. d.phase # "reserved" /\ ~Lost(d)
    BY <1>2, ClosedIs DEF Lost
  <2> HIDE DEF d
  <2>3. QED
    BY <1>1, <1>3, <2>1, <2>2, StartsOn
<1>11. CASE CancelChild(j)
  BY <1>3, <1>4, <1>11 DEF CancelChild
<1>12. CASE Wait(j)
  BY <1>3, <1>4, <1>12 DEF Wait, Reads
<1>13. QED
  BY <1>6, <1>7, <1>8, <1>9, <1>10, <1>11, <1>12

\* Only the first lost runner of a diff is retried, and its check says failure.
LEMMA VerdictAuthorises ==
    ASSUME NEW r \in Job, r.retry # "child-cancelled", NEW evidence \in {"good", "bad", "missing"}
    PROVE  LET s == Verdict(r, evidence) IN
           /\ s.pc \in {"confirm", "fail"} /\ s.kind = r.kind /\ s.check = r.check
           /\ s.open = r.open /\ s.source = r.source
           /\ s.pc = "fail" => s.retry # "child-cancelled"
           /\ s.retry = "child-cancelled" =>
                 s.conclusion = "failure" /\ RunnerLosses(r.check) = {}
<1> DEFINE result == runs[r.run].result
           first == RunnerLosses(r.check) = {}
           s == Verdict(r, evidence)
<1>1. CASE result = "success" /\ evidence = "good"
  <2>1. s = [r EXCEPT !.conclusion = "success", !.pc = "confirm"]
    BY <1>1 DEF Verdict
  <2> HIDE DEF s
  <2>2. QED
    BY <2>1 DEF Job, s
<1>2. CASE result = "success" /\ evidence = "missing"
  <2>1. s = [r EXCEPT !.retry = IF first THEN "evidence-download" ELSE "none", !.pc = "fail"]
    BY <1>2 DEF Verdict
  <2> HIDE DEF s, first
  <2>2. QED
    BY <2>1 DEF Job, s
<1>3. CASE result = "lost" /\ evidence # "missing" /\ first
  <2>1. s = [r EXCEPT !.conclusion = "failure", !.retry = "child-cancelled",
                      !.pc = "confirm"]
    BY <1>3 DEF Verdict
  <2> HIDE DEF s
  <2>2. /\ s.pc = "confirm" /\ s.kind = r.kind /\ s.check = r.check
        /\ s.open = r.open /\ s.source = r.source /\ s.conclusion = "failure"
    BY <2>1 DEF Job
  <2>3. QED
    BY <1>3, <2>2 DEF s
<1>4. CASE /\ ~(result = "success" /\ evidence = "good")
           /\ ~(result = "success" /\ evidence = "missing")
           /\ ~(result = "lost" /\ evidence # "missing" /\ first)
  <2>1. s = [r EXCEPT !.conclusion = "failure", !.pc = "confirm"]
    BY <1>4 DEF Verdict
  <2> HIDE DEF s
  <2>2. QED
    BY <2>1 DEF Job, s
<1>5. QED
  BY <1>1, <1>2, <1>3, <1>4

\* The source of a retry counts as the diff's lost runner.
LEMMA RetryIsNotFirst ==
    ASSUME NEW r, NEW n \in Nat, n = Len(checks), HistoryOk, Retries(r, checks), Retrying(r),
           \A k \in 1..n : checks[k] \in Check
    PROVE  RunnerLosses(n) # {}
<1>1. n - 1 \in 1..n - 1 /\ (Lost(checks[n - 1]) \/ Cancelled(checks[n - 1]))
  BY DEF Retries
<1>2. Retryable(checks[n - 1])
  BY <1>1 DEF HistoryOk
<1>3. Lost(checks[n - 1])
  BY <1>1, <1>2, CancelledIsOld
<1>4. QED
  BY <1>1, <1>3 DEF RunnerLosses, Lost

LEMMA FinishTidies ==
    ASSUME IInv, Order, Tidy, NEW j \in 1..MaxJobs, Finish(j) \/ Confirm(j)
    PROVE  Tidies(j)
<1> DEFINE r == jobs[j]
           n == Len(checks)
<1>1. r.pc \in {"finish", "confirm"} /\ r.pc \in Minding \ {"fail"}
  BY DEF Finish, Confirm, At, Minding, Attending
<1>2. /\ r \in Job /\ r.check = n /\ n \in Nat /\ n # 0 /\ Minds(r, checks)
      /\ r.pc \notin Judging => r.retry = "none"
      /\ \A k \in 1..n : checks[k] \in Check
  BY <1>1, MindingAt, Standing
<1>3. ASSUME NEW s, s.pc \in {"confirm", "close", "fail"}, s.kind = r.kind, s.check = r.check,
             s.open = r.open, s.source = r.source, Authorises(s), Becomes(j, s),
             checks' = checks
      PROVE  Tidies(j)
  <2>1. s.pc \in Minding
    BY <1>3 DEF Minding, Attending
  <2>2. QED
    BY <1>1, <1>3, <2>1, MindsOn
<1>4. CASE Finish(j)
  <2> DEFINE closing == [r EXCEPT !.conclusion = "cancelled", !.pc = "close"]
  <2>1. r.pc = "finish" /\ r.retry = "none" /\ checks' = checks
    BY <1>2, <1>4 DEF Finish, At, Judging
  <2>2. PICK evidence \in {"good", "bad", "missing"} :
           \/ Becomes(j, Goes(j, "fail"))
           \/ Becomes(j, closing)
           \/ HistoryOk /\ Becomes(j, Verdict(r, evidence))
    BY <1>4 DEF Finish
  <2>3. CASE Becomes(j, Goes(j, "fail"))
    <3>1. "fail" \in Ordinary /\ r.pc \in Minding \ Judging
      BY <1>1, <2>1 DEF Ordinary, Minding, Attending, Judging
    <3>2. QED
      BY <2>1, <2>3, <3>1, GoesOn
  <2>4. CASE Becomes(j, closing)
    <3>1. /\ closing.pc = "close" /\ closing.kind = r.kind /\ closing.check = r.check
          /\ closing.open = r.open /\ closing.source = r.source /\ closing.retry = "none"
      BY <1>2, <2>1 DEF Job
    <3> HIDE DEF closing
    <3>2. Authorises(closing)
      BY <3>1 DEF Authorises
    <3>3. QED
      BY <1>3, <2>1, <2>4, <3>1, <3>2
  <2>5. CASE HistoryOk /\ Becomes(j, Verdict(r, evidence))
    <3> DEFINE s == Verdict(r, evidence)
    <3>1. /\ s.pc \in {"confirm", "fail"} /\ s.kind = r.kind /\ s.check = r.check
          /\ s.open = r.open /\ s.source = r.source
          /\ s.pc = "fail" => s.retry # "child-cancelled"
          /\ s.retry = "child-cancelled" =>
                s.conclusion = "failure" /\ RunnerLosses(r.check) = {}
      BY <1>2, <2>1, VerdictAuthorises
    <3>2. Becomes(j, s)
      BY <2>5
    <3> HIDE DEF s
    <3>3. s.retry = "child-cancelled" => ~Retrying(s)
      <4>1. Retrying(s) => Retrying(r)
        BY <3>1 DEF Retrying
      <4>2. Retries(r, checks)
        BY <1>1, <1>2 DEF Minds
      <4>3. Retrying(r) => RunnerLosses(r.check) # {}
        BY <1>2, <2>5, <4>2, RetryIsNotFirst
      <4>4. QED
        BY <3>1, <4>1, <4>3
    <3>4. Authorises(s)
      BY <3>1, <3>3 DEF Authorises
    <3>5. QED
      BY <1>3, <2>1, <3>1, <3>2, <3>4
  <2>6. QED
    BY <2>2, <2>3, <2>4, <2>5
<1>5. CASE Confirm(j)
  <2> DEFINE auth == (r.retry = "child-cancelled")
             kept == [r EXCEPT !.auth = auth, !.pc = "close"]
             gone == [r EXCEPT !.conclusion = "cancelled", !.retry = "none", !.pc = "close"]
  <2>1. (Becomes(j, kept) \/ Becomes(j, gone)) /\ checks' = checks /\ r.pc = "confirm"
    BY <1>5 DEF Confirm, Reads, At
  <2>2. /\ gone.pc = "close" /\ gone.kind = r.kind /\ gone.check = r.check
        /\ gone.open = r.open /\ gone.source = r.source /\ gone.retry = "none"
    BY <1>2 DEF Job
  <2>3. Authorises(gone)
    BY <2>2 DEF Authorises
  <2> HIDE DEF auth
  <2>4. /\ kept.pc = "close" /\ kept.kind = r.kind /\ kept.check = r.check
        /\ kept.open = r.open /\ kept.source = r.source /\ kept.retry = r.retry
        /\ kept.conclusion = r.conclusion /\ kept.auth = auth
    BY <1>2 DEF Job
  <2> HIDE DEF gone, kept
  <2>5. r.retry = "child-cancelled" => auth /\ ~Retrying(r) /\ r.conclusion = "failure"
    BY <1>2, <2>1 DEF Minds, Authorises, auth
  <2>6. Authorises(kept)
    BY <2>4, <2>5 DEF Authorises, Retrying
  <2>7. QED
    BY <1>3, <2>1, <2>2, <2>3, <2>4, <2>6
<1>6. QED
  BY <1>4, <1>5

LEMMA FinalIs ==
    ASSUME NEW s \in Job
    PROVE  /\ Final(s).pc = s.pc /\ Final(s).kind = s.kind /\ Final(s).check = s.check
           /\ Final(s).run = s.run
BY DEF Final, Job

\* A licence is written with the verdict, by a job that goes on to take it up.
LEMMA VerdictsTidy ==
    ASSUME IInv, Order, Tidy, NEW j \in 1..MaxJobs, CloseCheck(j) \/ FailCheck(j)
    PROVE  Tidies(j)
<1> DEFINE r == jobs[j]
           n == Len(checks)
           next == Goes(j, AfterFinish(r))
           good == Final(next)
<1>1. r.pc \in {"close", "fail"} /\ r.pc \in Minding
  BY DEF CloseCheck, FailCheck, At, Minding, Attending
<1>2. /\ r \in Job /\ r.check = n /\ n \in Nat /\ n # 0 /\ n \in r.open /\ r.kind # "seed"
      /\ checks[n] \in Check /\ Minds(r, checks) /\ GoodJob(r, n, runs)
  BY <1>1, MindingAt, Standing
<1>3. /\ next.pc = AfterFinish(r) /\ next.pc \in {"retry", "cleanup"} /\ next.kind = r.kind
      /\ next.check = r.check /\ next.open = r.open /\ next.run = r.run
      /\ Minds(next, checks) /\ next \in Job
  <2>1. AfterFinish(r) \in {"retry", "cleanup"}
    BY DEF AfterFinish
  <2>2. /\ AfterFinish(r) \in Aftermath /\ AfterFinish(r) \in Phases
        /\ AfterFinish(r) \notin {"done", "vanished"}
    BY <2>1 DEF Aftermath, Phases
  <2>3. next = [r EXCEPT !.pc = AfterFinish(r)]
    BY <2>2 DEF Goes
  <2>4. next \in Job
    BY <1>2, <2>2, <2>3 DEF Job
  <2>5. QED
    BY <1>1, <2>1, <2>2, <2>4, MindingGoes
<1> HIDE DEF next
<1>4. /\ good.pc = AfterFinish(r) /\ good.pc \in {"retry", "cleanup"} /\ good.kind = r.kind
      /\ good.check = n /\ good.run = r.run
  BY <1>2, <1>3, FinalIs
<1> HIDE DEF good
<1>5. Minds(good, checks)
  BY <1>2, <1>4, FreeMinds
<1>6. CASE CloseCheck(j)
  <2> DEFINE c == Closed(checks[n], r.conclusion, r.retry, r.run, 0)
             bad == [r EXCEPT !.retry = "none", !.pc = "fail"]
  <2>1. r.pc = "close" /\ Patches(j, n, c, good, bad)
    BY <1>2, <1>6 DEF CloseCheck, At, good, next
  <2>2. r.retry = "child-cancelled" => r.auth /\ ~Retrying(r) /\ r.conclusion = "failure"
    BY <1>2, <2>1 DEF Minds, Authorises
  <2>3. r.run \in 1..Len(runs) /\ r.run # 0
    <3>1. r.run \in 1..Len(runs)
      BY <1>2, <2>1 DEF GoodJob, Knows, Linked
    <3>2. QED
      BY <3>1
  <2>4. /\ c.phase = "closed" /\ c.phase \notin Moving \cup {"reserved"}
        /\ c.conclusion = r.conclusion /\ c.retry = r.retry /\ c.run = r.run
    BY <1>2, <2>3, ClosedIs
  <2>5. /\ bad.pc = "fail" /\ bad.kind = r.kind /\ bad.check = n /\ bad.open = r.open
        /\ bad.source = r.source /\ bad.retry = "none" /\ bad.run = r.run
    BY <1>2 DEF Job
  <2> HIDE DEF c, bad
  <2>6. Minds(bad, checks)
    <3>1. Authorises(bad) /\ bad.pc \in Minding
      BY <2>5 DEF Authorises, Minding, Attending
    <3>2. QED
      BY <1>1, <1>2, <2>5, <3>1, EditMinds
  <2>7. Lost(c) => Retryable(c)
    BY <2>2, <2>4 DEF Lost, Retryable, Active
  <2>8. ASSUME NEW ds, Patched(checks, ds, c)
        PROVE  ~Loose(ds) /\ Len(ds) = n /\ ds[n] = c /\ (Licensed(ds) => r.retry = "child-cancelled")
    <3>1. Len(ds) = n /\ ds[n] = c
      BY <1>2, <2>8 DEF Patched
    <3>2. QED
      BY <2>4, <3>1 DEF Loose, Licensed, Lost
  <2>9. ASSUME NEW ds, Patched(checks, ds, c) PROVE Settles(good, ds, faults)
    <3>1. Licensed(ds) => AfterFinish(r) = "retry"
      BY <2>2, <2>8, <2>9 DEF AfterFinish
    <3>2. Licensed(ds) => Owes(good, ds, faults)
      BY <1>4, <2>4, <2>8, <2>9, <3>1 DEF Owes
    <3>3. QED
      BY <2>8, <2>9, <3>2 DEF Settles
  <2>10. ASSUME NEW ds, Patched(checks, ds, c) PROVE Settles(bad, ds, 1)
    <3>1. Owes(bad, ds, 1)
      BY <2>4, <2>5, <2>8, <2>10 DEF Owes
    <3>2. QED
      BY <2>8, <2>10, <3>1 DEF Settles
  <2>11. Settles(r, checks, 0) => Settles(bad, checks, 1)
    <3>1. bad.pc \in Minding /\ bad.pc \notin Aftermath
      BY <2>5 DEF Minding, Attending, Aftermath
    <3>2. QED
      BY <1>1, <2>5, <3>1, MindingSettles, HolderSettles
  <2>12. QED
    BY <1>2, <1>4, <1>5, <2>1, <2>4, <2>5, <2>6, <2>7, <2>9, <2>10, <2>11, PatchesTidies
<1>7. CASE FailCheck(j)
  <2> DEFINE c == Closed(checks[n], "failure", r.retry, FailedRun(r),
                         IF r.retry = "dispatch-not-observed" THEN r.lost ELSE 0)
  <2>1. r.pc = "fail" /\ Patches(j, n, c, good, next)
    BY <1>2, <1>7 DEF FailCheck, At, good, next
  <2>2. ~Lost(c) /\ c.phase \notin Moving \cup {"reserved"}
    <3>1. r.retry # "child-cancelled"
      BY <1>2, <2>1 DEF Minds, Authorises
    <3>2. QED
      BY <1>2, <3>1, ClosedIs DEF Lost
  <2> HIDE DEF c
  <2>3. Settles(r, checks, 0) => Settles(next, checks, 1)
    <3>1. next.pc \in Aftermath
      BY <1>3 DEF Aftermath
    <3>2. QED
      BY <1>1, <1>3, <3>1, MindingSettles, HolderSettles
  <2>4. QED
    BY <1>2, <1>3, <1>4, <1>5, <2>1, <2>2, <2>3, ClosesTidies
<1>8. QED
  BY <1>6, <1>7

\* The first steps of a job.
LEMMA StartMinds ==
    ASSUME NEW s, NEW cs, ~Retrying(s),
           \/ s.pc \in {"live", "ensure", "create"} /\ (s.kind = "seed" => s.open = {})
           \/ s.pc \in {"mark", "approve"} /\ s.check \in s.open /\ s.kind # "seed"
    PROVE  Minds(s, cs)
<1>1. s.pc \in {"live", "ensure", "create"} => s.pc \notin Minding
  BY DEF Minding, Preparing, Attending
<1>2. QED
  BY <1>1 DEF Minds, Retries, Authorises, Seeds

LEMMA StartingTidies ==
    ASSUME Tidy, NEW j, jobs[j].pc \notin Minding \cup Aftermath, NEW s, Becomes(j, s),
           Minds(s, checks), checks' = checks
    PROVE  Tidies(j)
BY StartingSettles, NothingToSettle, StaysTidies

LEMMA StartingPhases ==
    ASSUME NEW pc, pc \in {"idle", "live", "ensure", "create"}
    PROVE  pc \notin Minding \cup Aftermath
BY DEF Minding, Preparing, Attending, Aftermath

LEMMA BeginTidies ==
    ASSUME IInv, Order, Tidy, NEW j \in 1..MaxJobs,
           BeginSeed(j) \/ BeginApprove(j) \/ \E ci \in BOOLEAN : BeginCoordinate(j, ci)
    PROVE  Tidies(j) /\ jobs[j].pc # "vanished"
<1>1. jobs[j].pc = "idle" /\ jobs[j].pc \notin Minding \cup Aftermath
  BY StartingPhases DEF BeginSeed, BeginApprove, BeginCoordinate, CanBegin, At
<1>2. ASSUME NEW s, Reads(j, s), Minds(s, checks) PROVE Tidies(j)
  BY <1>1, <1>2, StartingTidies DEF Reads
<1>3. Minds(Goes(j, "done"), checks)
  BY GoneMinds
<1>4. CASE BeginSeed(j)
  <2> DEFINE s == Begun("seed", "live")
  <2>1. Reads(j, s)
    BY <1>4 DEF BeginSeed
  <2>2. s.pc = "live" /\ s.open = {} /\ ~Retrying(s)
    BY DEF Begun, Idle, Retrying
  <2> HIDE DEF s
  <2>3. QED
    BY <1>1, <1>2, <2>1, <2>2, StartMinds
<1>5. CASE BeginApprove(j)
  <2> DEFINE n == Len(checks)
             s == [Begun("approve", "approve") EXCEPT !.check = n, !.open = {n}]
  <2>1. Reads(j, s) \/ Reads(j, Goes(j, "done"))
    BY <1>5 DEF BeginApprove
  <2>2. /\ s.pc = "approve" /\ s.kind = "approve" /\ s.check = n /\ s.open = {n}
        /\ ~Retrying(s)
    BY DEF Begun, Idle, Retrying
  <2> HIDE DEF s
  <2>3. QED
    BY <1>1, <1>2, <1>3, <2>1, <2>2, StartMinds
<1>6. CASE \E ci \in BOOLEAN : BeginCoordinate(j, ci)
  <2>1. PICK ci \in BOOLEAN : BeginCoordinate(j, ci)
    BY <1>6
  <2> DEFINE n == Len(checks)
             was == IF n = 0 THEN Reserved ELSE checks[n]
             s == [Begun("coordinate", "live") EXCEPT !.ci = ci, !.seen = n, !.was = was]
  <2>2. Reads(j, s) \/ Reads(j, Goes(j, "done"))
    BY <2>1 DEF BeginCoordinate
  <2> HIDE DEF was
  <2>3. s.pc = "live" /\ s.kind = "coordinate" /\ ~Retrying(s)
    BY DEF Begun, Idle, Retrying
  <2> HIDE DEF s
  <2>4. QED
    BY <1>1, <1>2, <1>3, <2>2, <2>3, StartMinds
<1>7. QED
  BY <1>1, <1>4, <1>5, <1>6

\* What a job that starts may do.
LEMMA StartingAt ==
    ASSUME IInv, Order, Tidy, NEW j \in 1..MaxJobs, jobs[j].pc \in {"live", "ensure", "create"}
    PROVE  LET r == jobs[j] IN
           /\ r \in Job /\ ~Retrying(r) /\ r.pc \notin Minding \cup Aftermath
           /\ r.kind = "seed" => r.open = {}
           /\ \A pc \in {"ensure", "create", "cleanup"} :
                 Goes(j, pc).pc = pc /\ \A cs : Minds(Goes(j, pc), cs)
           /\ \A k, cs : Minds(Takes(j, k), cs) /\ Takes(j, k).pc \in {"mark", "done"}
<1> DEFINE r == jobs[j]
<1>1. r \in Job /\ Minds(r, checks) /\ Busy(r)
  BY Standing DEF Tidy, Busy
<1>2. ~Retrying(r) /\ (r.kind = "seed" => r.open = {})
  BY <1>1 DEF Minds, Seeds
<1>3. ASSUME NEW pc \in {"ensure", "create", "cleanup"}
      PROVE  Goes(j, pc).pc = pc /\ \A cs : Minds(Goes(j, pc), cs)
  <2> DEFINE s == Goes(j, pc)
  <2>1. s = [r EXCEPT !.pc = pc]
    BY <1>3 DEF Goes
  <2>2. s.pc = pc /\ s.kind = r.kind /\ s.open = r.open /\ s.source = r.source
    BY <1>1, <2>1 DEF Job
  <2> HIDE DEF s
  <2>3. ASSUME NEW cs PROVE Minds(s, cs)
    BY <1>2, <1>3, <2>2, StartMinds, FreeMinds DEF Retrying
  <2>4. QED
    BY <2>2, <2>3 DEF s
<1>4. ASSUME NEW k, NEW cs PROVE Minds(Takes(j, k), cs) /\ Takes(j, k).pc \in {"mark", "done"}
  <2>1. CASE r.kind = "seed"
    <3>1. Takes(j, k) = Goes(j, "done")
      BY <2>1 DEF Takes
    <3>2. QED
      BY <3>1, GoneMinds
  <2>2. CASE r.kind # "seed"
    <3> DEFINE s == [r EXCEPT !.check = k, !.open = {k}, !.pc = "mark"]
    <3>1. Takes(j, k) = s
      BY <2>2 DEF Takes
    <3>2. s.pc = "mark" /\ s.check \in s.open /\ s.kind = r.kind /\ s.source = r.source
      BY <1>1 DEF Job
    <3> HIDE DEF s
    <3>3. QED
      BY <1>2, <2>2, <3>1, <3>2, StartMinds DEF Retrying
  <2>3. QED
    BY <2>1, <2>2
<1>5. QED
  BY <1>1, <1>2, <1>3, <1>4, StartingPhases

LEMMA LiveTidies ==
    ASSUME IInv, Order, Tidy, NEW j \in 1..MaxJobs, SeedLive(j) \/ CoordinateLive(j)
    PROVE  Tidies(j)
<1> DEFINE r == jobs[j]
           n == Len(checks)
<1>1. r.pc = "live" /\ n \in Nat /\ Suits(r, checks, runs)
  BY Standing DEF SeedLive, CoordinateLive, At
<1>2. r \in Job /\ ~Retrying(r) /\ r.pc \notin Minding \cup Aftermath
  BY <1>1, StartingAt
<1>3. ASSUME NEW s, Reads(j, s), Minds(s, checks) PROVE Tidies(j)
  BY <1>2, <1>3, StartingTidies DEF Reads
<1>4. Goes(j, "done").pc = "done" /\ Minds(Goes(j, "done"), checks)
  BY GoneMinds
<1>5. CASE SeedLive(j)
  <2>1. Reads(j, Goes(j, "ensure")) \/ Reads(j, Goes(j, "done"))
    BY <1>5 DEF SeedLive
  <2>2. Minds(Goes(j, "ensure"), checks)
    BY <1>1, StartingAt
  <2>3. QED
    BY <1>3, <1>4, <2>1, <2>2
<1>6. CASE CoordinateLive(j)
  <2>1. r.seen = n /\ r.kind = "coordinate"
    <3>1. r.kind = "coordinate"
      BY <1>6 DEF CoordinateLive
    <3>2. QED
      BY <1>1, <3>1, StartingWhen DEF Found
  <2> DEFINE gone == [r EXCEPT !.open = {r.seen}, !.pc = "cleanup"]
             open == IF r.seen # 0 /\ Active(r.was) THEN {r.seen} ELSE {}
             went == [r EXCEPT !.open = open, !.seen = 0, !.was = Reserved, !.pc = "ensure"]
             c == Closed(checks[n], "cancelled", "none", 0, 0)
  <2>2. \/ n # 0 /\ Patches(j, n, c, Goes(j, "done"), gone)
        \/ Reads(j, went) \/ Reads(j, Goes(j, "done"))
    BY <1>6, <2>1 DEF CoordinateLive
  <2>3. gone.pc = "cleanup" /\ gone.kind = "coordinate"
    BY <1>2, <2>1 DEF Job
  <2> HIDE DEF open
  <2>4. went.pc = "ensure" /\ went.kind = "coordinate" /\ went.source = r.source
    BY <1>2, <2>1 DEF Job
  <2> HIDE DEF gone, went
  <2>5. CASE n # 0 /\ Patches(j, n, c, Goes(j, "done"), gone)
    <3>1. ~Lost(c) /\ c.phase \notin Moving \cup {"reserved"}
      BY <1>1, <2>5, ClosedIs, Standing DEF Lost
    <3>2. Minds(gone, checks)
      BY <2>3, FreeMinds
    <3>3. Settles(r, checks, 0) => Settles(gone, checks, 1)
      BY <1>2, StartingSettles, NothingToSettle
    <3> DEFINE done == Goes(j, "done")
    <3>4. Patches(j, n, c, done, gone) /\ done.pc # "reserve" /\ Minds(done, checks)
      BY <1>4, <2>5
    <3> HIDE DEF c, done
    <3>5. QED
      BY <2>3, <2>5, <3>1, <3>2, <3>3, <3>4, ClosesTidies
  <2>6. CASE Reads(j, went)
    <3>1. Minds(went, checks)
      BY <1>2, <2>4, StartMinds DEF Retrying
    <3>2. QED
      BY <1>3, <2>6, <3>1
  <2>7. QED
    BY <1>3, <1>4, <2>2, <2>5, <2>6
<1>7. QED
  BY <1>5, <1>6

LEMMA EnsureTidies ==
    ASSUME IInv, Order, Tidy, NEW j \in 1..MaxJobs, Ensure(j) \/ Create(j)
    PROVE  Tidies(j)
<1> DEFINE r == jobs[j]
           n == Len(checks)
<1>1. r.pc \in {"ensure", "create"} /\ n \in Nat /\ checks \in Seq(Check)
  BY Standing DEF Ensure, Create, At, TypeOK
<1>2. /\ r.pc \notin Minding \cup Aftermath
      /\ \A cs : Minds(Goes(j, "create"), cs) /\ Minds(Goes(j, "cleanup"), cs)
      /\ \A k, cs : Minds(Takes(j, k), cs)
  BY <1>1, StartingAt
<1>3. CASE Ensure(j)
  <2>1. \E s \in {Goes(j, "cleanup"), Takes(j, n), Goes(j, "create")} : Reads(j, s)
    BY <1>3 DEF Ensure
  <2>2. QED
    BY <1>2, <2>1, StartingTidies DEF Reads
<1>4. CASE Create(j)
  <2> DEFINE ds == Append(checks, Reserved)
             good == Takes(j, n + 1)
             bad == Goes(j, "cleanup")
  <2>1. Creates(j, good, bad)
    BY <1>4 DEF Create
  <2>2. Len(ds) = n + 1 /\ ds[n + 1] = Reserved /\ \A k \in 1..n : ds[k] = checks[k]
    BY <1>1, ReservedTyped, AppendProperties
  <2>3. Minds(good, ds) /\ Minds(bad, ds) /\ Minds(bad, checks)
    BY <1>2
  <2> HIDE DEF ds, good, bad
  <2>4. ASSUME NEW f, Settles(r, checks, f), NEW s, NEW g
        PROVE  Settles(s, checks, g) /\ Settles(s, ds, g)
    <3>1. ~Loose(checks) /\ ~Licensed(checks)
      BY <1>2, <2>4, StartingSettles
    <3>2. ~Licensed(ds)
      BY <1>1, <2>2 DEF Licensed, Lost, Reserved
    <3>3. ~Loose(ds)
      <4>1. ds[n + 1].phase \notin Moving
        BY <2>2 DEF Reserved, Moving
      <4>2. n # 0 => n \in 1..n /\ ~Lost(ds[n])
        BY <1>1, <2>2, <3>1 DEF Licensed
      <4>3. QED
        BY <1>1, <2>2, <4>1, <4>2 DEF Loose
    <3>4. QED
      BY <3>1, <3>2, <3>3, NothingToSettle
  <2>5. QED
    BY <2>1, <2>3, <2>4, CreatesTidies DEF ds
<1>5. QED
  BY <1>3, <1>4

\* The steps that run always().
LEMMA AftermathAt ==
    ASSUME IInv, Order, Tidy, NEW j \in 1..MaxJobs, jobs[j].pc \in Aftermath
    PROVE  LET r == jobs[j] IN
           /\ r \in Job /\ Len(checks) \in Nat /\ Busy(r) /\ Minds(r, checks)
           /\ r.pc # "cleanup" => r.kind # "seed"
           /\ r.kind = "seed" => r.open = {}
           /\ r.pc \in {"retry", "reserve", "abandon"} => r.check = Len(checks) /\ Len(checks) # 0
           /\ \A pc \in Aftermath :
                 LET s == Goes(j, pc) IN
                 /\ s.pc = pc /\ s.kind = r.kind /\ s.check = r.check /\ s.open = r.open
                 /\ s.source = r.source /\ s.run = r.run /\ s \in Job
           /\ r.kind # "seed" =>
                 \A pc \in {"cleanup", "unretry"} : \A cs : Minds(Goes(j, pc), cs)
<1> DEFINE r == jobs[j]
<1>1. r \in Job /\ Len(checks) \in Nat /\ Minds(r, checks) /\ Suits(r, checks, runs)
  BY Standing DEF Tidy
<1>2. Busy(r) /\ r.pc \notin {"live", "ensure", "create"}
  BY PhasesMind DEF Busy
<1>3. (r.pc # "cleanup" => r.kind # "seed") /\ (r.kind = "seed" => r.open = {})
  BY <1>1, <1>2 DEF Minds, Seeds
<1>4. r.pc \in {"retry", "reserve", "abandon"} => r.check = Len(checks) /\ Len(checks) # 0
  BY <1>1, HoldingWhen DEF Current
<1>5. ASSUME NEW pc \in Aftermath
      PROVE  LET s == Goes(j, pc) IN
             /\ s.pc = pc /\ s.kind = r.kind /\ s.check = r.check /\ s.open = r.open
             /\ s.source = r.source /\ s.run = r.run /\ s \in Job
  <2>1. pc \in Phases /\ pc \notin {"done", "vanished"}
    BY DEF Aftermath, Phases
  <2>2. Goes(j, pc) = [r EXCEPT !.pc = pc]
    BY <2>1 DEF Goes
  <2>3. QED
    BY <1>1, <2>1, <2>2 DEF Job
<1>6. ASSUME r.kind # "seed", NEW pc \in {"cleanup", "unretry"}, NEW cs
      PROVE  Minds(Goes(j, pc), cs)
  <2> DEFINE s == Goes(j, pc)
  <2>1. s.pc = pc /\ s.kind # "seed"
    BY <1>5, <1>6 DEF Aftermath
  <2> HIDE DEF s
  <2>2. Minds(s, cs)
    BY <2>1, FreeMinds
  <2>3. QED
    BY <2>2 DEF s
<1>7. QED
  BY <1>1, <1>2, <1>3, <1>4, <1>5, <1>6

\* A licence is never refused to the job that holds it.
LEMMA RetryTidies ==
    ASSUME IInv, Order, Tidy, NEW j \in 1..MaxJobs, Retry(j)
    PROVE  Tidies(j)
<1> DEFINE r == jobs[j]
           n == Len(checks)
           taken == Goes(j, "reserve")
           left == Goes(j, "unretry")
           may == /\ HistoryOk /\ n = r.check
                  /\ LossOf(r.check, r.run) /\ RunnerLosses(r.check) = {}
<1>1. r.pc = "retry" /\ r.pc \in Aftermath
  BY DEF Retry, At, Aftermath
<1>2. /\ r \in Job /\ n \in Nat /\ r.check = n /\ n # 0 /\ r.kind # "seed"
      /\ Minds(left, checks)
  BY <1>1, AftermathAt
<1>3. /\ left.pc = "unretry" /\ left.open = r.open
      /\ taken.pc = "reserve" /\ taken.open = r.open /\ taken.check = r.check
      /\ taken.run = r.run /\ taken.kind = r.kind
  BY <1>1, AftermathAt DEF Aftermath
<1>4. (may /\ Reads(j, taken)) \/ (~may /\ Reads(j, left))
  BY DEF Retry
<1> HIDE DEF taken, left
<1>5. CASE may /\ Reads(j, taken)
  <2>1. Lost(checks[n])
    BY <1>2, <1>5 DEF LossOf, Lost
  <2>2. taken.pc \notin Minding /\ taken.kind # "seed"
    BY <1>2, <1>3 DEF Minding, Preparing, Attending
  <2>3. Minds(taken, checks)
    BY <1>3, <2>1, <2>2 DEF Minds, Authorises, Seeds
  <2>4. Settles(r, checks, faults) => Settles(taken, checks, faults)
    BY <1>1, <1>3, LicenceSettles
  <2>5. Reads(j, taken)
    BY <1>5
  <2>6. QED
    BY <2>3, <2>4, <2>5, ReadsTidies
<1>6. CASE ~may /\ Reads(j, left)
  <2>1. ASSUME HistoryOk, Settles(r, checks, faults) PROVE Settles(left, checks, faults)
    <3>1. ~Licensed(checks)
      <4>1. SUFFICES ASSUME Licensed(checks) PROVE may
        BY <1>6
      <4>2. r.run = checks[n].run /\ Lost(checks[n])
        BY <2>1, <4>1 DEF Settles, Owes, Licensed
      <4>3. n \in 1..n
        BY <1>2
      <4>4. LossOf(r.check, r.run)
        BY <1>2, <4>2, <4>3 DEF Tidy, ChecksTidy, LossOf, Lost
      <4>5. RunnerLosses(r.check) = {}
        <5>1. ASSUME NEW k \in 1..n - 1 PROVE ~Lost(checks[k])
          <6>1. k \in 1..n /\ k # n
            BY <1>2
          <6>2. QED
            BY <4>2, <4>3, <6>1 DEF Order, ChecksOk
        <5>2. QED
          BY <1>2, <5>1 DEF RunnerLosses, Lost
      <4>6. QED
        BY <1>2, <2>1, <4>4, <4>5
    <3>2. Loose(checks) => n \in r.open /\ faults # 0
      BY <1>1, <2>1 DEF Settles, Tends, Replaces
    <3>3. QED
      BY <1>3, <3>1, <3>2 DEF Settles, Tends, Aftermath
  <2>2. Reads(j, left)
    BY <1>6
  <2>3. QED
    BY <1>2, <2>1, <2>2, ReadsTidies
<1>7. QED
  BY <1>4, <1>5, <1>6

\* What took the place of the source is the job's, told or untold.
LEMMA ReserveTidies ==
    ASSUME IInv, Order, Tidy, NEW j \in 1..MaxJobs, Reserve(j)
    PROVE  Tidies(j)
<1> DEFINE r == jobs[j]
           n == Len(checks)
           ds == Append(checks, Reserved)
           good == [r EXCEPT !.source = r.check, !.check = n + 1, !.open = @ \cup {n + 1},
                             !.run = 0, !.conclusion = "none", !.retry = "none",
                             !.pc = "acquire"]
           bad == Goes(j, "unretry")
<1>1. r.pc = "reserve" /\ r.pc \in Aftermath
  BY DEF Reserve, At, Aftermath
<1>2. /\ r \in Job /\ n \in Nat /\ r.check = n /\ n # 0 /\ r.kind # "seed"
      /\ Minds(r, checks) /\ \A cs : Minds(bad, cs)
  BY <1>1, AftermathAt
<1>3. /\ bad.pc = "unretry" /\ bad.open = r.open /\ bad.check = r.check /\ bad.run = r.run
  BY <1>1, AftermathAt DEF Aftermath
<1>4. /\ good.pc = "acquire" /\ good.source = n /\ good.check = n + 1 /\ good.kind = r.kind
      /\ good.open = r.open \cup {n + 1}
  BY <1>2 DEF Job
<1>5. Creates(j, good, bad)
  BY DEF Reserve
<1>6. Len(ds) = n + 1 /\ ds[n + 1] = Reserved /\ \A k \in 1..n : ds[k] = checks[k]
  BY ReservedTyped, AppendProperties, Standing DEF TypeOK
<1> HIDE DEF good, bad, ds
<1>7. n \in 1..n /\ ds[n] = checks[n]
  BY <1>2, <1>6
<1>8. Minds(good, ds)
  <2>1. Lost(ds[n]) \/ Cancelled(ds[n])
    BY <1>1, <1>2, <1>7 DEF Minds
  <2>2. Retries(good, ds)
    BY <1>2, <1>4, <1>6, <2>1 DEF Retries
  <2>3. QED
    BY <1>2, <1>4, <2>2 DEF Minds, Authorises, Seeds
<1>9. ~Licensed(ds) /\ (Loose(ds) => Lost(checks[n]))
  <2>1. ~Lost(Reserved) /\ Reserved.phase \notin Moving
    BY DEF Lost, Reserved, Moving
  <2>2. QED
    BY <1>2, <1>6, <1>7, <2>1 DEF Licensed, Loose
<1>10. Settles(good, ds, faults)
  <2>1. good.pc \in Minding /\ good.pc \notin Aftermath
    BY <1>4 DEF Minding, Preparing, Aftermath
  <2>2. QED
    BY <1>4, <1>6, <1>9, <2>1, HolderSettles
<1>11. ASSUME Settles(r, checks, 0) PROVE Settles(bad, checks, 1) /\ Settles(bad, ds, 1)
  <2>1. Settles(bad, checks, 1)
    BY <1>1, <1>3, <1>11, LicenceSettles
  <2>2. Loose(ds) => Replaces(bad, ds, 1)
    <3>1. SUFFICES ASSUME Loose(ds) PROVE Replaces(bad, ds, 1)
      OBVIOUS
    <3>2. Licensed(checks)
      BY <1>2, <1>9, <3>1 DEF Licensed
    <3>3. r.run = checks[n].run
      BY <1>11, <3>2 DEF Settles, Owes
    <3>4. QED
      BY <1>2, <1>3, <1>6, <1>7, <3>3 DEF Replaces, Reserved
  <2>3. QED
    BY <1>9, <2>1, <2>2 DEF Settles
<1>12. QED
  BY <1>2, <1>5, <1>8, <1>10, <1>11, CreatesTidies DEF ds

\* A licence that was not taken up, or its untold replacement, is found and closed.
LEMMA UnretryTidies ==
    ASSUME IInv, Order, Tidy, NEW j \in 1..MaxJobs, Unretry(j)
    PROVE  Tidies(j)
<1> DEFINE r == jobs[j]
           n == Len(checks)
           s == Goes(j, "cleanup")
           c == Closed(checks[n], "failure", "none", r.run, 0)
           must == /\ HistoryOk /\ LossOf(r.check, r.run)
                   /\ \/ n = r.check
                      \/ n = r.check + 1 /\ checks[n].phase = "reserved" /\ checks[n].run = 0
<1>1. r.pc = "unretry" /\ r.pc \in Aftermath
  BY DEF Unretry, At, Aftermath
<1>2. r \in Job /\ n \in Nat /\ r.kind # "seed" /\ \A cs : Minds(s, cs)
  BY <1>1, AftermathAt
<1>3. s.pc = "cleanup" /\ s.open = r.open
  BY <1>1, AftermathAt DEF Aftermath
<1>4. (must /\ Patches(j, n, c, s, s)) \/ (~must /\ Reads(j, s))
  BY DEF Unretry
<1>5. n # 0
  BY <1>1, HoldingWhen, Standing DEF Current, Replaced
<1> HIDE DEF s
<1>6. CASE must /\ Patches(j, n, c, s, s)
  <2>1. ~Lost(c) /\ c.phase \notin Moving \cup {"reserved"}
    <3>1. checks[n] \in Check
      BY <1>2, <1>5, Standing
    <3>2. QED
      BY <3>1, ClosedIs DEF Lost
  <2>2. Settles(r, checks, 0) => Settles(s, checks, 1)
    BY <1>1, AftermathSettles, NothingToSettle
  <2>3. Patches(j, n, c, s, s)
    BY <1>6
  <2> HIDE DEF c
  <2>4. QED
    BY <1>2, <1>3, <1>5, <2>1, <2>2, <2>3, ClosesTidies
<1>7. CASE ~must /\ Reads(j, s)
  <2>1. ASSUME HistoryOk, Settles(r, checks, faults) PROVE Settles(s, checks, faults)
    <3>1. ASSUME Replaces(r, checks, faults), Loose(checks) PROVE must
      <4>1. /\ n > 1 /\ r.check = n - 1 /\ checks[n].phase = "reserved"
            /\ r.run = checks[n - 1].run
        BY <3>1 DEF Replaces
      <4>2. n \in 1..n /\ n - 1 \in 1..n /\ n = r.check + 1
        BY <1>2, <4>1
      <4>3. Lost(checks[n - 1])
        BY <3>1, <4>1 DEF Loose, Moving
      <4>4. LossOf(r.check, r.run) /\ checks[n].run = 0
        BY <4>1, <4>2, <4>3 DEF Tidy, ChecksTidy, LossOf, Lost
      <4>5. QED
        BY <2>1, <4>1, <4>2, <4>4
    <3>2. ASSUME Licensed(checks) PROVE must
      <4>1. r.check = n /\ r.run = checks[n].run /\ Lost(checks[n]) /\ n \in 1..n
        BY <1>2, <1>5, <2>1, <3>2 DEF Settles, Owes, Licensed
      <4>2. LossOf(r.check, r.run)
        BY <4>1 DEF Tidy, ChecksTidy, LossOf, Lost
      <4>3. QED
        BY <2>1, <4>1, <4>2
    <3>3. Loose(checks) => n \in r.open /\ faults # 0
      BY <1>1, <1>7, <2>1, <3>1 DEF Settles, Tends
    <3>4. QED
      BY <1>3, <1>7, <3>2, <3>3 DEF Settles, Tends, Aftermath
  <2>2. Reads(j, s)
    BY <1>7
  <2>3. QED
    BY <1>2, <2>1, <2>2, ReadsTidies
<1>8. QED
  BY <1>4, <1>6, <1>7

\* Whatever was not finalized and is not completed is closed.
LEMMA CleansTidy ==
    ASSUME IInv, Order, Tidy, NEW j \in 1..MaxJobs, Cleanup(j) \/ Abandon(j)
    PROVE  Tidies(j)
<1> DEFINE r == jobs[j]
           n == Len(checks)
<1>1. r.pc \in {"cleanup", "abandon"} /\ r.pc \in Aftermath
  BY DEF Cleanup, Abandon, At, Aftermath
<1>2. /\ r \in Job /\ n \in Nat /\ (r.kind = "seed" => r.open = {})
      /\ r.pc = "abandon" => r.check = n /\ n # 0 /\ r.kind # "seed"
  BY <1>1, AftermathAt
<1>3. CASE Cleanup(j)
  <2>1. r.pc = "cleanup" /\ faults' = faults /\ checks' = checks
    BY <1>3 DEF Cleanup, At, Reads
  <2>2. ASSUME NEW f, Settles(r, checks, f)
        PROVE  ~Licensed(checks) /\ (Loose(checks) => n \in r.open /\ f # 0)
    BY <1>1, <2>1, <2>2 DEF Settles, Tends, Replaces, Owes
  <2>3. ASSUME NEW s, Becomes(j, s), Minds(s, checks),
               s.pc \in Aftermath, Loose(checks) /\ n \in r.open => n \in s.open
        PROVE  Tidies(j)
    <3>1. Settles(r, checks, faults) => Settles(s, checks, faults')
      BY <2>1, <2>2, <2>3 DEF Settles, Tends
    <3>2. QED
      BY <2>1, <2>3, <3>1, StaysTidies
  <2>4. CASE r.open = {} /\ Reads(j, Goes(j, "done"))
    <3>1. Settles(r, checks, faults) => Settles(Goes(j, "done"), checks, faults)
      BY <2>2, <2>4, NothingToSettle
    <3>2. QED
      BY <2>4, <3>1, GoneMinds, ReadsTidies
  <2>5. CASE \E k \in r.open : ~Active(checks[k]) /\ Reads(j, [r EXCEPT !.open = @ \ {k}])
    <3>1. PICK k \in r.open : ~Active(checks[k]) /\ Reads(j, [r EXCEPT !.open = @ \ {k}])
      BY <2>5
    <3> DEFINE s == [r EXCEPT !.open = @ \ {k}]
    <3>2. Becomes(j, s)
      BY <3>1 DEF Reads
    <3>3. s.pc = "cleanup" /\ s.kind = r.kind /\ s.open = r.open \ {k}
      BY <1>2, <2>1 DEF Job
    <3> HIDE DEF s
    <3>4. Minds(s, checks)
      BY <1>2, <3>1, <3>3, FreeMinds
    <3>5. Loose(checks) => k # n
      BY <3>1 DEF Loose, Active, Moving
    <3>6. QED
      BY <2>3, <3>2, <3>3, <3>4, <3>5 DEF Aftermath
  <2>6. CASE \E k \in r.open : Becomes(j, [r EXCEPT !.check = k, !.pc = "abandon"])
    <3>1. PICK k \in r.open : Becomes(j, [r EXCEPT !.check = k, !.pc = "abandon"])
      BY <2>6
    <3> DEFINE s == [r EXCEPT !.check = k, !.pc = "abandon"]
    <3>2. Becomes(j, s)
      BY <3>1
    <3>3. s.pc = "abandon" /\ s.kind = r.kind /\ s.open = r.open
      BY <1>2 DEF Job
    <3> HIDE DEF s
    <3>4. Minds(s, checks)
      BY <1>2, <3>1, <3>3, FreeMinds
    <3>5. QED
      BY <2>3, <3>2, <3>3, <3>4 DEF Aftermath
  <2>7. QED
    BY <1>3, <2>4, <2>5, <2>6 DEF Cleanup
<1>4. CASE Abandon(j)
  <2> DEFINE next == Goes(j, "cleanup")
             s == Final(next)
             c == Closed(checks[n], "failure", "none", 0, 0)
  <2>1. r.pc = "abandon" /\ r.check = n /\ n # 0 /\ r.kind # "seed"
    BY <1>2, <1>4 DEF Abandon, At
  <2>2. Patches(j, n, c, s, s)
    BY <1>4, <2>1 DEF Abandon
  <2>3. next \in Job /\ next.pc = "cleanup" /\ next.kind = r.kind
    BY <1>1, AftermathAt DEF Aftermath
  <2> HIDE DEF next
  <2>4. s.pc = "cleanup" /\ s.kind # "seed"
    BY <2>1, <2>3, FinalIs
  <2> HIDE DEF s
  <2>5. Minds(s, checks)
    BY <2>4, FreeMinds
  <2>6. ~Lost(c) /\ c.phase \notin Moving \cup {"reserved"}
    <3>1. checks[n] \in Check
      BY <1>2, <2>1, Standing
    <3>2. QED
      BY <3>1, ClosedIs DEF Lost
  <2> HIDE DEF c
  <2>7. Settles(r, checks, 0) => Settles(s, checks, 1)
    BY <2>1, AftermathSettles, NothingToSettle
  <2>8. QED
    BY <2>1, <2>2, <2>4, <2>5, <2>6, <2>7, ClosesTidies
<1>5. QED
  BY <1>3, <1>4

\* One failure leads to where the check is settled; with a second nothing is promised.
LEMMA FailsTidy ==
    ASSUME IInv, Order, Tidy, NEW j \in 1..MaxJobs, Busy(jobs[j]), ReadFails(j)
    PROVE  Tidies(j)
<1> DEFINE r == jobs[j]
           failed == [r EXCEPT !.retry = "none", !.pc = "fail"]
           unwanted == [r EXCEPT !.run = r.lost, !.lost = 0, !.pc = "cancel_child"]
<1>1. checks' = checks /\ faults' = faults + 1 /\ faults \in Nat /\ r \in Job
  BY Standing DEF ReadFails, Fault, TypeOK
<1>2. /\ failed.pc = "fail" /\ failed.retry = "none"
      /\ unwanted.pc = "cancel_child"
      /\ \A s \in {failed, unwanted} :
            s.kind = r.kind /\ s.check = r.check /\ s.open = r.open /\ s.source = r.source
  BY <1>1 DEF Job
<1>3. OnError(r) \in Ordinary /\ "fail" \in Ordinary /\ "cancel_child" \in Minding
  BY DEF OnError, Ordinary, Minding, Preparing, Attending
<1>4. \/ /\ r.pc \in {"live", "ensure"}
         /\ Becomes(j, Goes(j, "cleanup")) \/ Becomes(j, Goes(j, "done"))
      \/ /\ r.pc \in {"evaluate", "finish", "confirm", "acquire", "revalidate"}
         /\ Becomes(j, failed)
      \/ /\ r.pc \in {"approve", "recheck"}
         /\ Becomes(j, Goes(j, OnError(r))) \/ Becomes(j, Goes(j, "fail"))
      \/ r.pc = "adopt" /\ Becomes(j, unwanted)
      \/ r.pc \in {"reconcile", "cancel_child"} /\ Becomes(j, Goes(j, "fail"))
      \/ r.pc = "retry" /\ Becomes(j, Goes(j, "unretry"))
  BY DEF ReadFails, Busy
<1> HIDE DEF failed, unwanted
<1>5. CASE /\ r.pc \in {"live", "ensure"}
           /\ Becomes(j, Goes(j, "cleanup")) \/ Becomes(j, Goes(j, "done"))
  <2>1. r.pc \notin Minding \cup Aftermath
    BY <1>5, StartingPhases
  <2>2. Minds(Goes(j, "cleanup"), checks) /\ Minds(Goes(j, "done"), checks)
    BY <1>5, StartingAt, GoneMinds
  <2>3. QED
    BY <1>1, <1>5, <2>1, <2>2, StartingTidies
<1>6. CASE /\ r.pc \in {"evaluate", "finish", "confirm", "acquire", "revalidate"}
           /\ Becomes(j, failed)
  <2>1. r.pc \in Minding \ {"fail"} /\ failed.pc \in Minding
    BY <1>2, <1>6 DEF Minding, Preparing, Attending
  <2>2. Authorises(failed)
    BY <1>2 DEF Authorises
  <2>3. QED
    BY <1>1, <1>2, <1>6, <2>1, <2>2, MindsOn
<1>7. CASE /\ r.pc \in {"approve", "recheck"}
           /\ Becomes(j, Goes(j, OnError(r))) \/ Becomes(j, Goes(j, "fail"))
  <2>1. r.pc \in Minding \ Judging
    BY <1>7 DEF Minding, Preparing, Judging
  <2>2. QED
    BY <1>1, <1>3, <1>7, <2>1, GoesOn
<1>8. CASE r.pc = "adopt" /\ Becomes(j, unwanted)
  <2>1. r.pc \in Minding \ {"fail"}
    BY <1>8 DEF Minding, Preparing
  <2>2. Authorises(unwanted)
    BY <1>2 DEF Authorises
  <2>3. QED
    BY <1>1, <1>2, <1>3, <1>8, <2>1, <2>2, MindsOn
<1>9. CASE r.pc \in {"reconcile", "cancel_child"} /\ Becomes(j, Goes(j, "fail"))
  <2>1. r.pc \in Minding \ Judging
    BY <1>9 DEF Minding, Preparing, Attending, Judging
  <2>2. QED
    BY <1>1, <1>3, <1>9, <2>1, GoesOn
<1>10. CASE r.pc = "retry" /\ Becomes(j, Goes(j, "unretry"))
  <2> DEFINE s == Goes(j, "unretry")
  <2>1. r.pc \in Aftermath /\ "unretry" \in Aftermath
    BY <1>10 DEF Aftermath
  <2>2. s.pc = "unretry" /\ s.open = r.open /\ s.check = r.check /\ s.run = r.run
    BY <2>1, AftermathAt
  <2>3. Minds(s, checks)
    BY <1>10, <2>1, AftermathAt
  <2>4. Becomes(j, s)
    BY <1>10
  <2> HIDE DEF s
  <2>5. faults' # 0
    BY <1>1
  <2>6. Settles(r, checks, faults) => Settles(s, checks, faults')
    BY <1>10, <2>2, <2>5, LicenceSettles
  <2>7. QED
    BY <1>1, <2>3, <2>4, <2>6, StaysTidies
<1>11. QED
  BY <1>4, <1>5, <1>6, <1>7, <1>8, <1>9, <1>10

LEMMA DiesTidy ==
    ASSUME IInv, Order, Tidy, NEW j \in 1..MaxJobs, Busy(jobs[j]), StepDies(j)
    PROVE  Tidies(j)
<1> DEFINE r == jobs[j]
<1>1. /\ checks' = checks /\ faults' = faults + 1 /\ faults \in Nat /\ r \in Job
      /\ r.kind # "cancel" /\ Minds(r, checks) /\ r.pc # "wait"
  BY Standing, BusyWhen DEF StepDies, Fault, TypeOK, At, Tidy
<1>2. r.kind = "seed" => r.open = {} /\ r.pc \in {"live", "ensure", "create", "cleanup"}
  BY <1>1 DEF Minds, Seeds
<1>3. r.pc \in {"live", "ensure", "create"} \/ r.pc \in Minding \cup Aftermath
  <2>1. r.pc \in Phases
    BY <1>1 DEF Job
  <2>2. QED
    BY <2>1 DEF Busy, Phases, Minding, Preparing, Attending, Aftermath
<1>4. ASSUME NEW s, Becomes(j, s), Minds(s, checks),
             faults = 0 /\ Settles(r, checks, 0) => Settles(s, checks, 1)
      PROVE  Tidies(j)
  <2>1. faults' <= 1 => faults = 0 /\ faults' = 1
    BY <1>1
  <2>2. faults' <= 1 /\ Settles(r, checks, faults) => Settles(s, checks, faults')
    BY <1>4, <2>1
  <2>3. QED
    BY <1>1, <1>4, <2>2, StaysTidies
<1>5. CASE r.kind = "seed"
  <2> DEFINE s == Goes(j, "done")
  <2>1. r.pc \notin {"retry", "reserve", "close", "fail", "abandon"}
    BY <1>2, <1>5
  <2>2. Becomes(j, s)
    BY <1>5, <2>1 DEF StepDies
  <2>3. Minds(s, checks)
    BY GoneMinds
  <2> HIDE DEF s
  <2>4. Settles(r, checks, 0) => ~Loose(checks) /\ ~Licensed(checks)
    <3>1. r.pc = "cleanup" \/ r.pc \notin Minding \cup Aftermath
      BY <1>2, <1>5, StartingPhases
    <3>2. QED
      BY <3>1, StartingSettles, AftermathSettles
  <2>5. QED
    BY <1>4, <2>2, <2>3, <2>4, NothingToSettle
<1>6. CASE r.kind # "seed" /\ r.pc \in {"retry", "reserve"}
  <2> DEFINE s == Goes(j, "unretry")
  <2>1. Becomes(j, s)
    BY <1>1, <1>6 DEF StepDies
  <2>2. r.pc \in Aftermath /\ "unretry" \in Aftermath
    BY <1>6 DEF Aftermath
  <2>3. /\ s.pc = "unretry" /\ s.open = r.open /\ s.check = r.check /\ s.run = r.run
        /\ Minds(s, checks)
    BY <1>6, <2>2, AftermathAt
  <2> HIDE DEF s
  <2>4. Settles(r, checks, 0) => Settles(s, checks, 1)
    BY <1>6, <2>3, LicenceSettles
  <2>5. QED
    BY <1>4, <2>1, <2>3, <2>4
<1>7. CASE r.kind # "seed" /\ r.pc = "abandon"
  <2> DEFINE next == Goes(j, "cleanup")
             s == Final(next)
  <2>1. Becomes(j, s)
    BY <1>1, <1>7 DEF StepDies
  <2>2. next \in Job /\ next.pc = "cleanup" /\ next.kind = r.kind
    BY <1>7, AftermathAt DEF Aftermath
  <2> HIDE DEF next
  <2>3. s.pc = "cleanup" /\ s.kind # "seed"
    BY <1>7, <2>2, FinalIs
  <2> HIDE DEF s
  <2>4. Minds(s, checks)
    BY <2>3, FreeMinds
  <2>5. Settles(r, checks, 0) => Settles(s, checks, 1)
    BY <1>7, AftermathSettles, NothingToSettle
  <2>6. QED
    BY <1>4, <2>1, <2>4, <2>5
<1>8. CASE r.kind # "seed" /\ r.pc \in Minding
  <2>1. AfterFinish(r) \in {"retry", "cleanup"}
    BY DEF AfterFinish
  <2>2. \E pc \in {"retry", "cleanup"} : Becomes(j, Goes(j, pc))
    <3>1. r.pc \notin {"retry", "reserve", "abandon"}
      BY <1>8 DEF Minding, Preparing, Attending
    <3>2. CASE r.pc \in {"close", "fail"}
      BY <1>1, <1>8, <2>1, <3>2 DEF StepDies
    <3>3. CASE r.pc \notin {"close", "fail"}
      BY <1>1, <1>8, <3>1, <3>3 DEF StepDies
    <3>4. QED
      BY <3>2, <3>3
  <2>3. PICK pc \in {"retry", "cleanup"} : Becomes(j, Goes(j, pc))
    BY <2>2
  <2> DEFINE s == Goes(j, pc)
  <2>4. s.pc \in Aftermath /\ s.open = r.open /\ Minds(s, checks)
    BY <1>8, MindingGoes DEF Aftermath
  <2>5. Becomes(j, s)
    BY <2>3
  <2> HIDE DEF s
  <2>6. Settles(r, checks, 0) => Settles(s, checks, 1)
    BY <1>8, <2>4, MindingSettles, HolderSettles
  <2>7. QED
    BY <1>4, <2>4, <2>5, <2>6
<1>9. CASE r.kind # "seed" /\ r.pc \in {"live", "ensure", "create", "unretry", "cleanup"}
  <2> DEFINE s == Goes(j, "cleanup")
  <2>1. Becomes(j, s)
    BY <1>1, <1>9 DEF StepDies
  <2>2. Minds(s, checks)
    <3>1. r.pc \in {"live", "ensure", "create"} \/ r.pc \in Aftermath
      BY <1>9 DEF Aftermath
    <3>2. QED
      BY <1>9, <3>1, StartingAt, AftermathAt
  <2> HIDE DEF s
  <2>3. Settles(r, checks, 0) => ~Loose(checks) /\ ~Licensed(checks)
    <3>1. r.pc \in {"unretry", "cleanup"} \/ r.pc \notin Minding \cup Aftermath
      BY <1>9, StartingPhases
    <3>2. QED
      BY <3>1, StartingSettles, AftermathSettles
  <2>4. QED
    BY <1>4, <2>1, <2>2, <2>3, NothingToSettle
<1>10. QED
  BY <1>3, <1>5, <1>6, <1>7, <1>8, <1>9 DEF Aftermath

LEMMA VanishTidies ==
    ASSUME IInv, Order, Tidy, NEW j \in 1..MaxJobs, Vanish(j)
    PROVE  Tidies(j)
<1>1. Goes(j, "vanished").pc = "vanished" /\ Minds(Goes(j, "vanished"), checks)
  BY GoneMinds
<1>2. Becomes(j, Goes(j, "vanished")) /\ checks' = checks
  BY DEF Vanish
<1>3. QED
  BY <1>1, <1>2, StaysTidies

-----------------------------------------------------------------------------
(* Cancellations, GitHub and the child runs.                               *)

\* A cancelled check is settled, and takes nothing from the job that settles another.
LEMMA CalmSettles ==
    ASSUME NEW cs, NEW ds, NEW rs, NEW ss, Calm(cs, rs, ds, ss), Len(cs) \in Nat,
           NEW r, NEW f, NEW g, f # 0 => g # 0
    PROVE  /\ Settles(r, cs, f) => Settles(r, ds, g)
           /\ Minds(r, cs) /\ (r.pc = "reserve" => Len(cs) # 0) => Minds(r, ds)
           /\ ChecksTidy(cs) => ChecksTidy(ds)
<1> DEFINE n == Len(cs)
<1>1. /\ Len(ds) = n /\ n \in Nat
      /\ \A k \in 1..n : ds[k] = cs[k] \/ (Cancelled(ds[k]) /\ ds[k].run = cs[k].run)
  BY DEF Calm
<1>2. \A k \in 1..n : /\ ds[k].run = cs[k].run
                      /\ Lost(ds[k]) => ds[k] = cs[k]
                      /\ ds[k].phase # "closed" => ds[k] = cs[k]
                      /\ ds[k] = cs[k] \/ Cancelled(ds[k])
  BY <1>1, CancelledIsOld
<1>3. n # 0 => n \in 1..n
  BY <1>1
<1>4. n > 1 => n - 1 \in 1..n
  BY <1>1
<1>5. Loose(ds) => Loose(cs) /\ ds[n] = cs[n]
  BY <1>1, <1>2, <1>3, <1>4 DEF Loose, Moving
<1>6. Licensed(ds) => Licensed(cs)
  BY <1>1, <1>2, <1>3 DEF Licensed
<1>7. Tends(r, cs, f) => Tends(r, ds, g)
  BY <1>1 DEF Tends
<1>8. Replaces(r, cs, f) /\ ds[n] = cs[n] => Replaces(r, ds, g)
  BY <1>1, <1>2, <1>4 DEF Replaces
<1>9. Owes(r, cs, f) /\ n # 0 => Owes(r, ds, g)
  BY <1>1, <1>2, <1>3 DEF Owes
<1>10. Settles(r, cs, f) => Settles(r, ds, g)
  <2>1. Licensed(ds) => n # 0
    BY <1>1 DEF Licensed
  <2>2. QED
    BY <1>5, <1>6, <1>7, <1>8, <1>9, <2>1 DEF Settles
<1>11. Minds(r, cs) /\ (r.pc = "reserve" => n # 0) => Minds(r, ds)
  <2>1. \A k \in 1..n : Lost(cs[k]) \/ Cancelled(cs[k]) => Lost(ds[k]) \/ Cancelled(ds[k])
    BY <1>2
  <2>2. Retries(r, cs) => Retries(r, ds)
    BY <1>1, <1>4, <2>1 DEF Retries
  <2>3. QED
    BY <1>1, <1>3, <2>1, <2>2 DEF Minds
<1>12. ChecksTidy(cs) => ChecksTidy(ds)
  BY <1>1, <1>2 DEF ChecksTidy
<1>13. QED
  BY <1>10, <1>11, <1>12

\* A step of a job that is not of the group.
LEMMA CalmTidy ==
    ASSUME IInv, Order, Tidy, NEW j \in 1..MaxJobs, ~Busy(jobs[j]), jobs[j].pc # "vanished",
           NEW s, Becomes(j, s), ~Busy(s), Calm(checks, runs, checks', runs'),
           faults' \in Nat, faults <= faults'
    PROVE  Tidy'
<1>1. /\ jobs \in [1..MaxJobs -> Job] /\ faults \in Nat /\ Len(checks) \in Nat
      /\ faults # 0 => faults' # 0
  BY Standing DEF TypeOK
<1>2. jobs'[j] = s /\ \A i \in 1..MaxJobs : i # j => jobs'[i] = jobs[i]
  BY <1>1 DEF Becomes
<1>3. ASSUME NEW i \in 1..MaxJobs, i # j
      PROVE  /\ Settles(jobs[i], checks, faults) => Settles(jobs[i], checks', faults')
             /\ Minds(jobs[i], checks')
  <2>1. jobs[i].pc = "reserve" => Len(checks) # 0
    BY Standing, HoldingWhen DEF Current
  <2>2. Minds(jobs[i], checks)
    BY DEF Tidy
  <2>3. QED
    BY <1>1, <2>1, <2>2, CalmSettles
<1>4. ChecksTidy(checks)'
  <2>1. ChecksTidy(checks')
    BY <1>1, CalmSettles DEF Tidy
  <2>2. QED
    BY <2>1
<1>5. \A i \in 1..MaxJobs : Minds(jobs[i], checks)'
  <2>1. \A i \in 1..MaxJobs : Minds(jobs'[i], checks')
    BY <1>2, <1>3, MindsWhenAway
  <2>2. QED
    BY <2>1
<1>6. Steady' => Steady
  <2>1. Undisturbed' => Undisturbed
    <3>1. SUFFICES ASSUME Undisturbed' PROVE Undisturbed
      OBVIOUS
    <3>2. faults' <= 1 /\ \A i \in 1..MaxJobs : jobs'[i].pc # "vanished"
      BY <3>1 DEF Undisturbed, At
    <3>3. \A i \in 1..MaxJobs : jobs[i].pc # "vanished"
      BY <1>2, <3>2
    <3>4. faults <= 1
      BY <1>1, <3>2
    <3>5. QED
      BY <3>3, <3>4 DEF Undisturbed, At
  <2>2. HistoryOk' => HistoryOk
    <3>1. Len(checks') = Len(checks)
      BY DEF Calm
    <3>2. \A k \in 1..Len(checks) - 1 : k \in 1..Len(checks)
      BY <1>1
    <3>3. \A k \in 1..Len(checks) : Retryable(checks'[k]) => checks'[k] = checks[k]
      BY CancelledIsOld DEF Calm
    <3>4. QED
      BY <3>1, <3>2, <3>3 DEF HistoryOk
  <2>3. QED
    BY <2>1, <2>2 DEF Steady
<1>7. ASSUME Steady', Loose(checks') \/ Licensed(checks')
      PROVE  \E i \in 1..MaxJobs : Settles(jobs'[i], checks', faults')
  <2>1. Steady
    BY <1>6, <1>7
  <2>2. PICK i \in 1..MaxJobs : Busy(jobs[i]) /\ Settles(jobs[i], checks, faults)
    <3>2. Loose(checks) \/ Licensed(checks)
      <4>1. SUFFICES ASSUME ~Loose(checks), ~Licensed(checks) PROVE FALSE
        OBVIOUS
      <4>2. Settles(jobs[j], checks', faults')
        BY <1>1, <4>1, CalmSettles, NothingToSettle
      <4>3. ~Tends(jobs[j], checks', faults') /\ ~Replaces(jobs[j], checks', faults')
            /\ ~Owes(jobs[j], checks', faults')
        BY OnlyBusySettles
      <4>4. QED
        BY <1>7, <4>2, <4>3 DEF Settles
    <3>3. /\ Loose(checks) => \E i \in 1..MaxJobs : \/ Tends(jobs[i], checks, faults)
                                                    \/ Replaces(jobs[i], checks, faults)
          /\ Licensed(checks) => \E i \in 1..MaxJobs : Owes(jobs[i], checks, faults)
      BY <2>1 DEF Tidy
    <3>4. \E i \in 1..MaxJobs : Busy(jobs[i])
      BY <3>2, <3>3, OnlyBusySettles
    <3>5. PICK i \in 1..MaxJobs : Busy(jobs[i])
      BY <3>4
    <3>6. \A k \in 1..MaxJobs : Busy(jobs[k]) => k = i
      BY <3>5 DEF Order
    <3>7. Settles(jobs[i], checks, faults)
      BY <3>3, <3>6, OnlyBusySettles DEF Settles
    <3>8. QED
      BY <3>5, <3>7
  <2>3. i # j
    BY <2>2
  <2>4. QED
    BY <1>2, <1>3, <2>2, <2>3
<1>8. Steady' =>
         /\ Loose(checks') => \E i \in 1..MaxJobs : \/ Tends(jobs'[i], checks', faults')
                                                    \/ Replaces(jobs'[i], checks', faults')
         /\ Licensed(checks') => \E i \in 1..MaxJobs : Owes(jobs'[i], checks', faults')
  BY <1>7 DEF Settles
<1>9. QED
  BY <1>4, <1>5, <1>8 DEF Tidy

\* What leaves the checks and the jobs leaves nothing behind.
LEMMA StillTidy ==
    ASSUME Tidy, UNCHANGED <<checks, jobs, faults>>
    PROVE  Tidy'
<1>1. checks' = checks /\ jobs' = jobs /\ faults' = faults
  OBVIOUS
<1>2. Steady' => Steady
  BY <1>1 DEF Steady, Undisturbed, At, HistoryOk
<1>3. /\ ChecksTidy(checks')
      /\ \A j \in 1..MaxJobs : Minds(jobs'[j], checks')
      /\ Steady' =>
            /\ Loose(checks') => \E j \in 1..MaxJobs : \/ Tends(jobs'[j], checks', faults')
                                                       \/ Replaces(jobs'[j], checks', faults')
            /\ Licensed(checks') => \E j \in 1..MaxJobs : Owes(jobs'[j], checks', faults')
  BY <1>1, <1>2 DEF Tidy
<1>4. QED
  BY <1>3 DEF Tidy

-----------------------------------------------------------------------------
(* The steps together.                                                     *)

\* Failures are counted.
LEMMA FaultsGrow ==
    ASSUME IInv, NEW j \in 1..MaxJobs,
           Begin(j) \/ Step(j) \/ ReadFails(j) \/ StepDies(j) \/ Vanish(j)
    PROVE  faults' \in Nat /\ faults <= faults'
<1>1. SUFFICES faults' \in {faults, faults + 1}
  BY DEF IInv, TypeOK
<1>2. ASSUME NEW r, Reads(j, r) PROVE faults' = faults
  BY <1>2 DEF Reads
<1>3. ASSUME NEW k, NEW c, NEW r, NEW s, Patches(j, k, c, r, s)
      PROVE  faults' \in {faults, faults + 1}
  BY <1>3 DEF Patches, Fault
<1>4. ASSUME NEW r, NEW s, Creates(j, r, s) PROVE faults' \in {faults, faults + 1}
  BY <1>4 DEF Creates, Fault
<1>5. CASE Begin(j)
  BY <1>2, <1>5 DEF Begin, BeginSeed, BeginApprove, BeginCancel, BeginCoordinate
<1>6. CASE ReadFails(j) \/ StepDies(j) \/ Vanish(j)
  BY <1>6 DEF ReadFails, StepDies, Vanish, Fault
<1>7. CASE SeedLive(j) \/ CoordinateLive(j) \/ Ensure(j) \/ Create(j) \/ Mark(j)
  BY <1>2, <1>3, <1>4, <1>7 DEF SeedLive, CoordinateLive, Ensure, Create, Mark
<1>8. CASE Evaluate(j) \/ Conclude(j) \/ Approve(j) \/ Authorize(j) \/ Restore(j)
  BY <1>2, <1>3, <1>8 DEF Evaluate, Conclude, Approve, Authorize, Restore
<1>9. CASE Recheck(j) \/ Post(j) \/ Reconcile(j) \/ Adopt(j) \/ Publish(j) \/ Revoke(j)
  BY <1>2, <1>3, <1>9 DEF Recheck, Post, Reconcile, Adopt, Publish, Revoke, Fault
<1>10. CASE CancelChild(j) \/ Wait(j) \/ Finish(j) \/ Confirm(j)
  BY <1>2, <1>3, <1>10 DEF CancelChild, Wait, Finish, Confirm
<1>11. CASE CloseCheck(j) \/ FailCheck(j)
  BY <1>2, <1>3, <1>11 DEF CloseCheck, FailCheck
<1>12. CASE Retry(j) \/ Reserve(j) \/ Acquire(j) \/ Prepare(j) \/ Revalidate(j) \/ Unretry(j)
  BY <1>2, <1>3, <1>4, <1>12 DEF Retry, Reserve, Acquire, Prepare, Revalidate, Unretry
<1>13. CASE Cleanup(j) \/ Abandon(j) \/ CancelRuns(j) \/ CancelChecks(j)
  BY <1>2, <1>3, <1>13 DEF Cleanup, Abandon, CancelRuns, CancelChecks
<1>14. QED
  BY <1>5, <1>6, <1>7, <1>8, <1>9, <1>10, <1>11, <1>12, <1>13 DEF Step

\* A job that is no cancellation begins when no job of the group is at work.
LEMMA BeginKeepsTidy ==
    ASSUME IInv, Order, Tidy, ~Fork, NEW j \in 1..MaxJobs, Begin(j)
    PROVE  Tidy'
<1>1. faults' \in Nat /\ faults <= faults'
  BY FaultsGrow
<1>2. CASE BeginSeed(j) \/ BeginApprove(j) \/ \E ci \in BOOLEAN : BeginCoordinate(j, ci)
  <2>1. PICK kind \in {"seed", "approve", "coordinate"} : CanBegin(j, kind)
    BY <1>2 DEF BeginSeed, BeginApprove, BeginCoordinate
  <2>2. ASSUME NEW i \in 1..MaxJobs, Busy(jobs[i]) PROVE FALSE
    <3>1. Working(i) /\ jobs[i].kind # "cancel"
      BY <2>2, Standing DEF Busy, Working, Suits, KindOk
    <3>2. Group(jobs[i].kind) # Group(kind)
      BY <2>1, <3>1 DEF CanBegin
    <3>3. QED
      BY <3>2 DEF Group
  <2>3. Tidies(j) /\ jobs[j].pc # "vanished"
    BY <1>2, BeginTidies
  <2>4. QED
    BY <1>1, <2>2, <2>3, TidiesKeep
<1>3. CASE BeginCancel(j)
  <2>1. PICK targets : Reads(j, [Begun("cancel", "cancel_runs") EXCEPT !.targets = targets])
    BY <1>3 DEF BeginCancel
  <2> DEFINE s == [Begun("cancel", "cancel_runs") EXCEPT !.targets = targets]
  <2>2. s.pc = "cancel_runs"
    BY DEF Begun, Idle
  <2>3. Becomes(j, s) /\ checks' = checks /\ runs' \in {runs, Stop({})}
    BY <2>1 DEF Reads
  <2> HIDE DEF s
  <2>4. ~Busy(s) /\ ~Busy(jobs[j]) /\ jobs[j].pc # "vanished"
    BY <1>3, <2>2 DEF Busy, BeginCancel, CanBegin, At
  <2>5. Calm(checks, runs, checks', runs')
    BY <2>3, Standing, StopIsCalm
  <2>6. QED
    BY <1>1, <2>3, <2>4, <2>5, CalmTidy
<1>4. QED
  BY <1>2, <1>3 DEF Begin

LEMMA CancelKeepsTidy ==
    ASSUME IInv, Order, Tidy, NEW j \in 1..MaxJobs,
           \/ CancelRuns(j) \/ CancelChecks(j)
           \/ ~Busy(jobs[j]) /\ (ReadFails(j) \/ StepDies(j) \/ Vanish(j))
    PROVE  Tidy'
<1>1. /\ jobs \in [1..MaxJobs -> Job] /\ Suits(jobs[j], checks, runs)
      /\ faults' \in Nat /\ faults <= faults'
  BY Standing, FaultsGrow DEF TypeOK, Step
<1>2. CASE CancelRuns(j) \/ CancelChecks(j)
  <2>1. Orderly(j) /\ Calm(checks, runs, checks', runs') /\ ~Busy(jobs[j])'
    BY <1>2, CancelIsCalm
  <2>2. PICK s : Becomes(j, s)
    BY <2>1 DEF Orderly, Becomes
  <2>3. jobs'[j] = s
    BY <1>1, <2>2 DEF Becomes
  <2>4. ~Busy(s)
    BY <2>1, <2>3 DEF Busy
  <2>5. ~Busy(jobs[j]) /\ jobs[j].pc # "vanished"
    BY <1>2 DEF CancelRuns, CancelChecks, At, Busy
  <2>6. QED
    BY <1>1, <2>1, <2>2, <2>4, <2>5, CalmTidy
<1>3. CASE ~Busy(jobs[j]) /\ (ReadFails(j) \/ StepDies(j) \/ Vanish(j))
  <2>1. jobs[j].pc \in {"cancel_runs", "cancel_checks"}
    BY <1>3 DEF Busy, ReadFails, StepDies, Vanish, Working
  <2>2. jobs[j].kind = "cancel"
    BY <1>1, <2>1 DEF Suits, KindOk
  <2>3. \E pc \in {"done", "vanished"} : Becomes(j, Goes(j, pc))
    BY <1>3, <2>1, <2>2 DEF ReadFails, StepDies, Vanish
  <2>4. PICK pc \in {"done", "vanished"} : Becomes(j, Goes(j, pc))
    BY <2>3
  <2> DEFINE s == Goes(j, pc)
  <2>5. s.pc = pc /\ Becomes(j, s)
    BY <2>4 DEF Goes, Idle
  <2> HIDE DEF s
  <2>6. ~Busy(s) /\ jobs[j].pc # "vanished"
    BY <2>1, <2>5 DEF Busy
  <2>7. checks' = checks /\ runs' \in {runs, Stop({})}
    BY <1>3, <2>1 DEF ReadFails, StepDies, Vanish
  <2>8. Calm(checks, runs, checks', runs')
    BY <2>7, Standing, StopIsCalm
  <2>9. QED
    BY <1>1, <1>3, <2>5, <2>6, <2>8, CalmTidy
<1>4. QED
  BY <1>2, <1>3

LEMMA JobKeepsTidy ==
    ASSUME IInv, Order, Tidy, ~Fork, NEW j \in 1..MaxJobs,
           Begin(j) \/ Step(j) \/ ReadFails(j) \/ StepDies(j) \/ Vanish(j)
    PROVE  Tidy'
<1>1. faults' \in Nat /\ faults <= faults'
  BY FaultsGrow
<1>2. ASSUME Busy(jobs[j]), Tidies(j) PROVE Tidy'
  <2>1. jobs[j].pc # "vanished"
    BY <1>2 DEF Busy
  <2>2. QED
    BY <1>1, <1>2, <2>1, TidiesKeep
<1>3. CASE Begin(j)
  BY <1>3, BeginKeepsTidy
<1>4. CASE CancelRuns(j) \/ CancelChecks(j)
  BY <1>4, CancelKeepsTidy
<1>5. CASE Step(j) /\ ~CancelRuns(j) /\ ~CancelChecks(j)
  <2>1. Tidies(j)
    BY <1>5, LiveTidies, EnsureTidies, EvaluateTidies, DispatchTidies, FinishTidies,
       VerdictsTidy, RetryTidies, ReserveTidies, UnretryTidies, CleansTidy DEF Step
  <2>2. Busy(jobs[j])
    BY <1>5 DEF Step, Busy, At, SeedLive, CoordinateLive, Ensure, Create, Mark, Evaluate,
       Conclude, Approve, Authorize, Restore, Recheck, Post, Reconcile, Adopt, Publish,
       Revoke, CancelChild, Wait, Finish, Confirm, CloseCheck, FailCheck, Retry, Reserve,
       Acquire, Prepare, Revalidate, Unretry, Cleanup, Abandon
  <2>3. QED
    BY <1>2, <2>1, <2>2
<1>6. CASE Busy(jobs[j]) /\ (ReadFails(j) \/ StepDies(j) \/ Vanish(j))
  BY <1>2, <1>6, FailsTidy, DiesTidy, VanishTidies
<1>7. CASE ~Busy(jobs[j]) /\ (ReadFails(j) \/ StepDies(j) \/ Vanish(j))
  BY <1>7, CancelKeepsTidy
<1>8. QED
  BY <1>3, <1>4, <1>5, <1>6, <1>7

LEMMA InitIsTidy == ASSUME Init PROVE Tidy
<1>1. checks = <<>> /\ jobs = [j \in 1..MaxJobs |-> Idle]
  BY DEF Init
<1>2. Len(checks) = 0
  BY <1>1, EmptySeq
<1>3. ASSUME NEW j \in 1..MaxJobs PROVE Minds(jobs[j], checks)
  <2>1. ~Busy(jobs[j])
    BY <1>1 DEF Idle, Busy
  <2>2. QED
    BY <2>1, MindsWhenAway
<1>4. ChecksTidy(checks) /\ ~Loose(checks) /\ ~Licensed(checks)
  BY <1>2 DEF ChecksTidy, Loose, Licensed
<1>5. QED
  BY <1>3, <1>4 DEF Tidy

LEMMA NextKeepsTidy ==
    ASSUME IInv, Order, Tidy, ~Fork, [Next]_vars
    PROVE  Tidy'
<1>1. CASE UNCHANGED vars
  BY <1>1, StillTidy DEF vars
<1>2. CASE Environment
  <2>1. UNCHANGED <<checks, jobs, faults>>
    BY <1>2 DEF Environment, Move, Appear, Authenticate, Refuse, RunEnds, RunBecomes,
       ReadVerdict, AcceptVerdict, RequiredBecomes
  <2>2. QED
    BY <2>1, StillTidy
<1>3. ASSUME NEW j \in 1..MaxJobs,
             Begin(j) \/ Step(j) \/ ReadFails(j) \/ StepDies(j) \/ Vanish(j)
      PROVE  Tidy'
  BY <1>3, JobKeepsTidy
<1>4. QED
  BY <1>1, <1>2, <1>3 DEF Next

-----------------------------------------------------------------------------
(* The theorems.                                                           *)

\* As long as one call or step at most has failed, a check that looks at work, a reserved
\* retry and an authorised one have each a job that will settle them: it is about to, or the
\* steps that run always() are.
THEOREM GateTidy == ASSUME ~Fork PROVE Spec => []Tidy
<1>1. Init => Tidy
  BY InitIsTidy
<1>2. IInv /\ Order /\ Tidy /\ [Next]_vars => Tidy'
  BY NextKeepsTidy
<1>3. QED
  BY <1>1, <1>2, GateInvariant, GateOrder, PTL DEF Spec

\* When all jobs have ended, one failure included, no check is left that looks at work, and no
\* runner-loss retry is left authorised or reserved: abandonRunnerLossRetrySource and
\* abandonPrGate, the last steps of a job, find and close whatever the failure left.
THEOREM RetryLeavesNothingAlways == ASSUME ~Fork PROVE Spec => []RetryLeavesNothing
<1>1. IInv /\ Tidy => RetryLeavesNothing
  <2> SUFFICES ASSUME IInv, Tidy, Undisturbed, \A j \in 1..MaxJobs : ~Working(j),
                      checks # <<>>, HistoryOk
               PROVE  LET n == Len(checks) IN
                      /\ ~InTransit(n)
                      /\ checks[n].retry # "child-cancelled"
                      /\ n > 1 /\ checks[n].phase = "reserved" =>
                            checks[n - 1].retry # "child-cancelled"
    BY DEF RetryLeavesNothing
  <2>1. \A j \in 1..MaxJobs : ~Busy(jobs[j])
    BY DEF Working, Busy
  <2>2. ~Loose(checks) /\ ~Licensed(checks)
    BY <2>1, OnlyBusySettles DEF Tidy, Steady
  <2>3. Len(checks) \in Nat /\ Len(checks) # 0
    BY LenProperties, EmptySeq DEF IInv, TypeOK
  <2>4. QED
    BY <2>2, <2>3 DEF Loose, Licensed, Lost, InTransit, Moving
<1>2. QED
  BY <1>1, GateInvariant, GateTidy, PTL

-----------------------------------------------------------------------------
(* The one retry, for forks too.  A fork's coordination is not held back   *)
(* with the other jobs, but it ends before the dispatch: whoever judges a  *)
(* child run excludes the others that do, and no other step writes a       *)
(* marker of a lost runner.                                                *)

\* The jobs of the diff's own concurrency group, and the others.
Bound(r) == Busy(r) /\ Group(r.kind) = "exact diff"

Unbound(r) == Busy(r) /\ Group(r.kind) = "unbound"

\* The phases in which a job may carry the reason for the retry of a lost runner.
Licensing == {"confirm", "close", "retry", "reserve", "unretry", "cleanup", "abandon"}

\* Those of a coordination that has nothing to dispatch.
Outer == {"live", "ensure", "create", "mark", "evaluate", "conclude", "fail", "cleanup",
          "abandon"}

NoneLater(r, cs) == \A k \in 1..Len(cs) : Lost(cs[k]) => k <= r.check

NoneElse(r, cs) == \A k \in 1..Len(cs) : Lost(cs[k]) => k = r.check

Apt(r, cs) ==
    /\ KindOk(r)
    /\ r.retry = "child-cancelled" => r.pc \in Licensing
    /\ Unbound(r) => r.pc \in Outer /\ ~r.auth /\ r.retry # "child-cancelled"
    /\ Bound(r) /\ r.pc \in Holding \ {"abandon"} => NoneLater(r, cs)
    /\ r.pc \in Judged /\ r.retry = "child-cancelled" => NoneElse(r, cs)

Apart ==
    /\ Fork => plan # "plain"
    /\ \A i, j \in 1..MaxJobs : Bound(jobs[i]) /\ Bound(jobs[j]) => i = j
    /\ \A j \in 1..MaxJobs : Apt(jobs[j], checks)
    /\ \A k, m \in 1..Len(checks) : Lost(checks[k]) /\ Lost(checks[m]) => k = m

\* No check is marked that was not.
Lossless(cs, ds) == \A k \in 1..Len(ds) : Lost(ds[k]) => k \in 1..Len(cs) /\ Lost(cs[k])

\* What a job may become, whatever happens to the checks in that step.
Allowed(s, r, cs) ==
    /\ Bound(s) => Bound(r)
    /\ \A ds : Lossless(cs, ds) => Apt(s, ds)

\* What the job that goes on as s has to see to.
Follows(s, r) ==
    /\ s.kind = r.kind /\ s.check = r.check
    /\ s.pc \notin {"cancel_runs", "cancel_checks"}
    /\ s.retry = "child-cancelled" => r.retry = "child-cancelled" /\ s.pc \in Licensing
    /\ Unbound(r) => s.pc \in Outer /\ ~s.auth
    /\ s.pc \in Holding \ {"abandon"} => r.pc \in Holding \ {"abandon"}
    /\ s.pc \in Judged => r.pc \in Judged

Spares(j) ==
    /\ \E s : jobs' = [jobs EXCEPT ![j] = s] /\ Allowed(s, jobs[j], checks)
    /\ Lossless(checks, checks')
    /\ plan' = plan

LEMMA LosslessItself == ASSUME NEW cs PROVE Lossless(cs, cs)
BY DEF Lossless

LEMMA GroupIs ==
    ASSUME NEW r
    PROVE  /\ Bound(r) \/ Unbound(r) <=> Busy(r)
           /\ ~(Bound(r) /\ Unbound(r))
           /\ Unbound(r) => Fork /\ r.kind = "coordinate"
           /\ Unbound(r) <=> Busy(r) /\ r.kind = "coordinate" /\ Fork
BY DEF Bound, Unbound, Group

LEMMA FollowsAllowed ==
    ASSUME NEW r, NEW s, NEW cs, Busy(r), Apt(r, cs), Follows(s, r)
    PROVE  Allowed(s, r, cs)
<1>1. (Bound(s) => Bound(r)) /\ (Unbound(s) => Unbound(r))
  BY DEF Bound, Unbound, Follows
<1>2. ASSUME NEW ds, Lossless(cs, ds) PROVE Apt(s, ds)
  <2>1. KindOk(s)
    BY DEF Follows, Apt, KindOk
  <2>2. Unbound(s) => s.pc \in Outer /\ ~s.auth /\ s.retry # "child-cancelled"
    BY <1>1 DEF Follows, Apt
  <2>3. ASSUME Bound(s), s.pc \in Holding \ {"abandon"} PROVE NoneLater(s, ds)
    <3>1. NoneLater(r, cs) /\ s.check = r.check
      BY <1>1, <2>3 DEF Follows, Apt
    <3>2. QED
      BY <1>2, <3>1 DEF NoneLater, Lossless
  <2>4. ASSUME s.pc \in Judged, s.retry = "child-cancelled" PROVE NoneElse(s, ds)
    <3>1. NoneElse(r, cs) /\ s.check = r.check
      BY <2>4 DEF Follows, Apt
    <3>2. QED
      BY <1>2, <3>1 DEF NoneElse, Lossless
  <2>5. s.retry = "child-cancelled" => s.pc \in Licensing
    BY DEF Follows
  <2>6. QED
    BY <2>1, <2>2, <2>3, <2>4, <2>5 DEF Apt
<1>3. QED
  BY <1>1, <1>2 DEF Allowed

\* A job that has ended, or that is a cancellation.
LEMMA AwayAllowed ==
    ASSUME NEW s, NEW r, NEW cs, ~Busy(s), s.retry # "child-cancelled",
           s.pc \in {"cancel_runs", "cancel_checks"} => s.kind = "cancel"
    PROVE  Allowed(s, r, cs)
<1>1. ~Bound(s) /\ ~Unbound(s) /\ KindOk(s) /\ s.pc \notin Judged
  BY DEF Bound, Unbound, KindOk, Busy, Judged
<1>2. QED
  BY <1>1 DEF Allowed, Apt

LEMMA GoesAllowed ==
    ASSUME NEW j, jobs[j] \in Job, NEW cs, NEW pc \in {"done", "vanished"}
    PROVE  Allowed(Goes(j, pc), jobs[j], cs) /\ Allowed(Final(Goes(j, pc)), jobs[j], cs)
<1> DEFINE s == Goes(j, pc)
<1>1. s = [Idle EXCEPT !.pc = pc]
  BY DEF Goes
<1>2. s \in Job /\ s.pc = pc /\ s.retry = "none"
  BY <1>1, IdleTyped DEF Job, Phases, Idle
<1> HIDE DEF s
<1>3. Final(s).pc = pc /\ Final(s).retry = "none"
  BY <1>2 DEF Final, Job
<1>4. ~Busy(s) /\ ~Busy(Final(s)) /\ pc \notin {"cancel_runs", "cancel_checks"}
  BY <1>2, <1>3 DEF Busy
<1>5. Allowed(s, jobs[j], cs) /\ Allowed(Final(s), jobs[j], cs)
  BY <1>2, <1>3, <1>4, AwayAllowed
<1>6. QED
  BY <1>5 DEF s

\* A job whose phase alone changes.
LEMMA PhaseAllowed ==
    ASSUME NEW j, NEW cs, jobs[j] \in Job, Busy(jobs[j]), Apt(jobs[j], cs),
           NEW pc \in Phases \ {"done", "vanished", "cancel_runs", "cancel_checks"},
           pc \in Judged => jobs[j].pc \in Judged,
           pc \in Holding \ {"abandon"} => jobs[j].pc \in Holding \ {"abandon"},
           Unbound(jobs[j]) => pc \in Outer
    PROVE  /\ (jobs[j].retry = "child-cancelled" => pc \in Licensing)
                 => Allowed(Goes(j, pc), jobs[j], cs)
           /\ Allowed(Final(Goes(j, pc)), jobs[j], cs)
<1> DEFINE r == jobs[j]
           s == Goes(j, pc)
<1>1. s = [r EXCEPT !.pc = pc]
  BY DEF Goes
<1>2. /\ s \in Job /\ s.pc = pc /\ s.kind = r.kind /\ s.check = r.check
      /\ s.retry = r.retry /\ s.auth = r.auth
  BY <1>1 DEF Job
<1>3. Unbound(r) => ~r.auth
  BY DEF Apt
<1> HIDE DEF s
<1>4. /\ Final(s).pc = pc /\ Final(s).kind = r.kind /\ Final(s).check = r.check
      /\ Final(s).retry = "none" /\ Final(s).auth = r.auth
  BY <1>2 DEF Final, Job
<1>5. (r.retry = "child-cancelled" => pc \in Licensing) => Follows(s, r)
  BY <1>2, <1>3 DEF Follows
<1>6. Follows(Final(s), r)
  BY <1>3, <1>4 DEF Follows
<1>7. QED
  BY <1>5, <1>6, FollowsAllowed DEF s

-----------------------------------------------------------------------------
(* The kinds of steps.                                                     *)

LEMMA Facing ==
    ASSUME IInv, Apart, NEW j \in 1..MaxJobs
    PROVE  /\ jobs[j] \in Job /\ Apt(jobs[j], checks) /\ jobs \in [1..MaxJobs -> Job]
           /\ JobTyped(jobs[j], Len(checks)) /\ Len(checks) \in Nat /\ checks \in Seq(Check)
           /\ \A k \in 1..Len(checks) : checks[k] \in Check
           /\ jobs[j].pc \in Holding => jobs[j].check \in 1..Len(checks)
BY Known DEF Apart, TypeOK, GoodJob, JobTyped, Knows

\* A step that changes no check.
LEMMA StaysSpares ==
    ASSUME NEW j, NEW s, Becomes(j, s), checks' = checks, plan' = plan,
           Allowed(s, jobs[j], checks)
    PROVE  Spares(j)
BY LosslessItself DEF Spares, Becomes

LEMMA PatchSpares ==
    ASSUME IInv, NEW k \in 1..Len(checks), NEW c \in Check, ~Lost(c)
    PROVE  Lossless(checks, [checks EXCEPT ![k] = c])
<1>1. checks \in Seq(Check)
  BY DEF IInv, TypeOK
<1>2. QED
  BY <1>1, ExceptSeq DEF Lossless

LEMMA PatchesSpares ==
    ASSUME IInv, NEW j, NEW k \in 1..Len(checks), NEW c \in Check, ~Lost(c), NEW good, NEW bad,
           Patches(j, k, c, good, bad),
           Allowed(good, jobs[j], checks), Allowed(bad, jobs[j], checks)
    PROVE  Spares(j)
<1>1. /\ Becomes(j, good) \/ Becomes(j, bad)
      /\ checks' \in {checks, [checks EXCEPT ![k] = c]} /\ plan' = plan
  BY DEF Patches
<1>2. Lossless(checks, checks')
  BY <1>1, PatchSpares, LosslessItself
<1>3. QED
  BY <1>1, <1>2 DEF Spares, Becomes

LEMMA CreatesSpares ==
    ASSUME IInv, NEW j, NEW good, NEW bad, Creates(j, good, bad),
           Allowed(good, jobs[j], checks), Allowed(bad, jobs[j], checks)
    PROVE  Spares(j)
<1>1. /\ Becomes(j, good) \/ Becomes(j, bad)
      /\ checks' \in {checks, Append(checks, Reserved)} /\ plan' = plan
  BY DEF Creates
<1>2. Lossless(checks, Append(checks, Reserved))
  <2>1. ~Lost(Reserved)
    BY DEF Lost, Reserved
  <2>2. checks \in Seq(Check) /\ Len(checks) \in Nat
    BY LenProperties DEF IInv, TypeOK
  <2>3. QED
    BY <2>1, <2>2, ReservedTyped, AppendProperties DEF Lossless
<1>3. Lossless(checks, checks')
  BY <1>1, <1>2, LosslessItself
<1>4. QED
  BY <1>1, <1>3 DEF Spares, Becomes

\* No PATCH but the one of a verdict writes the marker.
LEMMA PatchesPlain ==
    ASSUME NEW c \in Check
    PROVE  /\ \A phase \in ActivePhases :
                 /\ Started(c, phase) \in Check /\ ~Lost(Started(c, phase))
                 /\ \A run \in Nat : LET d == [Started(c, phase) EXCEPT !.run = run] IN
                                     d \in Check /\ ~Lost(d)
           /\ \A conclusion \in Conclusions, retry \in Reasons, run \in Nat, lost \in Nat :
                 LET d == Closed(c, conclusion, retry, run, lost) IN
                 d \in Check /\ (retry # "child-cancelled" => ~Lost(d))
<1>1. ASSUME NEW phase \in ActivePhases
      PROVE  /\ Started(c, phase) \in Check /\ ~Lost(Started(c, phase))
             /\ \A run \in Nat : LET d == [Started(c, phase) EXCEPT !.run = run] IN
                                 d \in Check /\ ~Lost(d)
  BY DEF Started, Check, Lost, Conclusions, Reasons, ActivePhases
<1>2. ASSUME NEW conclusion \in Conclusions, NEW retry \in Reasons,
             NEW run \in Nat, NEW lost \in Nat
      PROVE  LET d == Closed(c, conclusion, retry, run, lost) IN
             d \in Check /\ (retry # "child-cancelled" => ~Lost(d))
  BY DEF Closed, Check, Lost
<1>3. QED
  BY <1>1, <1>2

-----------------------------------------------------------------------------
(* The steps of the jobs.                                                  *)

\* The phases in which a job prepares or attends to a run and has no licence.
Serving == Holding \ Licensing

\* Where such a job can go.
LEMMA ServingGoes ==
    ASSUME IInv, Apart, NEW j \in 1..MaxJobs, jobs[j].pc \in Serving
    PROVE  LET r == jobs[j] IN
           /\ Busy(r) /\ r.retry # "child-cancelled" /\ r.check \in 1..Len(checks)
           /\ checks[r.check] \in Check
           /\ Unbound(r) => r.pc \in {"mark", "evaluate", "conclude", "fail"} /\ ~r.auth
           /\ \A pc \in {"done", "cleanup", "vanished"} : /\ Allowed(Goes(j, pc), r, checks)
                                                          /\ Allowed(Final(Goes(j, pc)), r, checks)
           /\ \A pc \in {"evaluate", "conclude", "fail"} : Allowed(Goes(j, pc), r, checks)
           /\ ~Unbound(r) => \A pc \in Serving : Allowed(Goes(j, pc), r, checks)
           /\ ~Unbound(r) => /\ Allowed(Goes(j, "retry"), r, checks)
                             /\ Allowed(Final(Goes(j, "retry")), r, checks)
<1> DEFINE r == jobs[j]
<1>1. /\ r \in Job /\ Apt(r, checks) /\ r.check \in 1..Len(checks)
      /\ checks[r.check] \in Check
  BY Facing DEF Serving
<1>2. Busy(r) /\ r.pc \in Holding \ {"abandon"} /\ r.pc \notin Judged
  BY DEF Serving, Busy, Holding, Licensing, Judged
<1>3. r.retry # "child-cancelled"
  BY <1>1 DEF Apt, Serving
<1>4. Unbound(r) => r.pc \in {"mark", "evaluate", "conclude", "fail"} /\ ~r.auth
  BY <1>1 DEF Apt, Serving, Licensing, Outer, Holding
<1>5. ASSUME NEW pc \in Serving \cup {"cleanup", "retry"},
             Unbound(r) => pc \in {"mark", "evaluate", "conclude", "fail", "cleanup"}
      PROVE  Allowed(Goes(j, pc), r, checks) /\ Allowed(Final(Goes(j, pc)), r, checks)
  <2>1. /\ pc \in Phases \ {"done", "vanished", "cancel_runs", "cancel_checks"}
        /\ pc \notin Judged /\ (Unbound(r) => pc \in Outer)
    BY <1>5 DEF Serving, Holding, Licensing, Phases, Judged, Outer
  <2>2. QED
    BY <1>1, <1>2, <1>3, <2>1, PhaseAllowed
<1>6. \A pc \in {"evaluate", "conclude", "fail"} : pc \in Serving
  BY DEF Serving, Holding, Licensing
<1>7. /\ \A pc \in {"done", "vanished"} : /\ Allowed(Goes(j, pc), r, checks)
                                          /\ Allowed(Final(Goes(j, pc)), r, checks)
      /\ Allowed(Goes(j, "cleanup"), r, checks) /\ Allowed(Final(Goes(j, "cleanup")), r, checks)
  BY <1>1, <1>5, GoesAllowed
<1>8. QED
  BY <1>1, <1>2, <1>3, <1>4, <1>5, <1>6, <1>7

\* From the mark to the dispatch.
LEMMA EvaluateSpares ==
    ASSUME IInv, Apart, NEW j \in 1..MaxJobs,
           \/ Mark(j) \/ Evaluate(j) \/ Conclude(j) \/ Approve(j) \/ Authorize(j)
           \/ Restore(j) \/ Recheck(j) \/ Acquire(j) \/ Prepare(j) \/ Revalidate(j)
    PROVE  Spares(j)
<1> DEFINE r == jobs[j]
           k == jobs[j].check
<1>1. r.pc \in {"mark", "evaluate", "conclude", "approve", "authorize", "restore", "recheck",
                "acquire", "prepare", "revalidate"}
  BY DEF Mark, Evaluate, Conclude, Approve, Authorize, Restore, Recheck, Acquire, Prepare,
         Revalidate, At
<1>2. r.pc \in Serving
  BY <1>1 DEF Serving, Holding, Licensing
<1>3. /\ k \in 1..Len(checks) /\ checks[k] \in Check
      /\ \A pc \in {"done", "cleanup"} : /\ Allowed(Goes(j, pc), r, checks)
                                         /\ Allowed(Final(Goes(j, pc)), r, checks)
      /\ \A pc \in {"evaluate", "conclude", "fail"} : Allowed(Goes(j, pc), r, checks)
      /\ ~Unbound(r) =>
            \A pc \in {"authorize", "restore", "recheck", "post", "prepare", "revalidate"} :
               Allowed(Goes(j, pc), r, checks)
      /\ Unbound(r) => r.pc \in {"mark", "evaluate", "conclude"}
  <2>1. \A pc \in {"authorize", "restore", "recheck", "post", "prepare", "revalidate"} :
           pc \in Serving
    BY DEF Serving, Holding, Licensing
  <2>2. QED
    BY <1>1, <1>2, <2>1, ServingGoes
<1>4. ASSUME NEW pc, Reads(j, Goes(j, pc)), Allowed(Goes(j, pc), r, checks)
      PROVE  Spares(j)
  BY <1>4, StaysSpares DEF Reads
<1>5. /\ \A phase \in {"evaluating", "awaiting", "authorized", "preparing"} :
            Started(checks[k], phase) \in Check /\ ~Lost(Started(checks[k], phase))
      /\ Closed(checks[k], "failure", "prerequisite-ci", 0, 0) \in Check
      /\ ~Lost(Closed(checks[k], "failure", "prerequisite-ci", 0, 0))
      /\ Closed(checks[k], "success", "none", 0, 0) \in Check
      /\ ~Lost(Closed(checks[k], "success", "none", 0, 0))
  BY <1>3, PatchesPlain DEF ActivePhases, Conclusions, Reasons
<1>6. CASE Mark(j)
  BY <1>3, <1>5, <1>6, PatchesSpares DEF Mark
<1>7. CASE Evaluate(j)
  <2>1. CASE ~r.ci
    BY <1>3, <1>5, <1>7, <2>1, PatchesSpares DEF Evaluate
  <2>2. CASE r.ci
    <3>1. PICK pc \in {"fail", "recheck", "conclude"} :
             Reads(j, Goes(j, pc)) /\ (pc = "recheck" => plan = "plain")
      BY <1>7, <2>2 DEF Evaluate
    <3>2. pc = "recheck" => ~Unbound(r)
      BY <3>1, GroupIs DEF Apart
    <3>3. QED
      BY <1>3, <1>4, <3>1, <3>2
  <2>3. QED
    BY <2>1, <2>2
<1>8. CASE Conclude(j)
  <2> DEFINE c == IF plan = "none" THEN Closed(checks[k], "success", "none", 0, 0)
                  ELSE Started(checks[k], "awaiting")
  <2>1. c \in Check /\ ~Lost(c)
    BY <1>5
  <2>2. Patches(j, k, c, Final(Goes(j, "done")), Goes(j, "fail"))
    BY <1>8 DEF Conclude
  <2> HIDE DEF c
  <2>3. QED
    BY <1>3, <2>1, <2>2, PatchesSpares
<1>9. CASE Approve(j)
  <2>1. ~Unbound(r) /\ \E pc \in {"authorize", "restore"} : Reads(j, Goes(j, pc))
    BY <1>3, <1>9 DEF Approve, At
  <2>2. QED
    BY <1>3, <1>4, <2>1
<1>10. CASE Authorize(j) \/ Restore(j) \/ Prepare(j)
  <2>1. ~Unbound(r)
    BY <1>3, <1>10 DEF Authorize, Restore, Prepare, At
  <2>2. QED
    BY <1>3, <1>5, <1>10, <2>1, PatchesSpares DEF Authorize, Restore, Prepare
<1>11. CASE Recheck(j)
  <2>1. ~Unbound(r) /\ \E pc \in {"restore", "fail", "post"} : Reads(j, Goes(j, pc))
    BY <1>3, <1>11 DEF Recheck, OnError, At
  <2>2. QED
    BY <1>3, <1>4, <2>1
<1>12. CASE Acquire(j) \/ Revalidate(j)
  <2>1. ~Unbound(r) /\ \E pc \in {"prepare", "recheck", "fail"} : Reads(j, Goes(j, pc))
    BY <1>3, <1>12 DEF Acquire, Revalidate, At
  <2>2. QED
    BY <1>3, <1>4, <2>1
<1>13. QED
  BY <1>6, <1>7, <1>8, <1>9, <1>10, <1>11, <1>12

\* A job of the group that learns of a run, or of a dispatch that was not observed.
LEMMA ServingEdits ==
    ASSUME NEW r, NEW s, NEW cs, Apt(r, cs), r.pc \in Serving, ~Unbound(r),
           s.kind = r.kind, s.check = r.check, s.retry # "child-cancelled",
           s.pc \in Serving
    PROVE  Allowed(s, r, cs)
<1>1. Busy(r) /\ r.pc \in Holding \ {"abandon"}
  BY DEF Serving, Busy, Holding, Licensing
<1>2. s.pc \notin Judged /\ s.pc \notin {"cancel_runs", "cancel_checks"}
  BY DEF Serving, Judged, Licensing, Holding
<1>3. Follows(s, r)
  BY <1>1, <1>2 DEF Follows
<1>4. QED
  BY <1>1, <1>3, FollowsAllowed

\* The dispatch, and the run it makes.
LEMMA DispatchSpares ==
    ASSUME IInv, Apart, NEW j \in 1..MaxJobs,
           \/ Post(j) \/ Reconcile(j) \/ Adopt(j) \/ Publish(j) \/ Revoke(j)
           \/ CancelChild(j) \/ Wait(j)
    PROVE  Spares(j)
<1> DEFINE r == jobs[j]
           k == jobs[j].check
<1>1. r.pc \in {"post", "reconcile", "adopt", "publish", "revoke", "cancel_child", "wait"}
  BY DEF Post, Reconcile, Adopt, Publish, Revoke, CancelChild, Wait, At
<1>2. r.pc \in Serving /\ r.pc \notin {"mark", "evaluate", "conclude", "fail"}
  BY <1>1 DEF Serving, Holding, Licensing
<1>3. /\ k \in 1..Len(checks) /\ checks[k] \in Check /\ ~Unbound(r)
      /\ r.retry # "child-cancelled"
      /\ \A pc \in Serving : Allowed(Goes(j, pc), r, checks)
  BY <1>2, ServingGoes
<1>4. r \in Job /\ Apt(r, checks) /\ Len(runs) \in Nat
  BY Facing, Known
<1>5. /\ \A pc \in {"restore", "fail", "adopt", "cancel_child", "wait", "revoke", "finish",
                    "publish", "reconcile"} : pc \in Serving
      /\ OnError(r) \in {"restore", "fail"}
  BY DEF Serving, Holding, Licensing, OnError
<1>6. ASSUME NEW s, s.kind = r.kind, s.check = k, s.retry # "child-cancelled",
             s.pc \in {"publish", "reconcile", "cancel_child", "fail"}
      PROVE  Allowed(s, r, checks)
  BY <1>2, <1>3, <1>4, <1>5, <1>6, ServingEdits
<1>7. CASE Post(j)
  <2> DEFINE n == Len(runs) + 1
             s == [r EXCEPT !.run = n, !.pc = "publish"]
             t == [r EXCEPT !.lost = 0, !.pc = "reconcile"]
             u == [r EXCEPT !.lost = n, !.pc = "reconcile"]
  <2>1. /\ checks' = checks /\ plan' = plan
        /\ \/ Becomes(j, s) \/ Becomes(j, t) \/ Becomes(j, u)
           \/ Becomes(j, Goes(j, OnError(r)))
    BY <1>7 DEF Post
  <2>2. /\ s.kind = r.kind /\ s.check = k /\ s.retry = r.retry /\ s.pc = "publish"
        /\ t.kind = r.kind /\ t.check = k /\ t.retry = r.retry /\ t.pc = "reconcile"
        /\ u.kind = r.kind /\ u.check = k /\ u.retry = r.retry /\ u.pc = "reconcile"
    BY <1>4 DEF Job
  <2> HIDE DEF s, t, u
  <2>3. Allowed(s, r, checks) /\ Allowed(t, r, checks) /\ Allowed(u, r, checks)
    BY <1>3, <1>6, <2>2
  <2>4. QED
    BY <1>3, <1>5, <2>1, <2>3, StaysSpares
<1>8. CASE Reconcile(j)
  <2> DEFINE s == [r EXCEPT !.retry = "dispatch-not-observed", !.pc = "fail"]
  <2>1. /\ checks' = checks /\ plan' = plan
        /\ Becomes(j, s) \/ Becomes(j, Goes(j, "adopt"))
    BY <1>8 DEF Reconcile, Reads
  <2>2. s.kind = r.kind /\ s.check = k /\ s.retry # "child-cancelled" /\ s.pc = "fail"
    BY <1>4 DEF Job
  <2> HIDE DEF s
  <2>3. QED
    BY <1>3, <1>5, <1>6, <2>1, <2>2, StaysSpares
<1>9. CASE Adopt(j)
  <2>1. PICK pc \in {"publish", "cancel_child"} :
           Reads(j, [r EXCEPT !.run = r.lost, !.lost = 0, !.pc = pc])
    BY <1>9 DEF Adopt
  <2> DEFINE s == [r EXCEPT !.run = r.lost, !.lost = 0, !.pc = pc]
  <2>2. s.kind = r.kind /\ s.check = k /\ s.retry = r.retry /\ s.pc = pc
    BY <1>4 DEF Job
  <2>3. Becomes(j, s) /\ checks' = checks /\ plan' = plan
    BY <2>1 DEF Reads
  <2> HIDE DEF s
  <2>4. QED
    BY <1>3, <1>6, <2>1, <2>2, <2>3, StaysSpares
<1>10. CASE Publish(j)
  <2> DEFINE c == [Started(checks[k], "running") EXCEPT !.run = r.run]
  <2>1. c \in Check /\ ~Lost(c)
    BY <1>3, <1>4, PatchesPlain DEF Job, ActivePhases
  <2>2. Patches(j, k, c, Goes(j, "wait"), Goes(j, "revoke"))
    BY <1>10 DEF Publish
  <2> HIDE DEF c
  <2>3. QED
    BY <1>3, <1>5, <2>1, <2>2, PatchesSpares
<1>11. CASE Revoke(j)
  <2> DEFINE c == Closed(checks[k], "failure", "none", r.run, 0)
  <2>1. c \in Check /\ ~Lost(c)
    BY <1>3, <1>4, PatchesPlain DEF Job, Conclusions, Reasons
  <2>2. Patches(j, k, c, Goes(j, "cancel_child"), Goes(j, "cancel_child"))
    BY <1>11 DEF Revoke
  <2> HIDE DEF c
  <2>3. QED
    BY <1>3, <1>5, <2>1, <2>2, PatchesSpares
<1>12. CASE CancelChild(j) \/ Wait(j)
  BY <1>3, <1>5, <1>12, StaysSpares DEF CancelChild, Wait, Reads
<1>13. QED
  BY <1>7, <1>8, <1>9, <1>10, <1>11, <1>12

\* Whoever finds a lost runner knows of no other: none is later than its check, and it has
\* looked at those before.
LEMMA FinishSpares ==
    ASSUME IInv, Apart, NEW j \in 1..MaxJobs, Finish(j)
    PROVE  Spares(j)
<1> DEFINE r == jobs[j]
<1>1. r.pc = "finish" /\ r.pc \in Serving /\ r.pc \notin {"mark", "evaluate", "conclude", "fail"}
  BY DEF Finish, At, Serving, Holding, Licensing
<1>2. /\ ~Unbound(r) /\ Busy(r) /\ r.retry # "child-cancelled" /\ "fail" \in Serving
      /\ \A pc \in Serving : Allowed(Goes(j, pc), r, checks)
  BY <1>1, ServingGoes DEF Serving, Holding, Licensing
<1>3. /\ r \in Job /\ Apt(r, checks) /\ Len(checks) \in Nat
  BY Facing
<1>4. Bound(r) /\ NoneLater(r, checks)
  <2>1. Bound(r) /\ r.pc \in Holding \ {"abandon"}
    BY <1>1, <1>2, GroupIs DEF Serving, Holding
  <2>2. QED
    BY <1>3, <2>1 DEF Apt
<1>5. ASSUME NEW s, s.kind = r.kind, s.check = r.check, s.pc \in {"confirm", "close", "fail"},
             s.retry = "child-cancelled" => s.pc # "fail" /\ RunnerLosses(r.check) = {}
      PROVE  Allowed(s, r, checks)
  <2>1. KindOk(s) /\ ~Unbound(s)
    BY <1>2, <1>3, <1>5 DEF Apt, KindOk, Busy, Unbound
  <2>2. ASSUME NEW ds, Lossless(checks, ds) PROVE Apt(s, ds)
    <3>1. NoneLater(s, ds)
      BY <1>4, <1>5, <2>2 DEF NoneLater, Lossless
    <3>2. ASSUME s.retry = "child-cancelled" PROVE NoneElse(s, ds)
      <4>1. ASSUME NEW k \in 1..Len(ds), Lost(ds[k]) PROVE k = s.check
        <5>1. k \in 1..Len(checks) /\ checks[k].retry = "child-cancelled"
          BY <2>2, <4>1 DEF Lossless, Lost
        <5>2. k <= r.check /\ r.check \in Nat
          BY <1>3, <1>4, <5>1 DEF NoneLater, Lost, Job
        <5>3. ~(k <= r.check - 1)
          BY <1>5, <3>2, <5>1, <5>2 DEF RunnerLosses
        <5>4. QED
          BY <1>5, <5>1, <5>2, <5>3
      <4>2. QED
        BY <4>1 DEF NoneElse
    <3>3. s.retry = "child-cancelled" => s.pc \in Licensing
      BY <1>5 DEF Licensing
    <3>4. QED
      BY <2>1, <3>1, <3>2, <3>3 DEF Apt
  <2>3. QED
    BY <1>4, <2>2 DEF Allowed
<1>6. checks' = checks /\ plan' = plan
  BY DEF Finish
<1>7. PICK evidence \in {"good", "bad", "missing"} :
         \/ Becomes(j, Goes(j, "fail"))
         \/ Becomes(j, [r EXCEPT !.conclusion = "cancelled", !.pc = "close"])
         \/ Becomes(j, Verdict(r, evidence))
  BY DEF Finish
<1>8. CASE Becomes(j, Goes(j, "fail"))
  BY <1>2, <1>6, <1>8, StaysSpares
<1>9. CASE Becomes(j, [r EXCEPT !.conclusion = "cancelled", !.pc = "close"])
  <2> DEFINE s == [r EXCEPT !.conclusion = "cancelled", !.pc = "close"]
  <2>1. s.kind = r.kind /\ s.check = r.check /\ s.pc = "close" /\ s.retry = r.retry
    BY <1>3 DEF Job
  <2>2. Becomes(j, s)
    BY <1>9
  <2> HIDE DEF s
  <2>3. QED
    BY <1>2, <1>5, <1>6, <2>1, <2>2, StaysSpares
<1>10. CASE Becomes(j, Verdict(r, evidence))
  <2> DEFINE s == Verdict(r, evidence)
  <2>1. /\ s.kind = r.kind /\ s.check = r.check /\ s.pc \in {"confirm", "fail"}
        /\ s.retry = "child-cancelled" => s.pc # "fail" /\ RunnerLosses(r.check) = {}
    BY <1>2, <1>3, VerdictAuthorises
  <2>2. Becomes(j, s)
    BY <1>10
  <2> HIDE DEF s
  <2>3. QED
    BY <1>5, <1>6, <2>1, <2>2, StaysSpares
<1>11. QED
  BY <1>7, <1>8, <1>9, <1>10

LEMMA ConfirmSpares ==
    ASSUME IInv, Apart, NEW j \in 1..MaxJobs, Confirm(j)
    PROVE  Spares(j)
<1> DEFINE r == jobs[j]
<1>1. r.pc = "confirm" /\ Busy(r) /\ r.pc \in Judged /\ r.pc \in Holding \ {"abandon"}
  BY DEF Confirm, At, Busy, Judged, Holding
<1>2. r \in Job /\ Apt(r, checks) /\ ~Unbound(r)
  BY <1>1, Facing DEF Apt, Outer
<1>3. ASSUME NEW s, s.kind = r.kind, s.check = r.check, s.pc = "close",
             s.retry = "child-cancelled" => r.retry = "child-cancelled"
      PROVE  Allowed(s, r, checks)
  <2>1. Follows(s, r)
    BY <1>1, <1>2, <1>3 DEF Follows, Licensing
  <2>2. QED
    BY <1>1, <1>2, <2>1, FollowsAllowed
<1> DEFINE s == [r EXCEPT !.auth = r.retry = "child-cancelled", !.pc = "close"]
           t == [r EXCEPT !.conclusion = "cancelled", !.retry = "none", !.pc = "close"]
<1>4. (Becomes(j, s) \/ Becomes(j, t)) /\ checks' = checks /\ plan' = plan
  BY DEF Confirm, Reads
<1>5. /\ s.kind = r.kind /\ s.check = r.check /\ s.pc = "close" /\ s.retry = r.retry
      /\ t.kind = r.kind /\ t.check = r.check /\ t.pc = "close" /\ t.retry = "none"
  BY <1>2 DEF Job
<1> HIDE DEF s, t
<1>6. Allowed(s, r, checks) /\ Allowed(t, r, checks)
  BY <1>3, <1>5
<1>7. QED
  BY <1>4, <1>6, StaysSpares

\* Only a job of the group was authorised to retry.
LEMMA AfterFinishIs ==
    ASSUME NEW r, NEW cs, Apt(r, cs)
    PROVE  AfterFinish(r) = "cleanup" \/ (AfterFinish(r) = "retry" /\ ~Unbound(r))
BY DEF AfterFinish, Apt

LEMMA FailCheckSpares ==
    ASSUME IInv, Apart, NEW j \in 1..MaxJobs, FailCheck(j)
    PROVE  Spares(j)
<1> DEFINE r == jobs[j]
           k == jobs[j].check
           run == FailedRun(r)
           lost == IF r.retry = "dispatch-not-observed" THEN r.lost ELSE 0
           c == Closed(checks[k], "failure", r.retry, run, lost)
           pc == AfterFinish(r)
<1>1. r.pc = "fail" /\ r.pc \in Serving
  BY DEF FailCheck, At, Serving, Holding, Licensing
<1>2. /\ r \in Job /\ Apt(r, checks) /\ JobTyped(r, Len(checks)) /\ Len(checks) \in Nat
      /\ \A i \in 1..Len(checks) : checks[i] \in Check
  BY Facing
<1>3. /\ k \in 1..Len(checks) /\ checks[k] \in Check /\ r.retry # "child-cancelled"
      /\ Allowed(Goes(j, "cleanup"), r, checks) /\ Allowed(Final(Goes(j, "cleanup")), r, checks)
      /\ ~Unbound(r) => Allowed(Goes(j, "retry"), r, checks)
      /\ ~Unbound(r) => Allowed(Final(Goes(j, "retry")), r, checks)
  BY <1>1, ServingGoes
<1>4. pc = "cleanup" \/ (pc = "retry" /\ ~Unbound(r))
  BY <1>2, AfterFinishIs
<1>5. run \in Nat /\ lost \in Nat
  <2>1. r.source # 0 => r.source \in 1..Len(checks)
    BY <1>2 DEF JobTyped
  <2>2. r.source # 0 => checks[r.source].run \in Nat
    BY <1>2, <2>1 DEF Check
  <2>3. QED
    BY <1>2, <2>2 DEF Job, Retrying, FailedRun
<1>6. c \in Check /\ ~Lost(c)
  <2> HIDE DEF run, lost
  <2>1. "failure" \in Conclusions /\ r.retry \in Reasons
    BY <1>2 DEF Conclusions, Job
  <2>2. QED
    BY <1>3, <1>5, <2>1, PatchesPlain
<1>7. Patches(j, k, c, Final(Goes(j, pc)), Goes(j, pc))
  BY DEF FailCheck
<1> HIDE DEF c, pc
<1>8. QED
  BY <1>3, <1>4, <1>6, <1>7, PatchesSpares

\* The retry and what undoes it.
LEMMA RetrySpares ==
    ASSUME IInv, Apart, NEW j \in 1..MaxJobs, Retry(j) \/ Reserve(j) \/ Unretry(j)
    PROVE  Spares(j)
<1> DEFINE r == jobs[j]
           n == Len(checks)
<1>1. r.pc \in {"retry", "reserve", "unretry"}
  BY DEF Retry, Reserve, Unretry, At
<1>2. Busy(r) /\ r.pc \in Holding \ {"abandon"} /\ r.pc \notin Outer
  BY <1>1 DEF Busy, Holding, Outer
<1>3. /\ r \in Job /\ Apt(r, checks) /\ ~Unbound(r) /\ n \in Nat /\ r.check \in 1..n
      /\ \A i \in 1..n : checks[i] \in Check
  BY <1>2, Facing DEF Apt
<1>4. \A pc \in {"reserve", "unretry", "cleanup"} : Allowed(Goes(j, pc), r, checks)
  <2>1. \A pc \in {"reserve", "unretry", "cleanup"} :
           /\ pc \in Phases \ {"done", "vanished", "cancel_runs", "cancel_checks"}
           /\ pc \notin Judged /\ pc \in Licensing
    BY DEF Phases, Judged, Licensing
  <2>2. QED
    BY <1>2, <1>3, <2>1, PhaseAllowed
<1>5. CASE Retry(j)
  BY <1>4, <1>5, StaysSpares DEF Retry, Reads
<1>6. CASE Reserve(j)
  <2> DEFINE s == [r EXCEPT !.source = r.check, !.check = n + 1, !.open = @ \cup {n + 1},
                            !.run = 0, !.conclusion = "none", !.retry = "none",
                            !.pc = "acquire"]
  <2>1. Creates(j, s, Goes(j, "unretry"))
    BY <1>6 DEF Reserve
  <2>2. s.kind = r.kind /\ s.check = n + 1 /\ s.retry = "none" /\ s.pc = "acquire"
    BY <1>3 DEF Job
  <2> HIDE DEF s
  <2>3. /\ KindOk(s) /\ ~Unbound(s) /\ Bound(r) /\ s.pc \notin Judged
    BY <1>2, <1>3, <2>2, GroupIs DEF Apt, KindOk, Busy, Unbound, Judged
  <2>4. ASSUME NEW ds, Lossless(checks, ds) PROVE NoneLater(s, ds)
    BY <1>3, <2>2, <2>4 DEF NoneLater, Lossless
  <2>5. Allowed(s, r, checks)
    BY <2>2, <2>3, <2>4 DEF Allowed, Apt
  <2>6. QED
    BY <1>4, <2>1, <2>5, CreatesSpares
<1>7. CASE Unretry(j)
  <2> DEFINE c == Closed(checks[n], "failure", "none", r.run, 0)
  <2>1. \/ Patches(j, n, c, Goes(j, "cleanup"), Goes(j, "cleanup"))
        \/ Reads(j, Goes(j, "cleanup"))
    BY <1>7 DEF Unretry
  <2>2. n \in 1..n
    BY <1>3
  <2>3. c \in Check /\ ~Lost(c)
    BY <1>3, <2>2, PatchesPlain DEF Job, Conclusions, Reasons
  <2> HIDE DEF c
  <2>4. QED
    BY <1>4, <2>1, <2>2, <2>3, PatchesSpares, StaysSpares DEF Reads
<1>8. QED
  BY <1>5, <1>6, <1>7

LEMMA CleansSpare ==
    ASSUME IInv, Apart, NEW j \in 1..MaxJobs, Cleanup(j) \/ Abandon(j)
    PROVE  Spares(j)
<1> DEFINE r == jobs[j]
<1>1. r.pc \in {"cleanup", "abandon"} /\ Busy(r)
  BY DEF Cleanup, Abandon, At, Busy
<1>2. /\ r \in Job /\ Apt(r, checks) /\ Len(checks) \in Nat
      /\ r.pc \in Holding => r.check \in 1..Len(checks)
      /\ \A i \in 1..Len(checks) : checks[i] \in Check
  BY Facing
<1>3. ASSUME NEW s, s.kind = r.kind, s.pc \in {"cleanup", "abandon"},
             s.retry \in {"none", r.retry}, s.auth = r.auth
      PROVE  Allowed(s, r, checks)
  <2>1. KindOk(s) /\ (Bound(s) => Bound(r)) /\ (Unbound(s) => Unbound(r))
    BY <1>1, <1>2, <1>3 DEF KindOk, Apt, Busy, Bound, Unbound
  <2>2. s.pc \in Licensing /\ s.pc \in Outer /\ s.pc \notin Judged
        /\ s.pc \notin Holding \ {"abandon"}
    BY <1>3 DEF Licensing, Outer, Judged, Holding
  <2>3. QED
    BY <1>2, <1>3, <2>1, <2>2 DEF Allowed, Apt
<1>4. CASE Cleanup(j)
  <2>1. \/ Becomes(j, Goes(j, "done"))
        \/ \E k \in r.open : \/ Becomes(j, [r EXCEPT !.open = @ \ {k}])
                             \/ Becomes(j, [r EXCEPT !.check = k, !.pc = "abandon"])
    BY <1>4 DEF Cleanup, Reads
  <2>2. checks' = checks /\ plan' = plan
    BY <1>4 DEF Cleanup, Reads
  <2>3. CASE Becomes(j, Goes(j, "done"))
    BY <1>2, <2>2, <2>3, GoesAllowed, StaysSpares
  <2>4. ASSUME NEW k \in r.open, Becomes(j, [r EXCEPT !.open = @ \ {k}])
        PROVE  Spares(j)
    <3> DEFINE s == [r EXCEPT !.open = @ \ {k}]
    <3>1. s.kind = r.kind /\ s.pc = r.pc /\ s.retry = r.retry /\ s.auth = r.auth
      BY <1>2 DEF Job
    <3>2. Becomes(j, s)
      BY <2>4
    <3> HIDE DEF s
    <3>3. QED
      BY <1>1, <1>3, <2>2, <3>1, <3>2, StaysSpares
  <2>5. ASSUME NEW k \in r.open, Becomes(j, [r EXCEPT !.check = k, !.pc = "abandon"])
        PROVE  Spares(j)
    <3> DEFINE s == [r EXCEPT !.check = k, !.pc = "abandon"]
    <3>1. s.kind = r.kind /\ s.pc = "abandon" /\ s.retry = r.retry /\ s.auth = r.auth
      BY <1>2 DEF Job
    <3>2. Becomes(j, s)
      BY <2>5
    <3> HIDE DEF s
    <3>3. QED
      BY <1>3, <2>2, <3>1, <3>2, StaysSpares
  <2>6. QED
    BY <2>1, <2>3, <2>4, <2>5
<1>5. CASE Abandon(j)
  <2> DEFINE c == Closed(checks[r.check], "failure", "none", 0, 0)
             s == Final(Goes(j, "cleanup"))
  <2>1. r.check \in 1..Len(checks) /\ r.pc = "abandon"
    BY <1>2, <1>5 DEF Abandon, At, Holding
  <2>2. c \in Check /\ ~Lost(c)
    BY <1>2, <2>1, PatchesPlain DEF Conclusions, Reasons
  <2>3. s.kind = r.kind /\ s.pc = "cleanup" /\ s.retry = "none" /\ s.auth = r.auth
    BY <1>2 DEF Goes, Final, Job
  <2>4. Patches(j, r.check, c, s, s)
    BY <1>5 DEF Abandon
  <2> HIDE DEF c, s
  <2>5. QED
    BY <1>3, <2>1, <2>2, <2>3, <2>4, PatchesSpares
<1>6. QED
  BY <1>4, <1>5

\* What starts a job, and the check it then goes on with.
LEMMA StartsSpare ==
    ASSUME IInv, Apart, NEW j \in 1..MaxJobs,
           SeedLive(j) \/ CoordinateLive(j) \/ Ensure(j) \/ Create(j)
    PROVE  Spares(j)
<1> DEFINE r == jobs[j]
           n == Len(checks)
<1>1. r.pc \in {"live", "ensure", "create"} /\ Busy(r)
  BY DEF SeedLive, CoordinateLive, Ensure, Create, At, Busy
<1>2. /\ r \in Job /\ Apt(r, checks) /\ n \in Nat /\ JobTyped(r, n)
      /\ \A i \in 1..n : checks[i] \in Check
  BY Facing
<1>3. r.retry # "child-cancelled"
  BY <1>1, <1>2 DEF Apt, Licensing
<1>4. /\ Allowed(Goes(j, "done"), r, checks)
      /\ \A pc \in {"ensure", "create", "cleanup"} : Allowed(Goes(j, pc), r, checks)
  <2>1. \A pc \in {"ensure", "create", "cleanup"} :
           /\ pc \in Phases \ {"done", "vanished", "cancel_runs", "cancel_checks"}
           /\ pc \notin Judged /\ pc \in Outer /\ pc \notin Holding
    BY DEF Phases, Judged, Outer, Holding
  <2>2. QED
    BY <1>1, <1>2, <1>3, <2>1, PhaseAllowed, GoesAllowed
<1>5. ASSUME NEW s, s.kind = r.kind, s.retry = r.retry, s.auth = r.auth,
             \/ s.pc \in {"ensure", "cleanup"}
             \/ s.pc = "mark" /\ s.check \in {n, n + 1}
      PROVE  Allowed(s, r, checks)
  <2>1. KindOk(s) /\ (Bound(s) => Bound(r)) /\ (Unbound(s) => Unbound(r))
    BY <1>1, <1>2, <1>5 DEF KindOk, Apt, Busy, Bound, Unbound
  <2>2. s.pc \in Outer /\ s.pc \notin Judged /\ (s.pc # "mark" => s.pc \notin Holding)
    BY <1>5 DEF Outer, Judged, Holding
  <2>3. ASSUME NEW ds, Lossless(checks, ds), s.pc = "mark" PROVE NoneLater(s, ds)
    BY <1>2, <1>5, <2>3 DEF NoneLater, Lossless
  <2>4. QED
    BY <1>2, <1>3, <1>5, <2>1, <2>2, <2>3 DEF Allowed, Apt
<1>6. ASSUME NEW k \in {n, n + 1} PROVE Allowed(Takes(j, k), r, checks)
  <2>1. CASE r.kind = "seed"
    BY <1>4, <2>1 DEF Takes
  <2>2. CASE r.kind # "seed"
    <3> DEFINE s == [r EXCEPT !.check = k, !.open = {k}, !.pc = "mark"]
    <3>1. Takes(j, k) = s
      BY <2>2 DEF Takes
    <3>2. /\ s.kind = r.kind /\ s.retry = r.retry /\ s.auth = r.auth
          /\ s.pc = "mark" /\ s.check = k
      BY <1>2 DEF Job
    <3> HIDE DEF s
    <3>3. QED
      BY <1>5, <3>1, <3>2
  <2>3. QED
    BY <2>1, <2>2
<1>7. CASE SeedLive(j)
  BY <1>4, <1>7, StaysSpares DEF SeedLive, Reads
<1>8. CASE CoordinateLive(j)
  <2> DEFINE s == [r EXCEPT !.open = {r.seen}, !.pc = "cleanup"]
             open == IF r.seen # 0 /\ Active(r.was) THEN {r.seen} ELSE {}
             t == [r EXCEPT !.open = open, !.seen = 0, !.was = Reserved, !.pc = "ensure"]
             c == Closed(checks[r.seen], "cancelled", "none", 0, 0)
  <2>1. \/ r.seen # 0 /\ Patches(j, r.seen, c, Goes(j, "done"), s)
        \/ Reads(j, t)
        \/ Reads(j, Goes(j, "done"))
    BY <1>8 DEF CoordinateLive
  <2>2. /\ s.kind = r.kind /\ s.retry = r.retry /\ s.auth = r.auth /\ s.pc = "cleanup"
        /\ t.kind = r.kind /\ t.retry = r.retry /\ t.auth = r.auth /\ t.pc = "ensure"
    BY <1>2 DEF Job
  <2>3. ASSUME r.seen # 0 PROVE r.seen \in 1..n /\ c \in Check /\ ~Lost(c)
    <3>1. r.seen \in 1..n
      BY <1>2, <2>3 DEF JobTyped
    <3>2. QED
      BY <1>2, <3>1, PatchesPlain DEF Conclusions, Reasons
  <2> HIDE DEF s, t, c
  <2>4. Allowed(s, r, checks) /\ Allowed(t, r, checks)
    BY <1>5, <2>2
  <2>5. QED
    BY <1>4, <2>1, <2>3, <2>4, PatchesSpares, StaysSpares DEF Reads
<1>9. CASE Ensure(j)
  <2>1. \/ Reads(j, Goes(j, "cleanup")) \/ Reads(j, Takes(j, n)) \/ Reads(j, Goes(j, "create"))
    BY <1>9 DEF Ensure
  <2>2. QED
    BY <1>4, <1>6, <2>1, StaysSpares DEF Reads
<1>10. CASE Create(j)
  BY <1>4, <1>6, <1>10, CreatesSpares DEF Create
<1>11. QED
  BY <1>7, <1>8, <1>9, <1>10

LEMMA CancelSpares ==
    ASSUME IInv, Apart, NEW j \in 1..MaxJobs, CancelRuns(j) \/ CancelChecks(j)
    PROVE  Spares(j)
<1> DEFINE r == jobs[j]
           n == Len(checks)
<1>1. r.pc \in {"cancel_runs", "cancel_checks"}
  BY DEF CancelRuns, CancelChecks, At
<1>2. /\ r \in Job /\ Apt(r, checks) /\ n \in Nat /\ JobTyped(r, n)
      /\ \A i \in 1..n : checks[i] \in Check
  BY Facing
<1>3. r.retry # "child-cancelled" /\ r.kind = "cancel"
  BY <1>1, <1>2 DEF Apt, Licensing, KindOk
<1>4. Allowed(Goes(j, "done"), r, checks)
  BY <1>2, GoesAllowed
<1>5. ASSUME NEW s, s.kind = "cancel", s.retry = r.retry, s.pc = "cancel_checks"
      PROVE  Allowed(s, r, checks)
  BY <1>3, <1>5, AwayAllowed DEF Busy
<1>6. CASE CancelRuns(j)
  <2> DEFINE s == Goes(j, "cancel_checks")
  <2>1. s.kind = "cancel" /\ s.retry = r.retry /\ s.pc = "cancel_checks"
    BY <1>2, <1>3 DEF Goes, Job
  <2>2. Becomes(j, s) /\ checks' = checks /\ plan' = plan
    BY <1>6 DEF CancelRuns
  <2> HIDE DEF s
  <2>3. QED
    BY <1>5, <2>1, <2>2, StaysSpares
<1>7. CASE CancelChecks(j)
  <2>1. CASE Reads(j, Goes(j, "done"))
    BY <1>4, <2>1, StaysSpares DEF Reads
  <2>2. ASSUME NEW k \in r.targets,
               Patches(j, k, Closed(checks[k], "cancelled", "none", 0, 0),
                       [r EXCEPT !.targets = @ \ {k}], Goes(j, "done"))
        PROVE  Spares(j)
    <3> DEFINE c == Closed(checks[k], "cancelled", "none", 0, 0)
               s == [r EXCEPT !.targets = @ \ {k}]
    <3>1. k \in 1..n
      BY <1>2 DEF JobTyped
    <3>2. c \in Check /\ ~Lost(c)
      BY <1>2, <3>1, PatchesPlain DEF Conclusions, Reasons
    <3>3. s.kind = "cancel" /\ s.retry = r.retry /\ s.pc = "cancel_checks"
      BY <1>2, <1>3, <1>7 DEF Job, CancelChecks, At
    <3>4. Patches(j, k, c, s, Goes(j, "done"))
      BY <2>2
    <3> HIDE DEF c, s
    <3>5. QED
      BY <1>4, <1>5, <3>1, <3>2, <3>3, <3>4, PatchesSpares
  <2>3. QED
    BY <1>7, <2>1, <2>2 DEF CancelChecks
<1>8. QED
  BY <1>6, <1>7

LEMMA FailsSpare ==
    ASSUME IInv, Apart, NEW j \in 1..MaxJobs, ReadFails(j) \/ StepDies(j) \/ Vanish(j)
    PROVE  Spares(j)
<1> DEFINE r == jobs[j]
<1>1. /\ r \in Job /\ Apt(r, checks)
      /\ \A pc \in {"done", "vanished"} : Allowed(Goes(j, pc), r, checks)
  BY Facing, GoesAllowed
<1>2. checks' = checks /\ plan' = plan
  BY DEF ReadFails, StepDies, Vanish
<1>3. SUFFICES \E s : Becomes(j, s) /\ Allowed(s, r, checks)
  BY <1>2, StaysSpares
<1>4. ASSUME Busy(r), NEW pc \in {"cleanup", "unretry", "retry"},
             pc # "cleanup" => r.pc \in Holding \ {"abandon"} /\ ~Unbound(r)
      PROVE  Allowed(Goes(j, pc), r, checks) /\ Allowed(Final(Goes(j, pc)), r, checks)
  <2>1. /\ pc \in Phases \ {"done", "vanished", "cancel_runs", "cancel_checks"}
        /\ pc \notin Judged /\ pc \in Licensing /\ "cleanup" \in Outer
        /\ "cleanup" \notin Holding
    BY <1>4 DEF Phases, Judged, Licensing, Outer, Holding
  <2>2. QED
    BY <1>1, <1>4, <2>1, PhaseAllowed
<1>5. CASE Vanish(j)
  BY <1>1, <1>5 DEF Vanish
<1>6. CASE StepDies(j)
  <2>1. CASE r.pc \in {"cancel_runs", "cancel_checks"}
    <3>1. r.kind = "cancel"
      BY <1>1, <2>1 DEF Apt, KindOk
    <3>2. Becomes(j, Goes(j, "done"))
      BY <1>6, <2>1, <3>1 DEF StepDies
    <3>3. QED
      BY <1>1, <3>2
  <2>2. CASE r.pc \notin {"cancel_runs", "cancel_checks"}
    <3>1. Busy(r) /\ r.kind # "cancel"
      BY <1>1, <1>6, <2>2 DEF StepDies, Working, Apt, KindOk, Busy
    <3>2. CASE r.pc \in {"retry", "reserve"}
      <4>1. Becomes(j, Goes(j, "done")) \/ Becomes(j, Goes(j, "unretry"))
        <5>1. CASE r.kind = "seed"
          BY <1>6, <3>2, <5>1 DEF StepDies
        <5>2. CASE r.kind # "seed"
          BY <1>6, <3>1, <3>2, <5>2 DEF StepDies
        <5>3. QED
          BY <5>1, <5>2
      <4>2. ~Unbound(r) /\ r.pc \in Holding \ {"abandon"}
        BY <1>1, <3>2 DEF Apt, Outer, Holding
      <4>3. QED
        BY <1>1, <1>4, <3>1, <4>1, <4>2
    <3>3. CASE r.pc \in {"close", "fail"}
      <4>1. Becomes(j, Goes(j, "done")) \/ Becomes(j, Goes(j, AfterFinish(r)))
        <5>1. CASE r.kind = "seed"
          BY <1>6, <3>3, <5>1 DEF StepDies
        <5>2. CASE r.kind # "seed"
          BY <1>6, <3>1, <3>3, <5>2 DEF StepDies
        <5>3. QED
          BY <5>1, <5>2
      <4>2. r.pc \in Holding \ {"abandon"}
        BY <3>3 DEF Holding
      <4>3. QED
        BY <1>1, <1>4, <3>1, <4>1, <4>2, AfterFinishIs
    <3>4. CASE r.pc = "abandon"
      <4>1. Becomes(j, Goes(j, "done")) \/ Becomes(j, Final(Goes(j, "cleanup")))
        <5>1. CASE r.kind = "seed"
          BY <1>6, <3>4, <5>1 DEF StepDies
        <5>2. CASE r.kind # "seed"
          BY <1>6, <3>1, <3>4, <5>2 DEF StepDies
        <5>3. QED
          BY <5>1, <5>2
      <4>2. QED
        BY <1>1, <1>4, <3>1, <4>1
    <3>5. CASE r.pc \notin {"retry", "reserve", "close", "fail", "abandon"}
      <4>1. Becomes(j, Goes(j, "done")) \/ Becomes(j, Goes(j, "cleanup"))
        BY <1>6, <3>1, <3>5 DEF StepDies
      <4>2. QED
        BY <1>1, <1>4, <3>1, <4>1
    <3>6. QED
      BY <3>2, <3>3, <3>4, <3>5
  <2>3. QED
    BY <2>1, <2>2
<1>7. CASE ReadFails(j)
  <2>1. CASE r.pc \in {"live", "ensure", "cancel_runs"}
    <3>1. Becomes(j, Goes(j, IF r.kind = "coordinate" THEN "cleanup" ELSE "done"))
      BY <1>7, <2>1 DEF ReadFails
    <3>2. r.kind = "coordinate" => Busy(r)
      BY <1>1, <2>1 DEF Apt, KindOk, Busy
    <3>3. QED
      BY <1>1, <1>4, <3>1, <3>2
  <2>2. CASE r.pc \in {"evaluate", "finish", "confirm", "acquire", "revalidate"}
    <3> DEFINE s == [r EXCEPT !.retry = "none", !.pc = "fail"]
    <3>1. Becomes(j, s)
      BY <1>7, <2>2 DEF ReadFails
    <3>2. /\ s.kind = r.kind /\ s.check = r.check /\ s.auth = r.auth
          /\ s.retry = "none" /\ s.pc = "fail"
      BY <1>1 DEF Job
    <3> HIDE DEF s
    <3>3. Busy(r) /\ r.pc \in Holding \ {"abandon"} /\ "fail" \in Outer /\ "fail" \notin Judged
      BY <2>2 DEF Busy, Holding, Outer, Judged
    <3>4. Follows(s, r)
      BY <1>1, <3>2, <3>3 DEF Follows, Apt
    <3>5. QED
      BY <1>1, <3>1, <3>3, <3>4, FollowsAllowed
  <2>3. CASE r.pc \in {"approve", "recheck", "reconcile", "cancel_child"}
    <3>1. \E pc \in {"restore", "fail"} : Becomes(j, Goes(j, pc))
      BY <1>7, <2>3 DEF ReadFails, OnError
    <3>2. /\ r.pc \in Serving /\ "restore" \in Serving /\ "fail" \in Serving
          /\ r.pc \notin {"mark", "evaluate", "conclude", "fail"}
      BY <2>3 DEF Serving, Holding, Licensing
    <3>3. QED
      BY <3>1, <3>2, ServingGoes
  <2>4. CASE r.pc = "adopt"
    <3> DEFINE s == [r EXCEPT !.run = r.lost, !.lost = 0, !.pc = "cancel_child"]
    <3>1. Becomes(j, s)
      BY <1>7, <2>4 DEF ReadFails
    <3>2. s.kind = r.kind /\ s.check = r.check /\ s.retry = r.retry /\ s.pc = "cancel_child"
      BY <1>1 DEF Job
    <3> HIDE DEF s
    <3>3. r.pc \in Serving /\ s.pc \in Serving
      BY <2>4, <3>2 DEF Serving, Holding, Licensing
    <3>4. r.retry # "child-cancelled" /\ ~Unbound(r)
      BY <2>4, <3>3, ServingGoes
    <3>5. QED
      BY <1>1, <3>1, <3>2, <3>3, <3>4, ServingEdits
  <2>5. CASE r.pc = "retry"
    <3>1. Becomes(j, Goes(j, "unretry"))
      BY <1>7, <2>5 DEF ReadFails
    <3>2. Busy(r) /\ ~Unbound(r) /\ r.pc \in Holding \ {"abandon"}
      BY <1>1, <2>5 DEF Apt, Outer, Holding, Busy
    <3>3. QED
      BY <1>4, <3>1, <3>2
  <2>6. QED
    BY <1>7, <2>1, <2>2, <2>3, <2>4, <2>5 DEF ReadFails
<1>8. QED
  BY <1>5, <1>6, <1>7

-----------------------------------------------------------------------------
(* The invariant.                                                          *)

LEMMA LosslessApt ==
    ASSUME NEW r, NEW cs, NEW ds, Lossless(cs, ds), Apt(r, cs)
    PROVE  Apt(r, ds)
BY DEF Lossless, Apt, NoneLater, NoneElse

LEMMA ApartKept ==
    ASSUME IInv, Apart, NEW j \in 1..MaxJobs, NEW s, jobs' = [jobs EXCEPT ![j] = s],
           plan' = plan, Apt(s, checks'),
           \A i \in 1..MaxJobs : i # j => Apt(jobs[i], checks'),
           Bound(s) => Bound(jobs[j]) \/ \A i \in 1..MaxJobs : i # j => ~Bound(jobs[i]),
           \A k, m \in 1..Len(checks') : Lost(checks'[k]) /\ Lost(checks'[m]) => k = m
    PROVE  Apart'
<1>1. jobs'[j] = s /\ \A i \in 1..MaxJobs : i # j => jobs'[i] = jobs[i]
  BY Facing
<1>2. \A i \in 1..MaxJobs : Apt(jobs'[i], checks')
  BY <1>1
<1>3. ASSUME NEW i \in 1..MaxJobs, NEW k \in 1..MaxJobs, Bound(jobs'[i]), Bound(jobs'[k])
      PROVE  i = k
  BY <1>1, <1>3 DEF Apart
<1>4. \A i \in 1..MaxJobs : Apt(jobs[i], checks)'
  BY <1>2
<1>5. \A i, k \in 1..MaxJobs : Bound(jobs[i])' /\ Bound(jobs[k])' => i = k
  <2>1. \A i \in 1..MaxJobs : Bound(jobs[i])' => Bound(jobs'[i])
    BY DEF Bound, Busy, Group
  <2>2. QED
    BY <1>3, <2>1
<1>6. QED
  BY <1>4, <1>5 DEF Apart

LEMMA LosslessUnique ==
    ASSUME Apart, Lossless(checks, checks')
    PROVE  \A k, m \in 1..Len(checks') : Lost(checks'[k]) /\ Lost(checks'[m]) => k = m
BY DEF Apart, Lossless

LEMMA SparesKeeps ==
    ASSUME IInv, Apart, NEW j \in 1..MaxJobs, Spares(j)
    PROVE  Apart'
<1>1. PICK s : jobs' = [jobs EXCEPT ![j] = s] /\ Allowed(s, jobs[j], checks)
  BY DEF Spares
<1>2. Lossless(checks, checks') /\ plan' = plan
  BY DEF Spares
<1>3. Apt(s, checks') /\ (Bound(s) => Bound(jobs[j]))
  BY <1>1, <1>2 DEF Allowed
<1>4. \A i \in 1..MaxJobs : Apt(jobs[i], checks')
  BY <1>2, LosslessApt DEF Apart
<1>5. QED
  BY <1>1, <1>2, <1>3, <1>4, ApartKept, LosslessUnique

\* The verdict that marks a lost runner: the other jobs at work are not bound and judge none.
LEMMA CloseKeeps ==
    ASSUME IInv, Apart, NEW j \in 1..MaxJobs, CloseCheck(j)
    PROVE  Apart'
<1> DEFINE r == jobs[j]
           n == Len(checks)
           k == jobs[j].check
           c == Closed(checks[k], r.conclusion, r.retry, r.run, 0)
           pc == AfterFinish(r)
           good == Final(Goes(j, pc))
           bad == [r EXCEPT !.retry = "none", !.pc = "fail"]
<1>1. r.pc = "close" /\ Busy(r) /\ r.pc \in Judged /\ r.pc \in Holding \ {"abandon"}
  BY DEF CloseCheck, At, Busy, Judged, Holding
<1>2. /\ r \in Job /\ Apt(r, checks) /\ n \in Nat /\ k \in 1..n /\ checks \in Seq(Check)
      /\ \A i \in 1..n : checks[i] \in Check
  BY <1>1, Facing
<1>3. ~Unbound(r) /\ Bound(r)
  BY <1>1, <1>2, GroupIs DEF Apt, Outer
<1>4. Patches(j, k, c, good, bad)
  BY DEF CloseCheck
<1>5. c \in Check /\ c.retry = r.retry
  <2>1. c \in Check
    BY <1>2, PatchesPlain DEF Job
  <2>2. QED
    BY <1>2, <2>1, ClosedIs
<1>6. Allowed(good, r, checks)
  <2>1. pc \in {"retry", "cleanup"}
    BY DEF AfterFinish
  <2>2. /\ pc \in Phases \ {"done", "vanished", "cancel_runs", "cancel_checks"}
        /\ pc \notin Judged
    BY <2>1 DEF Phases, Judged
  <2>3. QED
    BY <1>1, <1>2, <1>3, <2>2, PhaseAllowed
<1>7. Allowed(bad, r, checks)
  <2>1. bad.kind = r.kind /\ bad.check = k /\ bad.retry = "none" /\ bad.pc = "fail"
    BY <1>2 DEF Job
  <2> HIDE DEF bad
  <2>2. bad.pc \notin Judged
    BY <2>1 DEF Judged
  <2>3. Follows(bad, r)
    BY <1>1, <1>3, <2>1, <2>2 DEF Follows
  <2>4. QED
    BY <1>1, <1>2, <2>3, FollowsAllowed
<1>8. good.retry = "none" /\ good.check = k /\ bad.retry = "none" /\ bad.check = k
  <2>1. pc \in {"retry", "cleanup"}
    BY DEF AfterFinish
  <2>2. Goes(j, pc) = [r EXCEPT !.pc = pc]
    BY <2>1 DEF Goes
  <2>3. Goes(j, pc) \in Job /\ Goes(j, pc).check = k
    BY <1>2, <2>1, <2>2 DEF Job, Phases
  <2>4. good.retry = "none" /\ good.check = k
    BY <2>3 DEF Final, Job
  <2>5. bad.retry = "none" /\ bad.check = k
    BY <1>2 DEF Job
  <2>6. QED
    BY <2>4, <2>5
<1>9. /\ checks' \in {checks, [checks EXCEPT ![k] = c]} /\ plan' = plan
      /\ Becomes(j, good) \/ Becomes(j, bad)
  BY <1>4 DEF Patches
<1> HIDE DEF c, good, bad, pc
<1>10. CASE Lossless(checks, checks')
  BY <1>6, <1>7, <1>9, <1>10, SparesKeeps DEF Spares, Becomes
<1>11. CASE ~Lossless(checks, checks')
  <2>1. checks' = [checks EXCEPT ![k] = c] /\ Lost(c)
    BY <1>2, <1>5, <1>9, <1>11, LosslessItself, PatchSpares
  <2>2. Len(checks') = n /\ \A i \in 1..n : checks'[i] = IF i = k THEN c ELSE checks[i]
    BY <1>2, <1>5, <2>1, ExceptSeq
  <2>3. NoneElse(r, checks)
    BY <1>1, <1>2, <1>5, <2>1 DEF Apt, Lost
  <2>4. \A i \in 1..Len(checks') : Lost(checks'[i]) => i = k
    BY <2>2, <2>3 DEF NoneElse
  <2>5. ASSUME NEW s \in {good, bad} PROVE Apt(s, checks') /\ (Bound(s) => Bound(r))
    <3>1. Apt(s, checks) /\ (Bound(s) => Bound(r))
      BY <1>6, <1>7, LosslessItself DEF Allowed
    <3>2. s.retry = "none" /\ s.check = k
      BY <1>8
    <3>3. NoneLater(s, checks')
      BY <1>2, <2>2, <2>4, <3>2 DEF NoneLater
    <3>4. QED
      BY <3>1, <3>2, <3>3 DEF Apt
  <2>6. ASSUME NEW i \in 1..MaxJobs, i # j PROVE Apt(jobs[i], checks')
    <3>1. Apt(jobs[i], checks) /\ ~Bound(jobs[i])
      BY <1>3, <2>6 DEF Apart
    <3>2. jobs[i].pc \in Judged => Busy(jobs[i])
      BY DEF Judged, Busy
    <3>3. jobs[i].pc \in Judged => jobs[i].retry # "child-cancelled"
      BY <3>1, <3>2, GroupIs DEF Apt
    <3>4. QED
      BY <3>1, <3>3 DEF Apt
  <2>7. PICK s \in {good, bad} : jobs' = [jobs EXCEPT ![j] = s]
    BY <1>9 DEF Becomes
  <2>8. QED
    BY <1>9, <2>4, <2>5, <2>6, <2>7, ApartKept
<1>12. QED
  BY <1>10, <1>11

\* A job of the group begins when no other is at work.
LEMMA BeginKeepsApart ==
    ASSUME IInv, Apart, NEW j \in 1..MaxJobs, Begin(j)
    PROVE  Apart'
<1>1. \A i \in 1..MaxJobs : Apt(jobs[i], checks)
  BY DEF Apart
<1>2. ASSUME NEW kind \in {"seed", "coordinate", "approve"}, CanBegin(j, kind),
             Group(kind) = "exact diff", NEW i \in 1..MaxJobs
      PROVE  ~Bound(jobs[i])
  <2>1. SUFFICES ASSUME Bound(jobs[i]) PROVE FALSE
    OBVIOUS
  <2>2. Working(i) /\ jobs[i].kind # "cancel"
    BY <1>1, <2>1 DEF Bound, Busy, Working, Apt, KindOk
  <2>3. QED
    BY <1>2, <2>1, <2>2 DEF CanBegin, Bound
<1>3. ASSUME NEW s, Reads(j, s), s.retry = "none", ~s.auth,
             \/ ~Busy(s) /\ (s.pc \in {"cancel_runs", "cancel_checks"} => s.kind = "cancel")
             \/ /\ s.pc \in {"live", "approve"} /\ CanBegin(j, s.kind)
                /\ s.kind \in {"seed", "coordinate", "approve"}
                /\ s.pc = "approve" => s.kind = "approve" /\ s.check = Len(checks)
      PROVE  Apart'
  <2>1. jobs' = [jobs EXCEPT ![j] = s] /\ checks' = checks /\ plan' = plan
    BY <1>3 DEF Reads, Becomes
  <2>2. Bound(s) => \A i \in 1..MaxJobs : ~Bound(jobs[i])
    BY <1>2, <1>3 DEF Bound
  <2>3. Apt(s, checks)
    <3>1. KindOk(s) /\ s.pc \notin Judged
      BY <1>3 DEF KindOk, Busy, Judged
    <3>2. Unbound(s) => s.pc \in Outer
      BY <1>3, GroupIs DEF Outer, Unbound
    <3>3. Bound(s) /\ s.pc \in Holding => NoneLater(s, checks)
      <4>1. Bound(s) /\ s.pc \in Holding => s.check = Len(checks)
        BY <1>3 DEF Bound, Holding
      <4>2. QED
        BY <4>1, Facing DEF NoneLater
    <3>4. QED
      BY <1>3, <3>1, <3>2, <3>3 DEF Apt
  <2>4. \A k, m \in 1..Len(checks') : Lost(checks'[k]) /\ Lost(checks'[m]) => k = m
    BY <2>1 DEF Apart
  <2>5. QED
    BY <1>1, <2>1, <2>2, <2>3, <2>4, ApartKept
<1>4. /\ Goes(j, "done").pc = "done" /\ Goes(j, "done").retry = "none" /\ ~Goes(j, "done").auth
      /\ ~Busy(Goes(j, "done"))
  BY DEF Goes, Idle, Busy
<1>5. CASE BeginSeed(j)
  <2> DEFINE s == Begun("seed", "live")
  <2>1. s.kind = "seed" /\ s.pc = "live" /\ s.retry = "none" /\ ~s.auth
    BY DEF Begun, Idle
  <2>2. CanBegin(j, "seed") /\ Reads(j, s)
    BY <1>5 DEF BeginSeed
  <2> HIDE DEF s
  <2>3. QED
    BY <1>3, <2>1, <2>2
<1>6. CASE BeginApprove(j)
  <2> DEFINE n == Len(checks)
             s == [Begun("approve", "approve") EXCEPT !.check = n, !.open = {n}]
  <2>1. s.kind = "approve" /\ s.pc = "approve" /\ s.retry = "none" /\ ~s.auth /\ s.check = n
    BY DEF Begun, Idle
  <2>2. CanBegin(j, "approve") /\ (Reads(j, s) \/ Reads(j, Goes(j, "done")))
    BY <1>6 DEF BeginApprove
  <2> HIDE DEF s
  <2>3. QED
    BY <1>3, <1>4, <2>1, <2>2
<1>7. CASE BeginCancel(j)
  <2>1. PICK targets : Reads(j, [Begun("cancel", "cancel_runs") EXCEPT !.targets = targets])
    BY <1>7 DEF BeginCancel
  <2> DEFINE s == [Begun("cancel", "cancel_runs") EXCEPT !.targets = targets]
  <2>2. s.kind = "cancel" /\ s.pc = "cancel_runs" /\ s.retry = "none" /\ ~s.auth
    BY DEF Begun, Idle
  <2>3. Reads(j, s)
    BY <2>1
  <2> HIDE DEF s
  <2>4. QED
    BY <1>3, <2>2, <2>3 DEF Busy
<1>8. CASE \E ci \in BOOLEAN : BeginCoordinate(j, ci)
  <2>1. PICK ci \in BOOLEAN : BeginCoordinate(j, ci)
    BY <1>8
  <2> DEFINE n == Len(checks)
             s == [Begun("coordinate", "live") EXCEPT
                      !.ci = ci, !.seen = n, !.was = IF n = 0 THEN Reserved ELSE checks[n]]
  <2>2. s.kind = "coordinate" /\ s.pc = "live" /\ s.retry = "none" /\ ~s.auth
    BY DEF Begun, Idle
  <2>3. CanBegin(j, "coordinate") /\ (Reads(j, s) \/ Reads(j, Goes(j, "done")))
    BY <2>1 DEF BeginCoordinate
  <2> HIDE DEF s
  <2>4. QED
    BY <1>3, <1>4, <2>2, <2>3
<1>9. QED
  BY <1>5, <1>6, <1>7, <1>8 DEF Begin

LEMMA InitIsApart == ASSUME Init PROVE Apart
<1>1. checks = <<>> /\ jobs = [j \in 1..MaxJobs |-> Idle] /\ (Fork => plan # "plain")
  BY DEF Init
<1>2. Len(checks) = 0
  BY <1>1, EmptySeq
<1>3. ASSUME NEW j \in 1..MaxJobs PROVE ~Bound(jobs[j]) /\ Apt(jobs[j], checks)
  <2>1. jobs[j].pc = "idle" /\ jobs[j].retry = "none"
    BY <1>1 DEF Idle
  <2>2. QED
    BY <2>1 DEF Bound, Unbound, Busy, Apt, KindOk, Holding, Judged
<1>4. QED
  BY <1>1, <1>2, <1>3 DEF Apart

LEMMA NextKeepsApart ==
    ASSUME IInv, Apart, [Next]_vars
    PROVE  Apart'
<1>1. CASE UNCHANGED vars \/ Environment
  <2>1. UNCHANGED <<plan, checks, jobs>>
    BY <1>1 DEF vars, Environment, Move, Appear, Authenticate, Refuse, RunEnds, RunBecomes,
       ReadVerdict, AcceptVerdict, RequiredBecomes
  <2>2. QED
    BY <2>1 DEF Apart, Bound, Busy, Group, Apt, KindOk, Unbound, NoneLater, NoneElse
<1>2. ASSUME NEW j \in 1..MaxJobs,
             Begin(j) \/ Step(j) \/ ReadFails(j) \/ StepDies(j) \/ Vanish(j)
      PROVE  Apart'
  <2>1. CASE Begin(j)
    BY <2>1, BeginKeepsApart
  <2>2. CASE CloseCheck(j)
    BY <2>2, CloseKeeps
  <2>3. CASE Step(j) /\ ~CloseCheck(j)
    BY <2>3, SparesKeeps, StartsSpare, EvaluateSpares, DispatchSpares, FinishSpares,
       ConfirmSpares, FailCheckSpares, RetrySpares, CleansSpare, CancelSpares DEF Step
  <2>4. CASE ReadFails(j) \/ StepDies(j) \/ Vanish(j)
    BY <2>4, SparesKeeps, FailsSpare
  <2>5. QED
    BY <1>2, <2>1, <2>2, <2>3, <2>4
<1>3. QED
  BY <1>1, <1>2 DEF Next

\* The jobs that judge a child run exclude each other, and know of every lost runner of the
\* diff: also in a fork, whose coordination runs beside them.
THEOREM GateApart == Spec => []Apart
<1>1. Init => Apart
  BY InitIsApart
<1>2. IInv /\ Apart /\ [Next]_vars => Apart'
  BY NextKeepsApart
<1>3. QED
  BY <1>1, <1>2, GateInvariant, PTL DEF Spec

\* Whatever the jobs, concurrency groups and failures, a diff has at most one check that stands
\* for a lost runner: it is retried once.
THEOREM RetriedOnce == Spec => []OneRunnerLossRetry
<1>1. Apart => OneRunnerLossRetry
  <2> DEFINE S == {k \in 1..Len(checks) : checks[k].retry = "child-cancelled"}
  <2> SUFFICES ASSUME Apart PROVE Cardinality(S) <= 1
    BY DEF OneRunnerLossRetry
  <2>1. \A k, m \in S : k = m
    BY DEF Apart, Lost
  <2> HIDE DEF S
  <2>2. CASE S = {}
    BY <2>2, FS_EmptySet
  <2>3. CASE S # {}
    <3>1. PICK k : S = {k}
      BY <2>1, <2>3
    <3>2. QED
      BY <3>1, FS_Singleton
  <2>4. QED
    BY <2>2, <2>3
<1>2. QED
  BY <1>1, GateApart, PTL

=============================================================================
