----------------------- MODULE LeaderElection_proofs ------------------------
(***************************************************************************)
(* At most one replica rules, for any number of replicas, renewers and     *)
(* callers and any TTL, when no reply takes longer than the margin.        *)
(*                                                                         *)
(* The argument: the local deadline of a running replica never outlives    *)
(* the Redis key, and the key is then one of its own.  It is inductive     *)
(* with the fact that a reply under way belongs to a command that gave the *)
(* key its full TTL no longer ago than the reply's age.                    *)
(***************************************************************************)
EXTENDS LeaderElection, TLAPS

Own(i) == {i} \X Tokens

\* The tokens a replica works with are its own.
OwnTokens ==
    \A i \in Electors :
        /\ token[i] \in Own(i) \cup {NoToken}
        /\ \A t \in Threads : tok[i][t] \in Own(i) \cup {NoToken}

\* A reply under way tells of a key that still has what is left of its TTL.
ReplyIsFresh ==
    \A i \in Electors, t \in Threads :
        Running(i) /\ Waiting(i, t) => key \in Own(i) /\ ttl + age[i][t] >= TTL

\* The local deadline passes before the key expires.
LeaseCovers ==
    \A i \in Electors : Running(i) /\ deadline[i] > 0 => key \in Own(i) /\ ttl >= deadline[i]

\* The cancel func, if there is one, is that of the newest renewer.
Stoppable ==
    /\ RenewalIsStoppable
    /\ \A i \in Electors : stopRenew[i] \in {newest[i], NoRenewer}

Inv == TypeOK /\ OwnTokens /\ ReplyIsFresh /\ LeaseCovers

\* What the steps need to know of threads, tokens and times.
LEMMA Facts ==
    /\ "main" \in Threads /\ Renewers \subseteq Threads /\ Callers \subseteq Threads
    /\ "main" \notin Renewers \cup Callers
    /\ NoRenewer \in Renewers \cup {NoRenewer}
    /\ NoToken \in Token /\ Local \in Nat /\ Local <= TTL /\ Local > 0
    /\ \A i \in Electors : \A k \in Tokens : <<i, k>> \in Token /\ <<i, k>> # NoToken
  BY ThreadsAssumption, TimesAssumption DEF Threads, Token, NoToken, Local

\* The labels of the threads.
LEMMA Labels ==
    /\ "idle" \in PC /\ "try" \in PC /\ "sent" \in PC /\ "swaptrue" \in PC /\ "sendtrue" \in PC
    /\ "start" \in PC /\ "wait" \in PC /\ "release" \in PC /\ "down" \in PC /\ "tick" \in PC
    /\ "ok" \in PC /\ "lost" \in PC /\ "failed" \in PC /\ "extend" \in PC /\ "retry" \in PC
    /\ "guard" \in PC /\ "stop" \in PC /\ "clear" \in PC /\ "swap" \in PC /\ "send" \in PC
  BY ZenonT(60) DEF PC

\* Every step keeps the types.
LEMMA TypeStep ==
    ASSUME TypeOK, [Next]_vars
    PROVE  TypeOK'
<1>1. ASSUME Tick PROVE TypeOK'
  BY <1>1, TimesAssumption, BoundsAssumption, Facts, Labels DEF Tick, Waiting, TypeOK, redis, elector, threads
<1>2. ASSUME NEW i \in Electors, TryAcquire(i) PROVE TypeOK'
  BY <1>2, TimesAssumption, BoundsAssumption, Facts, Labels DEF TryAcquire, Goto, SetNX, Unused, TypeOK, redis, elector, threads
<1>3. ASSUME NEW i \in Electors, Acquired(i) PROVE TypeOK'
  BY <1>3, TimesAssumption, BoundsAssumption, Facts, Labels DEF Acquired, Goto, TypeOK, redis, elector, threads
<1>4. ASSUME NEW i \in Electors, SwapTrue(i) PROVE TypeOK'
  BY <1>4, TimesAssumption, BoundsAssumption, Facts, Labels DEF SwapTrue, Goto, TypeOK, redis, elector, threads
<1>5. ASSUME NEW i \in Electors, SendTrue(i) PROVE TypeOK'
  BY <1>5, TimesAssumption, BoundsAssumption, Facts, Labels DEF SendTrue, Goto, TypeOK, redis, elector, threads
<1>6. ASSUME NEW i \in Electors, StartRenewal(i) PROVE TypeOK'
  <2>1. PICK g \in Renewers :
              /\ pc' = [pc EXCEPT ![i]["main"] = "wait", ![i][g] = "tick"]
              /\ tok' = [tok EXCEPT ![i][g] = token[i]]
              /\ failures' = [failures EXCEPT ![i][g] = 0]
              /\ newest' = [newest EXCEPT ![i] = g]
              /\ stopRenew' = [stopRenew EXCEPT ![i] = g]
              /\ canceled' = [canceled EXCEPT ![i] = (@ \cup ({stopRenew[i]} \cap Renewers)) \ {g}]
              /\ UNCHANGED <<redis, token, leader, deadline, note, age, faults>>
    BY <1>6, ZenonT(60) DEF StartRenewal
  <2>2. pc' \in [Electors -> [Threads -> PC]]
    BY ZenonT(60), <2>1, Facts, Labels DEF TypeOK
  <2>3. canceled' \in [Electors -> SUBSET Renewers]
    BY <2>1 DEF TypeOK
  <2>4. /\ tok' \in [Electors -> [Threads -> Token]]
        /\ failures' \in [Electors -> [Renewers -> 0..Tolerance]]
    BY <2>1, Facts, BoundsAssumption DEF TypeOK
  <2>q. QED
    BY ZenonT(60), <2>1, <2>2, <2>3, <2>4 DEF TypeOK, redis
<1>7. ASSUME NEW i \in Electors, Recampaign(i) PROVE TypeOK'
  BY <1>7, TimesAssumption, BoundsAssumption, Facts, Labels DEF Recampaign, Goto, TypeOK, redis, elector, threads
<1>8. ASSUME NEW i \in Electors, TryLost(i) PROVE TypeOK'
  BY <1>8, TimesAssumption, BoundsAssumption, Facts, Labels DEF TryLost, Fault, SetNX, Unused, TypeOK, redis, elector, threads
<1>9. ASSUME NEW i \in Electors, Resign(i) PROVE TypeOK'
  BY <1>9, TimesAssumption, BoundsAssumption, Facts, Labels DEF Resign, Stopped, TypeOK, redis, elector, threads
<1>10. ASSUME NEW i \in Electors, Release(i) PROVE TypeOK'
  BY <1>10, TimesAssumption, BoundsAssumption, Facts, Labels DEF Release, Goto, Fault, TypeOK, redis, elector, threads
<1>11. ASSUME NEW i \in Electors, Restart(i) PROVE TypeOK'
  BY <1>11, TimesAssumption, BoundsAssumption, Facts, Labels DEF Restart, Fault, Start0, TypeOK, redis, elector, threads
<1>12. ASSUME NEW i \in Electors, NEW g \in Renewers, Renew(i, g) PROVE TypeOK'
  BY <1>12, TimesAssumption, BoundsAssumption, Facts, Labels DEF Renew, Extended, Held, TypeOK, redis, elector, threads
<1>13. ASSUME NEW i \in Electors, NEW g \in Renewers, RenewFails(i, g) PROVE TypeOK'
  BY <1>13, TimesAssumption, BoundsAssumption, Facts, Labels DEF RenewFails, Extended, Held, Fault, TypeOK, redis, elector, threads
<1>14. ASSUME NEW i \in Electors, NEW g \in Renewers, Retry(i, g) PROVE TypeOK'
  BY <1>14, TimesAssumption, BoundsAssumption, Facts, Labels DEF Retry, Goto, TypeOK, redis, elector, threads
<1>15. ASSUME NEW i \in Electors, NEW g \in Renewers, RetryTimesOut(i, g) PROVE TypeOK'
  BY <1>15, TimesAssumption, BoundsAssumption, Facts, Labels DEF RetryTimesOut, Goto, TypeOK, redis, elector, threads
<1>16. ASSUME NEW i \in Electors, NEW g \in Renewers, Reply(i, g) PROVE TypeOK'
  <2>1. CASE Goto(i, g, "ok", "extend")
    BY <1>16, <2>1, Facts, Labels DEF Reply, Goto, TypeOK, redis, elector
  <2>2. CASE Goto(i, g, "lost", "guard")
    BY <1>16, <2>2, Facts, Labels DEF Reply, Goto, TypeOK, redis, elector
  <2>q. QED
    BY <1>16, <2>1, <2>2 DEF Reply
<1>17. ASSUME NEW i \in Electors, NEW g \in Renewers, Canceled(i, g) PROVE TypeOK'
  BY <1>17, TimesAssumption, BoundsAssumption, Facts, Labels DEF Canceled, TypeOK, redis, elector, threads
<1>18. ASSUME NEW i \in Electors, NEW g \in Renewers, Extend(i, g) PROVE TypeOK'
  BY <1>18, TimesAssumption, BoundsAssumption, Facts, Labels DEF Extend, Goto, TypeOK, redis, elector, threads
<1>19. ASSUME NEW i \in Electors, NEW g \in Renewers, FinishRenewal(i, g) PROVE TypeOK'
  BY <1>19, TimesAssumption, BoundsAssumption, Facts, Labels DEF FinishRenewal, Goto, TypeOK, redis, elector, threads
<1>20. ASSUME NEW i \in Electors, NEW q \in Callers, Ask(i, q) PROVE TypeOK'
  BY <1>20, TimesAssumption, BoundsAssumption, Facts, Labels DEF Ask, Goto, TypeOK, redis, elector, threads
<1>21. ASSUME NEW i \in Electors, NEW q \in Callers, StopRenewal(i, q) PROVE TypeOK'
  BY <1>21, TimesAssumption, BoundsAssumption, Facts, Labels DEF StopRenewal, Stopped, Goto, TypeOK, redis, elector, threads
<1>22. ASSUME NEW i \in Electors, NEW t \in Threads, Clear(i, t) PROVE TypeOK'
  BY <1>22, TimesAssumption, BoundsAssumption, Facts, Labels DEF Clear, Goto, TypeOK, redis, elector, threads
<1>23. ASSUME NEW i \in Electors, NEW t \in Threads, SwapFalse(i, t) PROVE TypeOK'
  BY <1>23, TimesAssumption, BoundsAssumption, Facts, Labels DEF SwapFalse, Goto, End, TypeOK, redis, elector, threads
<1>24. ASSUME NEW i \in Electors, NEW t \in Threads, SendFalse(i, t) PROVE TypeOK'
  BY <1>24, TimesAssumption, BoundsAssumption, Facts, Labels DEF SendFalse, Goto, End, TypeOK, redis, elector, threads
<1>25. CASE UNCHANGED vars
  BY <1>25 DEF TypeOK, vars
<1>q. QED
  BY <1>1, <1>2, <1>3, <1>4, <1>5, <1>6, <1>7, <1>8, <1>9, <1>10, <1>11, <1>12, <1>13, <1>14, <1>15, <1>16, <1>17, <1>18, <1>19, <1>20, <1>21, <1>22, <1>23, <1>24, <1>25, ZenonT(60) DEF Next, Campaign, Renewal, IsLeader, GiveUp

\* Tokens tell whose they are.
LEMMA Owners ==
    /\ \A i \in Electors : NoToken \notin Own(i) /\ \A k \in Tokens : <<i, k>> \in Own(i)
    /\ \A i, j \in Electors : i # j => Own(i) \cap Own(j) = {}
  BY DEF Own, NoToken

\* No step mixes up the tokens of replicas.
LEMMA OwnStep ==
    ASSUME TypeOK, OwnTokens, [Next]_vars
    PROVE  OwnTokens'
<1>1. ASSUME Tick PROVE OwnTokens'
  BY <1>1, Facts, Owners DEF Tick, Waiting, OwnTokens, TypeOK, redis, elector, threads
<1>2. ASSUME NEW i \in Electors, TryAcquire(i) PROVE OwnTokens'
  BY <1>2, Facts, Owners DEF TryAcquire, Goto, SetNX, Unused, OwnTokens, TypeOK, redis, elector, threads
<1>3. ASSUME NEW i \in Electors, Acquired(i) PROVE OwnTokens'
  BY <1>3, Facts, Owners DEF Acquired, Goto, OwnTokens, TypeOK, redis, elector, threads
<1>4. ASSUME NEW i \in Electors, SwapTrue(i) PROVE OwnTokens'
  BY <1>4, Facts, Owners DEF SwapTrue, Goto, OwnTokens, TypeOK, redis, elector, threads
<1>5. ASSUME NEW i \in Electors, SendTrue(i) PROVE OwnTokens'
  BY <1>5, Facts, Owners DEF SendTrue, Goto, OwnTokens, TypeOK, redis, elector, threads
<1>6. ASSUME NEW i \in Electors, StartRenewal(i) PROVE OwnTokens'
  BY <1>6, Facts, Owners DEF StartRenewal, OwnTokens, TypeOK, redis, elector, threads
<1>7. ASSUME NEW i \in Electors, Recampaign(i) PROVE OwnTokens'
  BY <1>7, Facts, Owners DEF Recampaign, Goto, OwnTokens, TypeOK, redis, elector, threads
<1>8. ASSUME NEW i \in Electors, TryLost(i) PROVE OwnTokens'
  BY <1>8, Facts, Owners DEF TryLost, Fault, SetNX, Unused, OwnTokens, TypeOK, redis, elector, threads
<1>9. ASSUME NEW i \in Electors, Resign(i) PROVE OwnTokens'
  BY <1>9, Facts, Owners DEF Resign, Stopped, OwnTokens, TypeOK, redis, elector, threads
<1>10. ASSUME NEW i \in Electors, Release(i) PROVE OwnTokens'
  BY <1>10, Facts, Owners DEF Release, Goto, Fault, OwnTokens, TypeOK, redis, elector, threads
<1>11. ASSUME NEW i \in Electors, Restart(i) PROVE OwnTokens'
  BY <1>11, Facts, Owners DEF Restart, Fault, Start0, OwnTokens, TypeOK, redis, elector, threads
<1>12. ASSUME NEW i \in Electors, NEW g \in Renewers, Renew(i, g) PROVE OwnTokens'
  BY <1>12, Facts, Owners DEF Renew, Extended, Held, OwnTokens, TypeOK, redis, elector, threads
<1>13. ASSUME NEW i \in Electors, NEW g \in Renewers, RenewFails(i, g) PROVE OwnTokens'
  BY <1>13, Facts, Owners DEF RenewFails, Extended, Held, Fault, OwnTokens, TypeOK, redis, elector, threads
<1>14. ASSUME NEW i \in Electors, NEW g \in Renewers, Retry(i, g) PROVE OwnTokens'
  BY <1>14, Facts, Owners DEF Retry, Goto, OwnTokens, TypeOK, redis, elector, threads
<1>15. ASSUME NEW i \in Electors, NEW g \in Renewers, RetryTimesOut(i, g) PROVE OwnTokens'
  BY <1>15, Facts, Owners DEF RetryTimesOut, Goto, OwnTokens, TypeOK, redis, elector, threads
<1>16. ASSUME NEW i \in Electors, NEW g \in Renewers, Reply(i, g) PROVE OwnTokens'
  BY <1>16, Facts, Owners DEF Reply, Goto, OwnTokens, TypeOK, redis, elector, threads
<1>17. ASSUME NEW i \in Electors, NEW g \in Renewers, Canceled(i, g) PROVE OwnTokens'
  BY <1>17, Facts, Owners DEF Canceled, OwnTokens, TypeOK, redis, elector, threads
<1>18. ASSUME NEW i \in Electors, NEW g \in Renewers, Extend(i, g) PROVE OwnTokens'
  BY <1>18, Facts, Owners DEF Extend, Goto, OwnTokens, TypeOK, redis, elector, threads
<1>19. ASSUME NEW i \in Electors, NEW g \in Renewers, FinishRenewal(i, g) PROVE OwnTokens'
  BY <1>19, Facts, Owners DEF FinishRenewal, Goto, OwnTokens, TypeOK, redis, elector, threads
<1>20. ASSUME NEW i \in Electors, NEW q \in Callers, Ask(i, q) PROVE OwnTokens'
  BY <1>20, Facts, Owners DEF Ask, Goto, OwnTokens, TypeOK, redis, elector, threads
<1>21. ASSUME NEW i \in Electors, NEW q \in Callers, StopRenewal(i, q) PROVE OwnTokens'
  BY <1>21, Facts, Owners DEF StopRenewal, Stopped, Goto, OwnTokens, TypeOK, redis, elector, threads
<1>22. ASSUME NEW i \in Electors, NEW t \in Threads, Clear(i, t) PROVE OwnTokens'
  BY ZenonT(60), <1>22, Facts, Owners DEF Clear, Goto, OwnTokens, TypeOK, redis, elector, threads
<1>23. ASSUME NEW i \in Electors, NEW t \in Threads, SwapFalse(i, t) PROVE OwnTokens'
  BY <1>23, Facts, Owners DEF SwapFalse, Goto, End, OwnTokens, TypeOK, redis, elector, threads
<1>24. ASSUME NEW i \in Electors, NEW t \in Threads, SendFalse(i, t) PROVE OwnTokens'
  BY <1>24, Facts, Owners DEF SendFalse, Goto, End, OwnTokens, TypeOK, redis, elector, threads
<1>25. CASE UNCHANGED vars
  BY <1>25, ZenonT(60) DEF OwnTokens, vars
<1>q. QED
  BY <1>1, <1>2, <1>3, <1>4, <1>5, <1>6, <1>7, <1>8, <1>9, <1>10, <1>11, <1>12, <1>13, <1>14, <1>15, <1>16, <1>17, <1>18, <1>19, <1>20, <1>21, <1>22, <1>23, <1>24, <1>25, ZenonT(60) DEF Next, Campaign, Renewal, IsLeader, GiveUp

\* No step leaves a renewer behind that nobody can stop.
LEMMA StopStep ==
    ASSUME TypeOK, Stoppable, [Next]_vars
    PROVE  Stoppable'
<1>1. ASSUME Tick PROVE Stoppable'
  BY <1>1, Facts DEF Tick, Waiting, Stoppable, RenewalIsStoppable, TypeOK, redis, elector, threads
<1>2. ASSUME NEW i \in Electors, TryAcquire(i) PROVE Stoppable'
  BY <1>2, Facts DEF TryAcquire, Goto, SetNX, Unused, Stoppable, RenewalIsStoppable, TypeOK, redis, elector, threads
<1>3. ASSUME NEW i \in Electors, Acquired(i) PROVE Stoppable'
  BY <1>3, Facts DEF Acquired, Goto, Stoppable, RenewalIsStoppable, TypeOK, redis, elector, threads
<1>4. ASSUME NEW i \in Electors, SwapTrue(i) PROVE Stoppable'
  BY <1>4, Facts DEF SwapTrue, Goto, Stoppable, RenewalIsStoppable, TypeOK, redis, elector, threads
<1>5. ASSUME NEW i \in Electors, SendTrue(i) PROVE Stoppable'
  BY <1>5, Facts DEF SendTrue, Goto, Stoppable, RenewalIsStoppable, TypeOK, redis, elector, threads
<1>6. ASSUME NEW i \in Electors, StartRenewal(i) PROVE Stoppable'
  BY <1>6, Facts DEF StartRenewal, Stoppable, RenewalIsStoppable, TypeOK, redis, elector, threads
<1>7. ASSUME NEW i \in Electors, Recampaign(i) PROVE Stoppable'
  BY <1>7, Facts DEF Recampaign, Goto, Stoppable, RenewalIsStoppable, TypeOK, redis, elector, threads
<1>8. ASSUME NEW i \in Electors, TryLost(i) PROVE Stoppable'
  BY <1>8, Facts DEF TryLost, Fault, SetNX, Unused, Stoppable, RenewalIsStoppable, TypeOK, redis, elector, threads
<1>9. ASSUME NEW i \in Electors, Resign(i) PROVE Stoppable'
  BY <1>9, Facts DEF Resign, Stopped, Stoppable, RenewalIsStoppable, TypeOK, redis, elector, threads
<1>10. ASSUME NEW i \in Electors, Release(i) PROVE Stoppable'
  BY <1>10, Facts DEF Release, Goto, Fault, Stoppable, RenewalIsStoppable, TypeOK, redis, elector, threads
<1>11. ASSUME NEW i \in Electors, Restart(i) PROVE Stoppable'
  BY <1>11, Facts DEF Restart, Fault, Start0, Stoppable, RenewalIsStoppable, TypeOK, redis, elector, threads
<1>12. ASSUME NEW i \in Electors, NEW g \in Renewers, Renew(i, g) PROVE Stoppable'
  BY <1>12, Facts DEF Renew, Extended, Held, Stoppable, RenewalIsStoppable, TypeOK, redis, elector, threads
<1>13. ASSUME NEW i \in Electors, NEW g \in Renewers, RenewFails(i, g) PROVE Stoppable'
  BY <1>13, Facts DEF RenewFails, Extended, Held, Fault, Stoppable, RenewalIsStoppable, TypeOK, redis, elector, threads
<1>14. ASSUME NEW i \in Electors, NEW g \in Renewers, Retry(i, g) PROVE Stoppable'
  BY <1>14, Facts DEF Retry, Goto, Stoppable, RenewalIsStoppable, TypeOK, redis, elector, threads
<1>15. ASSUME NEW i \in Electors, NEW g \in Renewers, RetryTimesOut(i, g) PROVE Stoppable'
  BY <1>15, Facts DEF RetryTimesOut, Goto, Stoppable, RenewalIsStoppable, TypeOK, redis, elector, threads
<1>16. ASSUME NEW i \in Electors, NEW g \in Renewers, Reply(i, g) PROVE Stoppable'
  <2>1. CASE Goto(i, g, "ok", "extend")
    BY <1>16, <2>1, Facts DEF Reply, Goto, Stoppable, RenewalIsStoppable, TypeOK, elector
  <2>2. CASE Goto(i, g, "lost", "guard")
    BY <1>16, <2>2, Facts DEF Reply, Goto, Stoppable, RenewalIsStoppable, TypeOK, elector
  <2>q. QED
    BY <1>16, <2>1, <2>2 DEF Reply
<1>17. ASSUME NEW i \in Electors, NEW g \in Renewers, Canceled(i, g) PROVE Stoppable'
  BY <1>17, Facts DEF Canceled, Stoppable, RenewalIsStoppable, TypeOK, redis, elector, threads
<1>18. ASSUME NEW i \in Electors, NEW g \in Renewers, Extend(i, g) PROVE Stoppable'
  BY <1>18, Facts DEF Extend, Goto, Stoppable, RenewalIsStoppable, TypeOK, redis, elector, threads
<1>19. ASSUME NEW i \in Electors, NEW g \in Renewers, FinishRenewal(i, g) PROVE Stoppable'
  BY <1>19, Facts DEF FinishRenewal, Goto, Stoppable, RenewalIsStoppable, TypeOK, redis, elector, threads
<1>20. ASSUME NEW i \in Electors, NEW q \in Callers, Ask(i, q) PROVE Stoppable'
  BY <1>20, Facts DEF Ask, Goto, Stoppable, RenewalIsStoppable, TypeOK, redis, elector, threads
<1>21. ASSUME NEW i \in Electors, NEW q \in Callers, StopRenewal(i, q) PROVE Stoppable'
  BY <1>21, Facts DEF StopRenewal, Stopped, Goto, Stoppable, RenewalIsStoppable, TypeOK, redis, elector, threads
<1>22. ASSUME NEW i \in Electors, NEW t \in Threads, Clear(i, t) PROVE Stoppable'
  BY <1>22, Facts DEF Clear, Goto, Stoppable, RenewalIsStoppable, TypeOK, redis, elector, threads
<1>23. ASSUME NEW i \in Electors, NEW t \in Threads, SwapFalse(i, t) PROVE Stoppable'
  BY <1>23, Facts DEF SwapFalse, Goto, End, Stoppable, RenewalIsStoppable, TypeOK, redis, elector, threads
<1>24. ASSUME NEW i \in Electors, NEW t \in Threads, SendFalse(i, t) PROVE Stoppable'
  BY <1>24, Facts DEF SendFalse, Goto, End, Stoppable, RenewalIsStoppable, TypeOK, redis, elector, threads
<1>25. CASE UNCHANGED vars
  BY <1>25, ZenonT(60) DEF Stoppable, RenewalIsStoppable, vars
<1>q. QED
  BY <1>1, <1>2, <1>3, <1>4, <1>5, <1>6, <1>7, <1>8, <1>9, <1>10, <1>11, <1>12, <1>13, <1>14, <1>15, <1>16, <1>17, <1>18, <1>19, <1>20, <1>21, <1>22, <1>23, <1>24, <1>25, ZenonT(60) DEF Next, Campaign, Renewal, IsLeader, GiveUp

\* Every step keeps the local deadlines covered by the key.
LEMMA LeaseStep ==
    ASSUME Inv, MaxDelay <= Margin, [Next]_vars
    PROVE  ReplyIsFresh' /\ LeaseCovers'
<1>1. ASSUME Tick PROVE ReplyIsFresh' /\ LeaseCovers'
  BY SMTT(60), <1>1, Facts, Owners, TimesAssumption DEF Tick, Waiting, Running, Inv, OwnTokens, ReplyIsFresh, LeaseCovers, TypeOK, redis, elector, threads
<1>2. ASSUME NEW i \in Electors, TryAcquire(i) PROVE ReplyIsFresh' /\ LeaseCovers'
  BY <1>2, Facts, Owners, TimesAssumption DEF TryAcquire, Goto, SetNX, Unused, Waiting, Running, Inv, OwnTokens, ReplyIsFresh, LeaseCovers, TypeOK, redis, elector, threads
<1>3. ASSUME NEW i \in Electors, Acquired(i) PROVE ReplyIsFresh' /\ LeaseCovers'
  <2>1. Running(i) => key \in Own(i) /\ ttl >= Local
    BY <1>3, Facts, TimesAssumption DEF Acquired, Goto, Waiting, Inv, ReplyIsFresh, TypeOK, Local
  <2>2. ReplyIsFresh'
    BY <1>3, Facts DEF Acquired, Goto, Waiting, Running, Inv, ReplyIsFresh, TypeOK, redis
  <2>3. LeaseCovers'
    BY <1>3, <2>1, Facts DEF Acquired, Goto, Running, Inv, LeaseCovers, TypeOK, redis
  <2>q. QED
    BY ZenonT(60), <2>2, <2>3
<1>4. ASSUME NEW i \in Electors, SwapTrue(i) PROVE ReplyIsFresh' /\ LeaseCovers'
  BY <1>4, Facts, Owners, TimesAssumption DEF SwapTrue, Goto, Waiting, Running, Inv, OwnTokens, ReplyIsFresh, LeaseCovers, TypeOK, redis, elector, threads
<1>5. ASSUME NEW i \in Electors, SendTrue(i) PROVE ReplyIsFresh' /\ LeaseCovers'
  BY SMTT(60), <1>5, Facts, Owners, TimesAssumption DEF SendTrue, Goto, Waiting, Running, Inv, OwnTokens, ReplyIsFresh, LeaseCovers, TypeOK, redis, elector, threads
<1>6. ASSUME NEW i \in Electors, StartRenewal(i) PROVE ReplyIsFresh' /\ LeaseCovers'
  <2>1. ReplyIsFresh'
    BY <1>6, Facts, TimesAssumption DEF StartRenewal, Waiting, Running, Inv, ReplyIsFresh, TypeOK, redis
  <2>2. LeaseCovers'
    BY <1>6, Facts, TimesAssumption DEF StartRenewal, Running, Inv, LeaseCovers, TypeOK, redis
  <2>q. QED
    BY Zenon, <2>1, <2>2
<1>7. ASSUME NEW i \in Electors, Recampaign(i) PROVE ReplyIsFresh' /\ LeaseCovers'
  BY <1>7, Facts, Owners, TimesAssumption DEF Recampaign, Goto, Waiting, Running, Inv, OwnTokens, ReplyIsFresh, LeaseCovers, TypeOK, redis, elector, threads
<1>8. ASSUME NEW i \in Electors, TryLost(i) PROVE ReplyIsFresh' /\ LeaseCovers'
  BY <1>8, Facts, Owners, TimesAssumption DEF TryLost, Fault, SetNX, Unused, Waiting, Running, Inv, OwnTokens, ReplyIsFresh, LeaseCovers, TypeOK, redis, elector, threads
<1>9. ASSUME NEW i \in Electors, Resign(i) PROVE ReplyIsFresh' /\ LeaseCovers'
  BY <1>9, Facts, Owners, TimesAssumption DEF Resign, Stopped, Waiting, Running, Inv, OwnTokens, ReplyIsFresh, LeaseCovers, TypeOK, redis, elector, threads
<1>10. ASSUME NEW i \in Electors, Release(i) PROVE ReplyIsFresh' /\ LeaseCovers'
  BY <1>10, Facts, Owners, TimesAssumption DEF Release, Goto, Fault, Waiting, Running, Inv, OwnTokens, ReplyIsFresh, LeaseCovers, TypeOK, redis, elector, threads
<1>11. ASSUME NEW i \in Electors, Restart(i) PROVE ReplyIsFresh' /\ LeaseCovers'
  BY SMTT(60), <1>11, Facts, Owners, TimesAssumption DEF Restart, Fault, Start0, Waiting, Running, Inv, OwnTokens, ReplyIsFresh, LeaseCovers, TypeOK, redis, elector, threads
<1>12. ASSUME NEW i \in Electors, NEW g \in Renewers, Renew(i, g) PROVE ReplyIsFresh' /\ LeaseCovers'
  BY <1>12, Facts, Owners, TimesAssumption DEF Renew, Extended, Held, Waiting, Running, Inv, OwnTokens, ReplyIsFresh, LeaseCovers, TypeOK, redis, elector, threads
<1>13. ASSUME NEW i \in Electors, NEW g \in Renewers, RenewFails(i, g) PROVE ReplyIsFresh' /\ LeaseCovers'
  BY <1>13, Facts, Owners, TimesAssumption DEF RenewFails, Extended, Held, Fault, Waiting, Running, Inv, OwnTokens, ReplyIsFresh, LeaseCovers, TypeOK, redis, elector, threads
<1>14. ASSUME NEW i \in Electors, NEW g \in Renewers, Retry(i, g) PROVE ReplyIsFresh' /\ LeaseCovers'
  BY <1>14, Facts, Owners, TimesAssumption DEF Retry, Goto, Waiting, Running, Inv, OwnTokens, ReplyIsFresh, LeaseCovers, TypeOK, redis, elector, threads
<1>15. ASSUME NEW i \in Electors, NEW g \in Renewers, RetryTimesOut(i, g) PROVE ReplyIsFresh' /\ LeaseCovers'
  BY <1>15, Facts, Owners, TimesAssumption DEF RetryTimesOut, Goto, Waiting, Running, Inv, OwnTokens, ReplyIsFresh, LeaseCovers, TypeOK, redis, elector, threads
<1>16. ASSUME NEW i \in Electors, NEW g \in Renewers, Reply(i, g) PROVE ReplyIsFresh' /\ LeaseCovers'
  <2>1. CASE Goto(i, g, "ok", "extend")
    BY ZenonT(60), <1>16, <2>1, Facts DEF Reply, Goto, Waiting, Running, Inv, ReplyIsFresh, LeaseCovers, TypeOK, redis, elector
  <2>2. CASE Goto(i, g, "lost", "guard")
    BY ZenonT(60), <1>16, <2>2, Facts DEF Reply, Goto, Waiting, Running, Inv, ReplyIsFresh, LeaseCovers, TypeOK, redis, elector
  <2>q. QED
    BY ZenonT(60), <1>16, <2>1, <2>2 DEF Reply
<1>17. ASSUME NEW i \in Electors, NEW g \in Renewers, Canceled(i, g) PROVE ReplyIsFresh' /\ LeaseCovers'
  BY <1>17, Facts, Owners, TimesAssumption DEF Canceled, Waiting, Running, Inv, OwnTokens, ReplyIsFresh, LeaseCovers, TypeOK, redis, elector, threads
<1>18. ASSUME NEW i \in Electors, NEW g \in Renewers, Extend(i, g) PROVE ReplyIsFresh' /\ LeaseCovers'
  <2>1. Running(i) => key \in Own(i) /\ ttl >= Local
    BY SMTT(60), <1>18, Facts, TimesAssumption DEF Extend, Goto, Waiting, Inv, ReplyIsFresh, TypeOK, Local
  <2>2. ReplyIsFresh'
    BY <1>18, Facts DEF Extend, Goto, Waiting, Running, Inv, ReplyIsFresh, TypeOK, redis
  <2>3. LeaseCovers'
    BY ZenonT(60), <1>18, <2>1, Facts DEF Extend, Goto, Running, Inv, LeaseCovers, TypeOK, redis
  <2>q. QED
    BY ZenonT(60), <2>2, <2>3
<1>19. ASSUME NEW i \in Electors, NEW g \in Renewers, FinishRenewal(i, g) PROVE ReplyIsFresh' /\ LeaseCovers'
  BY SMTT(60), <1>19, Facts, Owners, TimesAssumption DEF FinishRenewal, Goto, Waiting, Running, Inv, OwnTokens, ReplyIsFresh, LeaseCovers, TypeOK, redis, elector, threads
<1>20. ASSUME NEW i \in Electors, NEW q \in Callers, Ask(i, q) PROVE ReplyIsFresh' /\ LeaseCovers'
  BY SMTT(60), <1>20, Facts, Owners, TimesAssumption DEF Ask, Goto, Waiting, Running, Inv, OwnTokens, ReplyIsFresh, LeaseCovers, TypeOK, redis, elector, threads
<1>21. ASSUME NEW i \in Electors, NEW q \in Callers, StopRenewal(i, q) PROVE ReplyIsFresh' /\ LeaseCovers'
  BY <1>21, Facts, Owners, TimesAssumption DEF StopRenewal, Stopped, Goto, Waiting, Running, Inv, OwnTokens, ReplyIsFresh, LeaseCovers, TypeOK, redis, elector, threads
<1>22. ASSUME NEW i \in Electors, NEW t \in Threads, Clear(i, t) PROVE ReplyIsFresh' /\ LeaseCovers'
  BY <1>22, Facts, Owners, TimesAssumption DEF Clear, Goto, Waiting, Running, Inv, OwnTokens, ReplyIsFresh, LeaseCovers, TypeOK, redis, elector, threads
<1>23. ASSUME NEW i \in Electors, NEW t \in Threads, SwapFalse(i, t) PROVE ReplyIsFresh' /\ LeaseCovers'
  BY SMTT(60), <1>23, Facts, Owners, TimesAssumption DEF SwapFalse, Goto, End, Waiting, Running, Inv, OwnTokens, ReplyIsFresh, LeaseCovers, TypeOK, redis, elector, threads
<1>24. ASSUME NEW i \in Electors, NEW t \in Threads, SendFalse(i, t) PROVE ReplyIsFresh' /\ LeaseCovers'
  BY SMTT(60), <1>24, Facts, Owners, TimesAssumption DEF SendFalse, Goto, End, Waiting, Running, Inv, OwnTokens, ReplyIsFresh, LeaseCovers, TypeOK, redis, elector, threads
<1>25. CASE UNCHANGED vars
  BY <1>25 DEF Inv, ReplyIsFresh, LeaseCovers, Running, Waiting, vars
<1>q. QED
  BY <1>1, <1>2, <1>3, <1>4, <1>5, <1>6, <1>7, <1>8, <1>9, <1>10, <1>11, <1>12, <1>13, <1>14, <1>15, <1>16, <1>17, <1>18, <1>19, <1>20, <1>21, <1>22, <1>23, <1>24, <1>25, ZenonT(60) DEF Next, Campaign, Renewal, IsLeader, GiveUp

\* The inductive invariant.
LEMMA Invariance == MaxDelay <= Margin => (Spec => []Inv)
<1> SUFFICES ASSUME MaxDelay <= Margin PROVE Spec => []Inv
  OBVIOUS
<1>1. Init => Inv
  <2> SUFFICES ASSUME Init PROVE Inv
    OBVIOUS
  <2>1. TypeOK
    BY Facts, Labels, TimesAssumption, BoundsAssumption DEF Init, TypeOK, Start0
  <2>2. OwnTokens
    BY DEF Init, OwnTokens
  <2>3. ReplyIsFresh /\ LeaseCovers
    BY DEF Init, ReplyIsFresh, LeaseCovers, Waiting, Start0
  <2>q. QED
    BY <2>1, <2>2, <2>3 DEF Inv
<1>2. Inv /\ [Next]_vars => Inv'
  BY TypeStep, OwnStep, LeaseStep DEF Inv
<1>q. QED
  BY <1>1, <1>2, PTL DEF Spec

\* The types of the electors' state are kept (leader.go), however replies are
\* delayed.
THEOREM TypeCorrect == Spec => []TypeOK
<1>1. Init => TypeOK
  BY Facts, Labels, TimesAssumption, BoundsAssumption DEF Init, TypeOK, Start0
<1>q. QED
  BY <1>1, TypeStep, PTL DEF Spec

\* A renewal goroutine that was not told to stop can be: startRenewal and
\* finishRenewal keep the cancel func with the newest generation, however the
\* goroutines of several terms overlap with IsLeader and Resign.
THEOREM RenewersStayStoppable == Spec => []RenewalIsStoppable
<1>1. Init => TypeOK /\ Stoppable
  <2>1. Init => TypeOK
    BY Facts, Labels, TimesAssumption, BoundsAssumption DEF Init, TypeOK, Start0
  <2>2. Init => Stoppable
    BY Facts DEF Init, Stoppable, RenewalIsStoppable, Start0
  <2>q. QED
    BY <2>1, <2>2
<1>2. TypeOK /\ Stoppable /\ [Next]_vars => (TypeOK /\ Stoppable)'
  BY TypeStep, StopStep
<1>3. Stoppable => RenewalIsStoppable
  BY DEF Stoppable
<1>q. QED
  BY <1>1, <1>2, <1>3, PTL DEF Spec

\* If replies are no later than the margin that extendLocalDeadline keeps, at
\* most one replica's IsLeader answers true while its loops run, whatever
\* crashes, resignations, lost replies and failed renewals occur.
THEOREM AtMostOneLeader == MaxDelay <= Margin => (Spec => []OneLeader)
<1>1. Inv => OneLeader
  BY Owners DEF Inv, LeaseCovers, OneLeader, Rules
<1>q. QED
  BY <1>1, Invariance, PTL

-----------------------------------------------------------------------------
(* The campaign loop hears of every loss.                                  *)

\* What makes LossIsHeard inductive: it already holds before the loop goes to
\* sleep, and the notification of a gain is only sent by a leader.
Heard ==
    \A i \in Electors :
        /\ pc[i]["main"] \in {"start", "wait"} =>
             leader[i] \/ ~note[i] \/ \E t \in Threads : pc[i][t] = "send"
        /\ pc[i]["main"] = "sendtrue" => leader[i]

\* A step that touches neither the flag nor the channel, keeps the campaign
\* loop where it is or takes it out of Campaign, and interrupts no send.
LEMMA NothingUnheard ==
    ASSUME Heard, leader' = leader, note' = note,
           \A i \in Electors :
              pc'[i]["main"] = pc[i]["main"] \/ pc'[i]["main"] \notin {"start", "wait", "sendtrue"},
           \A i \in Electors, t \in Threads : pc[i][t] = "send" => pc'[i][t] = "send"
    PROVE  Heard'
  BY Zenon DEF Heard

\* Every step keeps Heard, when no replica changes isLeader in two threads at
\* once.
LEMMA HeardStep ==
    ASSUME TypeOK, Alone, Heard, [Next]_vars
    PROVE  Heard'
<1>t. pc \in [Electors -> [Threads -> PC]] /\ leader \in [Electors -> BOOLEAN]
      /\ note \in [Electors -> BOOLEAN]
  BY Zenon DEF TypeOK
<1>1. ASSUME Tick PROVE Heard'
  BY Zenon, <1>1, NothingUnheard DEF Tick
<1>2. ASSUME NEW i \in Electors, TryAcquire(i) \/ Acquired(i) \/ Release(i) \/ Resign(i)
      PROVE  Heard'
  <2>1. leader' = leader /\ note' = note
    BY Zenon, <1>2 DEF TryAcquire, Acquired, Release, Resign, elector
  <2>2. \E l \in {"sent", "swaptrue", "clear", "release", "down"} :
          pc' = [pc EXCEPT ![i]["main"] = l] /\ pc[i]["main"] # "send"
    BY <1>2 DEF TryAcquire, Acquired, Release, Resign, Goto
  <2>q. QED
    BY <2>1, <2>2, <1>t, Facts, NothingUnheard
<1>3. ASSUME NEW i \in Electors, SwapTrue(i) PROVE Heard'
  <2>1. pc[i]["main"] = "swaptrue" /\ \E l \in PC : pc' = [pc EXCEPT ![i]["main"] = l]
    BY Zenon, <1>3, Labels DEF SwapTrue, Goto
  <2>2. leader' = [leader EXCEPT ![i] = TRUE] /\ note' = note
    BY Zenon, <1>3 DEF SwapTrue
  <2>q. QED
    BY <2>1, <2>2, <1>t, Facts DEF Heard
<1>4. ASSUME NEW i \in Electors, SendTrue(i) PROVE Heard'
  <2>1. pc[i]["main"] = "sendtrue" /\ pc' = [pc EXCEPT ![i]["main"] = "start"]
        /\ note' = [note EXCEPT ![i] = TRUE] /\ leader' = leader
    BY Zenon, <1>4 DEF SendTrue, Goto
  <2>q. QED
    BY <2>1, <1>t, Facts DEF Heard
<1>5. ASSUME NEW i \in Electors, StartRenewal(i) PROVE Heard'
  <2>1. PICK g \in Renewers : /\ pc[i]["main"] = "start" /\ pc[i][g] = "idle"
                              /\ pc' = [pc EXCEPT ![i]["main"] = "wait", ![i][g] = "tick"]
                              /\ leader' = leader /\ note' = note
    BY Zenon, <1>5 DEF StartRenewal
  <2>2. \A j \in Electors, t \in Threads : pc[j][t] = "send" => pc'[j][t] = "send"
    BY <2>1, <1>t, Facts
  <2>3. \A j \in Electors : pc'[j]["main"] = pc[j]["main"] \/ (pc[j]["main"] = "start" /\ pc'[j]["main"] = "wait")
    BY <2>1, <1>t, Facts
  <2>4. ASSUME NEW j \in Electors, pc'[j]["main"] \in {"start", "wait"}
        PROVE  leader'[j] \/ ~note'[j] \/ \E t \in Threads : pc'[j][t] = "send"
    <3>1. pc[j]["main"] \in {"start", "wait"}
      BY <2>3, <2>4
    <3>2. leader[j] \/ ~note[j] \/ \E t \in Threads : pc[j][t] = "send"
      BY Zenon, <3>1 DEF Heard
    <3>q. QED
      BY Zenon, <3>2, <2>1, <2>2
  <2>5. ASSUME NEW j \in Electors, pc'[j]["main"] = "sendtrue" PROVE leader'[j]
    <3>1. pc[j]["main"] = "sendtrue"
      BY <2>3, <2>5
    <3>q. QED
      BY Zenon, <3>1, <2>1 DEF Heard
  <2>q. QED
    BY Zenon, <2>4, <2>5 DEF Heard
<1>6. ASSUME NEW i \in Electors, Recampaign(i) PROVE Heard'
  <2>1. pc[i]["main"] = "wait" /\ pc' = [pc EXCEPT ![i]["main"] = "try"]
        /\ note' = [note EXCEPT ![i] = TRUE] /\ leader' = leader
    BY Zenon, <1>6 DEF Recampaign, Goto
  <2>q. QED
    BY <2>1, <1>t, Facts DEF Heard
<1>7. ASSUME NEW i \in Electors, TryLost(i) PROVE Heard'
  BY Zenon, <1>7, NothingUnheard DEF TryLost, elector, threads
<1>8. ASSUME NEW i \in Electors, Restart(i) PROVE Heard'
  <2>1. pc' = [pc EXCEPT ![i] = Start0] /\ leader' = [leader EXCEPT ![i] = FALSE]
        /\ note' = [note EXCEPT ![i] = FALSE]
    BY Zenon, <1>8 DEF Restart
  <2>2. pc'[i]["main"] = "try" /\ \A j \in Electors \ {i} :
          pc'[j] = pc[j] /\ leader'[j] = leader[j] /\ note'[j] = note[j]
    BY <2>1, <1>t, Facts DEF Start0
  <2>q. QED
    BY Zenon, <2>2 DEF Heard
<1>9. ASSUME NEW i \in Electors, NEW g \in Renewers, Renewal(i, g) \/ RenewFails(i, g)
      PROVE  Heard'
  <2>1. leader' = leader /\ note' = note
    BY Zenon, <1>9 DEF Renewal, Renew, Retry, RetryTimesOut, Reply, Canceled, Extend,
                       FinishRenewal, RenewFails, elector
  <2>2. pc[i][g] # "send" /\ \E l \in PC : pc' = [pc EXCEPT ![i][g] = l]
    <3>1. CASE Renew(i, g) \/ RenewFails(i, g) \/ Canceled(i, g)
      BY <3>1, Labels DEF Renew, RenewFails, Canceled
    <3>2. CASE Retry(i, g) \/ RetryTimesOut(i, g)
      BY <3>2, Labels DEF Retry, RetryTimesOut, Goto
    <3>3. CASE Reply(i, g)
      BY <3>3, Labels DEF Reply, Goto
    <3>4. CASE Extend(i, g) \/ FinishRenewal(i, g)
      BY <3>4, Labels DEF Extend, FinishRenewal, Goto
    <3>q. QED
      BY Zenon, <1>9, <3>1, <3>2, <3>3, <3>4 DEF Renewal
  <2>q. QED
    BY <2>1, <2>2, <1>t, Facts, NothingUnheard
<1>10. ASSUME NEW i \in Electors, NEW q \in Callers, IsLeader(i, q) PROVE Heard'
  <2>1. leader' = leader /\ note' = note
    BY Zenon, <1>10 DEF IsLeader, Ask, StopRenewal, elector
  <2>2. pc[i][q] # "send" /\ \E l \in PC : pc' = [pc EXCEPT ![i][q] = l]
    BY <1>10, Labels DEF IsLeader, Ask, StopRenewal, Goto
  <2>q. QED
    BY <2>1, <2>2, <1>t, Facts, NothingUnheard
<1>11. ASSUME NEW i \in Electors, NEW t \in Threads, Clear(i, t) PROVE Heard'
  <2>1. leader' = leader /\ note' = note
    BY Zenon, <1>11 DEF Clear
  <2>2. pc[i][t] = "clear" /\ pc' = [pc EXCEPT ![i][t] = "swap"]
    BY Zenon, <1>11 DEF Clear, Goto
  <2>q. QED
    BY <2>1, <2>2, <1>t, Facts, NothingUnheard
<1>12. ASSUME NEW i \in Electors, NEW t \in Threads, SwapFalse(i, t) PROVE Heard'
  <2>1. pc[i][t] = "swap" /\ leader' = [leader EXCEPT ![i] = FALSE] /\ note' = note
    BY Zenon, <1>12 DEF SwapFalse, Goto
  <2>2. pc' = [pc EXCEPT ![i][t] = IF leader[i] THEN "send" ELSE End(t)]
    BY Zenon, <1>12 DEF SwapFalse, Goto
  <2>3. \A j \in Electors \ {i} : pc'[j] = pc[j] /\ leader'[j] = leader[j] /\ note'[j] = note[j]
    BY <2>1, <2>2, <1>t
  <2>4. pc'[i]["main"] \in {"start", "wait"} =>
          leader'[i] \/ ~note'[i] \/ \E u \in Threads : pc'[i][u] = "send"
    <3>1. CASE t = "main"
      BY <3>1, <2>2, <1>t DEF End
    <3>2. CASE t # "main"
      <4>1. pc'[i]["main"] = pc[i]["main"]
        BY <3>2, <2>2, <1>t, Facts
      <4>2. CASE leader[i]
        BY <4>2, <2>2, <1>t
      <4>3. ASSUME NEW u \in Threads, pc[i][u] = "send" PROVE pc'[i][u] = "send"
        BY <4>3, <2>1, <2>2, <1>t
      <4>q. QED
        BY Zenon, <4>1, <4>2, <4>3, <2>1 DEF Heard
    <3>q. QED
      BY Zenon, <3>1, <3>2
  <2>5. pc'[i]["main"] # "sendtrue"
    <3>1. CASE t = "main"
      BY <3>1, <2>2, <1>t DEF End
    <3>2. CASE t # "main"
      <4>1. pc[i]["main"] # "sendtrue"
        BY Zenon, <3>2, <2>1, Facts DEF Alone
      <4>q. QED
        BY <4>1, <3>2, <2>2, <1>t, Facts
    <3>q. QED
      BY Zenon, <3>1, <3>2
  <2>q. QED
    BY <2>3, <2>4, <2>5 DEF Heard
<1>13. ASSUME NEW i \in Electors, NEW t \in Threads, SendFalse(i, t) PROVE Heard'
  <2>1. /\ pc[i][t] = "send" /\ pc' = [pc EXCEPT ![i][t] = End(t)]
        /\ note' = [note EXCEPT ![i] = FALSE] /\ leader' = leader
    BY Zenon, <1>13 DEF SendFalse, Goto
  <2>2. \A j \in Electors \ {i} : pc'[j] = pc[j] /\ leader'[j] = leader[j] /\ note'[j] = note[j]
    BY <2>1, <1>t
  <2>3. ~note'[i]
    BY Zenon, <2>1, <1>t
  <2>4. pc'[i]["main"] = "sendtrue" => pc[i]["main"] = "sendtrue"
    BY <2>1, <1>t, Facts DEF End
  <2>q. QED
    BY <2>1, <2>2, <2>3, <2>4 DEF Heard
<1>14. CASE UNCHANGED vars
  BY Zenon, <1>14 DEF Heard, vars
<1>q. QED
  BY Zenon, <1>1, <1>2, <1>3, <1>4, <1>5, <1>6, <1>7, <1>8, <1>9, <1>10, <1>11, <1>12, <1>13, <1>14
     DEF Next, Campaign, GiveUp

\* As long as no replica runs a finishRenewal, IsLeader or Campaign that
\* changes isLeader beside another, runLeaderCampaign never sleeps through a
\* lost leadership: setLeader's swap and its send are two steps, and the one
\* value that the Notify channel keeps is that of the last change.
THEOREM LossesAreHeard == Spec /\ []Alone => []LossIsHeard
<1>1. Init => Heard
  BY Facts DEF Init, Heard, Start0
<1>2. TypeOK /\ Alone /\ Heard /\ [Next]_vars => Heard'
  BY HeardStep
<1>3. Heard => LossIsHeard
  BY Zenon DEF Heard, LossIsHeard
<1>q. QED
  BY <1>1, <1>2, <1>3, TypeCorrect, PTL DEF Spec
=============================================================================
