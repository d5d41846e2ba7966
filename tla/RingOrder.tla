----------------------------- MODULE RingOrder -----------------------------
(***************************************************************************)
(* No arm of the ring is ahead of the arms it waits for, for every number  *)
(* of arms, jobs and troubles.  Firmwares have no sequence numbers and     *)
(* their answers are believed whatever update they are about, so the       *)
(* argument is about order: firmwares stay in the order the phone gave     *)
(* them all along the ring (Ordered), an arm that waits for COMPLETED has  *)
(* handed its firmware to the arm behind it and no other one is on its way *)
(* there (Handed), hence the COMPLETED it hears is about that firmware.    *)
(***************************************************************************)
EXTENDS RingProofs

\* The firmwares at arm a: the one it is working on, and the ones on their way.
IsUpdate(m) == m.type = "BOOTLOADER_UPDATE_CMD"
UpdatesIn(q) == {q[i].job : i \in {k \in 1..Len(q) : IsUpdate(q[k])}}
AtWork(a) == {j \in {job[a]} \ {NoMsg} : j.kind = "firmware"}
OnTheWay(a) == UpdatesIn(rx_ccw[a])
Pending(a) == AtWork(a) \cup OnTheWay(a)

\* Later firmwares are behind earlier ones.
Sorted(q) ==
  \A i, k \in 1..Len(q) :
    i < k /\ IsUpdate(q[i]) /\ IsUpdate(q[k]) => q[i].job.id <= q[k].job.id
InTurn(a) == \A j \in AtWork(a), k \in OnTheWay(a) : j.id <= k.id

Ordered ==
  /\ OnTheWay(0) = {}
  /\ \A a \in Arms : Sorted(rx_ccw[a]) /\ InTurn(a)
  /\ \A a, b \in Arms : a < b => \A j \in Pending(b), k \in Pending(a) : j.id <= k.id
  /\ ~undone => \A a, b \in Arms : a <= b => \A k \in Pending(a) : installed[b] <= k.id

\* The arm behind a has been told that it has completed.
Told(q) == \E i \in 1..Len(q) : q[i] = BootloaderAck("COMPLETED")

\* Arm a has handed its firmware to the arm behind it.
Same(a) ==
  /\ OnTheWay(a + 1) = {}
  /\ pc[a + 1] # "failed" => \A j \in AtWork(a + 1) : j.id = job[a].id
Handed(a) ==
  /\ pc[a] = "wait_completed" => Same(a)
  /\ ~undone /\ pc[a] = "wait_completed" /\ Told(rx_cw[a]) => job[a].id <= installed[a + 1]
  /\ ~undone /\ pc[a] = "install" => job[a].id <= installed[a + 1]
Rejoined(a) == ~undone /\ pc[a] = "rejoin" => installed[a] = job[a].id
Descending(a) == ~undone => installed[a] <= installed[a + 1]

InOrder ==
  /\ Ordered
  /\ \A a \in Arms \ {Last} : Handed(a) /\ Descending(a)
  /\ \A a \in Arms : Rejoined(a)

-----------------------------------------------------------------------------
\* The messages of s are some of those of q, in the same order.
Sub(s, q) ==
  \E f \in [1..Len(s) -> 1..Len(q)] :
    /\ \A i \in 1..Len(s) : s[i] = q[f[i]]
    /\ \A i, k \in 1..Len(s) : i < k => f[i] < f[k]

\* Fewer messages bring no new firmware and stay in order.
LEMMA SubKeeps ==
  ASSUME NEW s, NEW q, Sub(s, q)
  PROVE  /\ UpdatesIn(s) \subseteq UpdatesIn(q)
         /\ Sorted(q) => Sorted(s)
<1>1. PICK f \in [1..Len(s) -> 1..Len(q)] :
        /\ \A i \in 1..Len(s) : s[i] = q[f[i]]
        /\ \A i, k \in 1..Len(s) : i < k => f[i] < f[k]
  BY Zenon DEF Sub
<1>3. ASSUME NEW j \in UpdatesIn(s) PROVE j \in UpdatesIn(q)
  <2>1. PICK i \in 1..Len(s) : IsUpdate(s[i]) /\ j = s[i].job
    BY Zenon DEF UpdatesIn
  <2>2. f[i] \in 1..Len(q) /\ IsUpdate(q[f[i]]) /\ j = q[f[i]].job
    BY <1>1, <2>1, Zenon
  <2> QED
    BY <2>2, Zenon DEF UpdatesIn
<1>4. ASSUME Sorted(q) PROVE Sorted(s)
  <2>1. ASSUME NEW i \in 1..Len(s), NEW k \in 1..Len(s), i < k, IsUpdate(s[i]), IsUpdate(s[k])
        PROVE  s[i].job.id <= s[k].job.id
    <3>1. s[i] = q[f[i]] /\ s[k] = q[f[k]] /\ f[i] < f[k] /\ f[i] \in 1..Len(q) /\ f[k] \in 1..Len(q)
      BY <1>1, <2>1, Zenon
    <3>2. IsUpdate(q[f[i]]) /\ IsUpdate(q[f[k]])
      BY <2>1, <3>1, Zenon
    <3>3. q[f[i]].job.id <= q[f[k]].job.id
      BY <1>4, <3>1, <3>2, Zenon DEF Sorted
    <3> QED
      BY <3>1, <3>3, Zenon
  <2> QED
    BY <2>1, Zenon DEF Sorted
<1> QED
  BY <1>3, <1>4

\* What reading and losing leave of a queue.
LEMMA SubIs ==
  ASSUME NEW S, NEW q \in Seq(S)
  PROVE  /\ Sub(q, q)
         /\ Sub(<< >>, q)
         /\ \A n \in 0..Len(q) : Sub(Rest(q, n), q)
         /\ \A i \in 1..Len(q) : Sub(Without(q, i), q)
<1>1. Sub(q, q)
  <2>1. [i \in 1..Len(q) |-> i] \in [1..Len(q) -> 1..Len(q)]
    BY Zenon
  <2> QED
    BY <2>1, Zenon DEF Sub
<1>2. Sub(<< >>, q)
  <2> DEFINE f == [i \in 1..Len(<< >>) |-> i]
  <2>1. f \in [1..Len(<< >>) -> 1..Len(q)]
    OBVIOUS
  <2>2. \A i \in 1..Len(<< >>) : FALSE
    OBVIOUS
  <2> QED
    BY <2>1, <2>2, Zenon DEF Sub
<1>3. ASSUME NEW n \in 0..Len(q) PROVE Sub(Rest(q, n), q)
  <2> DEFINE s == Rest(q, n)
             f == [i \in 1..Len(s) |-> n + i]
  <2>1. Len(s) = Len(q) - n /\ \A i \in 1..(Len(q) - n) : s[i] = q[n + i]
    BY RestIs, Zenon
  <2> HIDE DEF s
  <2>2. f \in [1..Len(s) -> 1..Len(q)]
    BY <2>1
  <2>3. \A i \in 1..Len(s) : s[i] = q[f[i]]
    BY <2>1, Zenon
  <2>4. \A i, k \in 1..Len(s) : i < k => f[i] < f[k]
    OBVIOUS
  <2>5. Sub(s, q)
    BY <2>2, <2>3, <2>4, Zenon DEF Sub
  <2> QED
    BY <2>5, Zenon DEF s
<1>4. ASSUME NEW i \in 1..Len(q) PROVE Sub(Without(q, i), q)
  <2> DEFINE s == Without(q, i)
             f == [k \in 1..Len(s) |-> IF k < i THEN k ELSE k + 1]
  <2>1. /\ Len(s) = Len(q) - 1
        /\ \A k \in 1..(Len(q) - 1) : s[k] = IF k < i THEN q[k] ELSE q[k + 1]
    BY WithoutIs, Zenon
  <2> HIDE DEF s
  <2>2. f \in [1..Len(s) -> 1..Len(q)]
    BY <2>1
  <2>3. \A k \in 1..Len(s) : s[k] = q[f[k]]
    BY <2>1, Zenon
  <2>4. \A k, l \in 1..Len(s) : k < l => f[k] < f[l]
    OBVIOUS
  <2>5. Sub(s, q)
    BY <2>2, <2>3, <2>4, Zenon DEF Sub
  <2> QED
    BY <2>5, Zenon DEF s
<1> QED
  BY <1>1, <1>2, <1>3, <1>4

\* A message at the end of a queue.
LEMMA AppendIs ==
  ASSUME NEW S, NEW q \in Seq(S), NEW m \in S
  PROVE  /\ UpdatesIn(Append(q, m)) \subseteq UpdatesIn(q) \cup (IF IsUpdate(m) THEN {m.job} ELSE {})
         /\ Sorted(q) /\ (IsUpdate(m) => \A j \in UpdatesIn(q) : j.id <= m.job.id)
              => Sorted(Append(q, m))
<1> DEFINE s == Append(q, m)
           n == Len(q)
<1>1. /\ n \in Nat /\ Len(s) = n + 1 /\ s[n + 1] = m
      /\ \A i \in 1..n : s[i] = q[i]
  OBVIOUS
<1> HIDE DEF s, n
<1>2. \A i \in 1..Len(s) : i \in 1..n \/ i = n + 1
  BY <1>1
<1>3. ASSUME NEW j \in UpdatesIn(s) PROVE j \in UpdatesIn(q) \cup (IF IsUpdate(m) THEN {m.job} ELSE {})
  <2>1. PICK i \in 1..Len(s) : IsUpdate(s[i]) /\ j = s[i].job
    BY Zenon DEF UpdatesIn
  <2>2. CASE i \in 1..n
    <3>1. IsUpdate(q[i]) /\ j = q[i].job
      BY <1>1, <2>1, <2>2, Zenon
    <3> QED
      BY <2>2, <3>1, Zenon DEF UpdatesIn, n
  <2>3. CASE i = n + 1
    BY <1>1, <2>1, <2>3, Zenon
  <2> QED
    BY <1>2, <2>2, <2>3, Zenon
<1>4. ASSUME Sorted(q), IsUpdate(m) => \A j \in UpdatesIn(q) : j.id <= m.job.id
      PROVE  Sorted(s)
  <2>1. ASSUME NEW i \in 1..Len(s), NEW k \in 1..Len(s), i < k, IsUpdate(s[i]), IsUpdate(s[k])
        PROVE  s[i].job.id <= s[k].job.id
    <3>1. i \in 1..n /\ s[i] = q[i] /\ IsUpdate(q[i])
      BY <1>1, <2>1
    <3>2. CASE k \in 1..n
      <4>1. s[k] = q[k] /\ IsUpdate(q[k])
        BY <1>1, <2>1, <3>2, Zenon
      <4>2. q[i].job.id <= q[k].job.id
        BY <1>4, <2>1, <3>1, <3>2, <4>1, Zenon DEF Sorted, n
      <4> QED
        BY <3>1, <4>1, <4>2, Zenon
    <3>3. CASE k = n + 1
      <4>1. s[k] = m /\ IsUpdate(m)
        BY <1>1, <2>1, <3>3, Zenon
      <4>2. q[i].job \in UpdatesIn(q)
        BY <3>1, Zenon DEF UpdatesIn, n
      <4>3. q[i].job.id <= m.job.id
        BY <1>4, <4>1, <4>2, Zenon
      <4> QED
        BY <3>1, <4>1, <4>3, Zenon
    <3> QED
      BY <1>2, <3>2, <3>3, Zenon
  <2> QED
    BY <2>1, Zenon DEF Sorted
<1> QED
  BY <1>3, <1>4, Zenon DEF s

\* Messages at the end of a queue.
LEMMA ToldConcat ==
  ASSUME NEW U, NEW q \in Seq(U), NEW msgs \in Seq(U), Told(q \o msgs)
  PROVE  Told(q) \/ Told(msgs)
<1>1. PICK i \in 1..Len(q \o msgs) : (q \o msgs)[i] = BootloaderAck("COMPLETED")
  BY Zenon DEF Told
<1>3. \/ i \in 1..Len(q) /\ q[i] = BootloaderAck("COMPLETED")
      \/ i - Len(q) \in 1..Len(msgs) /\ msgs[i - Len(q)] = BootloaderAck("COMPLETED")
  <2> QED
    BY <1>1
<1> QED
  BY <1>3, Zenon DEF Told

\* An arm hears of a completion only from the arm behind it.
LEMMA ToldReply ==
  ASSUME NEW U, rx_cw \in [Arms -> Seq(U)], NEW a \in Arms, NEW n \in 0..Len(rx_cw[a]),
         NEW msgs \in Seq(U), TakeAndReply(a, n, msgs), NEW b \in Arms, Told(rx_cw'[b])
  PROVE  Told(rx_cw[b]) \/ (b = a - 1 /\ Told(msgs))
<1>1. rx_cw'[b] = IF b = a THEN Rest(rx_cw[b], n)
                  ELSE IF b = a - 1 THEN rx_cw[b] \o msgs ELSE rx_cw[b]
  <2>1. a # a - 1
    BY ArmsAre
  <2> QED
    BY <2>1, Zenon DEF TakeAndReply
<1>3. CASE b = a
  <2>1. rx_cw'[b] = Rest(rx_cw[a], n)
    BY <1>1, <1>3, Zenon
  <2>2. PICK i \in 1..Len(Rest(rx_cw[a], n)) : Rest(rx_cw[a], n)[i] = BootloaderAck("COMPLETED")
    BY <2>1 DEF Told
  <2>3. n + i \in 1..Len(rx_cw[a]) /\ rx_cw[a][n + i] = BootloaderAck("COMPLETED")
    <3>1. /\ Len(Rest(rx_cw[a], n)) = Len(rx_cw[a]) - n
          /\ \A k \in 1..(Len(rx_cw[a]) - n) : Rest(rx_cw[a], n)[k] = rx_cw[a][n + k]
      BY <1>3, RestIs
    <3> QED
      BY <2>2, <3>1
  <2> QED
    BY <1>3, <2>3, Zenon DEF Told
<1>4. CASE b # a /\ b = a - 1
  <2>1. rx_cw'[b] = rx_cw[b] \o msgs
    BY <1>1, <1>4, Zenon
  <2> QED
    BY <1>4, <2>1, ToldConcat
<1>5. CASE b # a /\ b # a - 1
  BY <1>1, <1>5
<1> QED
  BY <1>3, <1>4, <1>5

\* No firmware is at work in another job.
LEMMA AtWorkIs ==
  ASSUME NEW a
  PROVE  /\ job[a] = NoMsg \/ job[a].kind # "firmware" => AtWork(a) = {}
         /\ job[a] # NoMsg /\ job[a].kind = "firmware" => AtWork(a) = {job[a]}
BY Zenon DEF AtWork

\* What is pending at an arm was issued.
LEMMA PendingIs ==
  ASSUME NEW H, Inv(H), NEW a \in Arms
  PROVE  /\ AtWork(a) \subseteq H /\ OnTheWay(a) \subseteq H /\ Pending(a) \subseteq H
         /\ \A j \in Pending(a) : j.id \in 1..jobs
<1>1. Issued(H) /\ job \in [Arms -> H \cup {NoMsg}] /\ rx_ccw \in [Arms -> Seq(Commands(H) \cup Updates(H))]
  BY Zenon DEF Inv, Content
<1>2. AtWork(a) \subseteq H
  BY <1>1 DEF AtWork
<1>3. OnTheWay(a) \subseteq H
  <2>1. ASSUME NEW j \in OnTheWay(a) PROVE j \in H
    <3>1. PICK i \in 1..Len(rx_ccw[a]) : j = rx_ccw[a][i].job
      BY DEF OnTheWay, UpdatesIn
    <3>2. rx_ccw[a] \in Seq(Commands(H) \cup Updates(H))
      BY <1>1
    <3>3. rx_ccw[a][i] \in Commands(H) \cup Updates(H)
      BY <3>2
    <3>4. \A m \in Commands(H) \cup Updates(H) : m.job \in H
      BY Zenon DEF Commands, Updates
    <3> QED
      BY <3>1, <3>3, <3>4, Zenon
  <2> QED
    BY <2>1
<1>4. Pending(a) \subseteq H
  BY <1>2, <1>3, Zenon DEF Pending
<1> QED
  BY <1>1, <1>2, <1>3, <1>4, JobIs, Zenon

\* The order stays when no firmware comes to an arm.
LEMMA OrderedShrinks ==
  ASSUME Ordered,
         ~undone' => ~undone /\ installed' = installed,
         \A b \in Arms : /\ Sorted(rx_ccw[b])' /\ InTurn(b)'
                         /\ Pending(b)' \subseteq Pending(b)
                         /\ OnTheWay(b)' \subseteq OnTheWay(b)
  PROVE  Ordered'
<1>0. 0 \in Arms
  BY ArmsAre, Zenon
<1>1. OnTheWay(0)' = {}
  BY <1>0, Zenon DEF Ordered
<1> QED
  BY <1>1, Zenon DEF Ordered

\* What a step may do at arm b while the arm runs a firmware.
Steady(b) ==
  /\ b # Last /\ pc'[b] = "wait_completed" =>
       \/ /\ pc[b] = "wait_completed" /\ job'[b] = job[b]
          /\ Pending(b + 1)' \subseteq Pending(b + 1)
          /\ OnTheWay(b + 1)' \subseteq OnTheWay(b + 1)
       \/ Same(b)' /\ ~Told(rx_cw'[b])
  /\ b # Last /\ pc'[b] = "install" =>
       /\ job'[b] = job[b]
       /\ pc[b] = "install" \/ (pc[b] = "wait_completed" /\ Told(rx_cw[b]))
  /\ pc'[b] = "rejoin" => pc[b] = "rejoin" /\ job'[b] = job[b]
  /\ pc[b] = "failed" /\ pc'[b] # "failed" => AtWork(b)' = {}
  /\ b # Last /\ Told(rx_cw'[b]) => Told(rx_cw[b]) \/ pc[b + 1] = "rejoin"

\* The order of the arms stays when each of them is steady.
LEMMA SteadyStep ==
  ASSUME NEW H, Inv(H), InOrder, Ordered', \A b \in Arms : Steady(b),
         ~undone' => ~undone /\ installed' = installed
  PROVE  InOrder'
<1>1. (\A b \in Arms \ {Last} : Handed(b) /\ Descending(b)) /\ \A b \in Arms : Rejoined(b)
  BY Zenon DEF InOrder
<1>2. ASSUME NEW b \in Arms \ {Last} PROVE Handed(b)' /\ Descending(b)'
  <2>0. b \in Arms /\ b + 1 \in Arms /\ b # Last
    BY ArmsAre, Zenon
  <2>1. Descending(b)'
    BY <1>1, Zenon DEF Descending
  <2>2. ASSUME pc[b] = "wait_completed" PROVE Same(b)
    BY <1>1, <2>2, Zenon DEF Handed
  <2>3. ASSUME pc'[b] = "wait_completed" PROVE Same(b)'
    <3>1. CASE /\ pc[b] = "wait_completed" /\ job'[b] = job[b]
               /\ Pending(b + 1)' \subseteq Pending(b + 1)
               /\ OnTheWay(b + 1)' \subseteq OnTheWay(b + 1)
      <4>1. OnTheWay(b + 1) = {} /\ (pc[b + 1] # "failed" => \A j \in AtWork(b + 1) : j.id = job[b].id)
        BY <2>2, <3>1, Zenon DEF Same
      <4>2. AtWork(b + 1)' \subseteq AtWork(b + 1)
        BY <3>1, <4>1, Zenon DEF Pending
      <4>3. OnTheWay(b + 1)' = {}
        BY <3>1, <4>1, Zenon
      <4>4. ASSUME pc'[b + 1] # "failed", NEW j \in AtWork(b + 1)' PROVE j.id = job[b].id
        <5>1. pc[b + 1] # "failed"
          BY <2>0, <4>4, Zenon DEF Steady
        <5> QED
          BY <4>1, <4>2, <4>4, <5>1, Zenon
      <4> QED
        BY <3>1, <4>3, <4>4, Zenon DEF Same
    <3> QED
      BY <2>3, <3>1, Zenon DEF Steady
  <2>4. ASSUME ~undone', pc'[b] = "wait_completed", Told(rx_cw'[b])
        PROVE  job'[b].id <= installed'[b + 1]
    <3>1. pc[b] = "wait_completed" /\ job'[b] = job[b] /\ ~undone /\ installed' = installed
      BY <2>4, Zenon DEF Steady
    <3>2. CASE Told(rx_cw[b])
      BY <1>1, <3>1, <3>2, Zenon DEF Handed
    <3>3. CASE pc[b + 1] = "rejoin"
      <4>1. installed[b + 1] = job[b + 1].id
        BY <1>1, <2>0, <3>1, <3>3, Zenon DEF Rejoined
      <4>2. job[b + 1] # NoMsg /\ job[b + 1].kind = "firmware" /\ job[b + 1] \in H
        <5>1. Fits(pc[b + 1], job[b + 1].kind) /\ job[b + 1] # NoMsg /\ job[b + 1] \in H
          BY <2>0, <3>3, HandlerIs, Zenon
        <5> QED
          BY <3>3, <5>1, Zenon DEF Fits
      <4>3. job[b + 1].id = job[b].id
        BY <2>2, <3>1, <3>3, <4>2 DEF Same, AtWork
      <4>4. job[b + 1].id \in 1..jobs /\ jobs \in Nat
        BY <4>2, JobIs DEF Inv, Issued
      <4> QED
        BY <3>1, <4>1, <4>3, <4>4
    <3> QED
      BY <2>4, <3>2, <3>3 DEF Steady
  <2>5. ASSUME ~undone', pc'[b] = "install" PROVE job'[b].id <= installed'[b + 1]
    BY <1>1, <2>5, Zenon DEF Handed, Steady
  <2> QED
    BY <2>1, <2>3, <2>4, <2>5, Zenon DEF Handed
<1>3. ASSUME NEW b \in Arms PROVE Rejoined(b)'
  BY <1>1, Zenon DEF Rejoined, Steady
<1> QED
  BY <1>2, <1>3, Zenon DEF InOrder

\* A step of arm a that brings no firmware forward.
Calm(a) ==
  /\ \A b \in Arms : Sub(rx_ccw'[b], rx_ccw[b])
  /\ \A b \in Arms \ {a} : pc'[b] = pc[b] /\ job'[b] = job[b]
  /\ \A b \in Arms \ {Last} : Told(rx_cw'[b]) => Told(rx_cw[b]) \/ pc[b + 1] = "rejoin"
  /\ ~undone' => ~undone /\ installed' = installed
  /\ \/ /\ job'[a] = job[a]
        /\ pc[a] = "failed" => pc'[a] = "failed"
        /\ pc'[a] \in {"wait_completed", "rejoin"} => pc'[a] = pc[a]
        /\ pc'[a] = "install" => pc[a] = "install" \/ (pc[a] = "wait_completed" /\ Told(rx_cw[a]))
     \/ AtWork(a)' = {} /\ pc'[a] \notin {"wait_completed", "install", "rejoin"}

\* A step that only takes work away from its arm.
LEMMA CalmStep ==
  ASSUME NEW H, Inv(H), InOrder, NEW a \in Arms, Calm(a)
  PROVE  InOrder'
<1>1. /\ \A b \in Arms : Sub(rx_ccw'[b], rx_ccw[b])
      /\ \A b \in Arms \ {a} : pc'[b] = pc[b] /\ job'[b] = job[b]
      /\ \A b \in Arms \ {Last} : Told(rx_cw'[b]) => Told(rx_cw[b]) \/ pc[b + 1] = "rejoin"
      /\ ~undone' => ~undone /\ installed' = installed
  BY Zenon DEF Calm
<1>2. \/ /\ job'[a] = job[a]
         /\ pc[a] = "failed" => pc'[a] = "failed"
         /\ pc'[a] \in {"wait_completed", "rejoin"} => pc'[a] = pc[a]
         /\ pc'[a] = "install" => pc[a] = "install" \/ (pc[a] = "wait_completed" /\ Told(rx_cw[a]))
      \/ AtWork(a)' = {} /\ pc'[a] \notin {"wait_completed", "install", "rejoin"}
  BY Zenon DEF Calm
<1>3. \A b \in Arms : OnTheWay(b)' \subseteq OnTheWay(b) /\ (Sorted(rx_ccw[b]) => Sorted(rx_ccw[b])')
  BY <1>1, SubKeeps, Zenon DEF OnTheWay
<1>4. \A b \in Arms : AtWork(b)' \subseteq AtWork(b)
  BY <1>1, <1>2, Zenon DEF AtWork
<1>5. \A b \in Arms : Pending(b)' \subseteq Pending(b)
  BY <1>3, <1>4, Zenon DEF Pending
<1>6. Ordered'
  <2>1. Ordered
    BY Zenon DEF InOrder
  <2>2. \A b \in Arms : Sorted(rx_ccw[b])' /\ InTurn(b)'
    BY <1>3, <1>4, <2>1 DEF Ordered, InTurn
  <2> QED
    BY <1>1, <1>3, <1>5, <2>1, <2>2, OrderedShrinks, Zenon
<1>7. ASSUME NEW b \in Arms PROVE Steady(b)
  <2>1. b # Last => b + 1 \in Arms /\ b \in Arms \ {Last}
    BY ArmsAre, Zenon
  <2>2. b # Last => /\ Pending(b + 1)' \subseteq Pending(b + 1)
                    /\ OnTheWay(b + 1)' \subseteq OnTheWay(b + 1)
    BY <1>3, <1>5, <2>1, Zenon
  <2>3. CASE b = a
    BY <1>1, <1>2, <2>2, <2>3, Zenon DEF Steady
  <2>4. CASE b # a
    BY <1>1, <2>2, <2>4, Zenon DEF Steady
  <2> QED
    BY <2>3, <2>4, Zenon
<1> QED
  BY <1>1, <1>6, <1>7, SteadyStep, Zenon

-----------------------------------------------------------------------------
\* The one message that tells of a completion.
LEMMA NotTold ==
  /\ \A m : Told(<<m>>) => m = BootloaderAck("COMPLETED")
  /\ ~Told(<< >>)
  /\ \A seq, node, result : RingAck(seq, node, result) # BootloaderAck("COMPLETED")
  /\ \A seq : RingError(seq) # BootloaderAck("COMPLETED")
  /\ \A j : Refusal(j) # BootloaderAck("COMPLETED")
  /\ BootloaderAck("ACCEPTED") # BootloaderAck("COMPLETED")
<1>1. BootloaderAck("COMPLETED").type = "BOOTLOADER_ACK" /\ BootloaderAck("COMPLETED").result = "COMPLETED"
  BY Zenon DEF BootloaderAck
<1>2. ASSUME NEW m, Told(<<m>>) PROVE m = BootloaderAck("COMPLETED")
  <2>1. PICK i \in 1..Len(<<m>>) : <<m>>[i] = BootloaderAck("COMPLETED")
    BY <1>2, Zenon DEF Told
  <2> HIDE DEF BootloaderAck
  <2> QED
    BY <2>1
<1>3. ~Told(<< >>)
  BY DEF Told
<1>4. ASSUME NEW seq, NEW node, NEW result PROVE RingAck(seq, node, result) # BootloaderAck("COMPLETED")
  <2>1. RingAck(seq, node, result).type = "RING_ACK"
    BY Zenon DEF RingAck
  <2> QED
    BY <1>1, <2>1, Zenon
<1>5. ASSUME NEW seq PROVE RingError(seq) # BootloaderAck("COMPLETED")
  <2>1. RingError(seq).type = "RING_ERROR"
    BY Zenon DEF RingError
  <2> QED
    BY <1>1, <2>1
<1>6. \A r \in {"ACCEPTED", "ERROR"} : BootloaderAck(r) # BootloaderAck("COMPLETED")
  <2>1. \A r : BootloaderAck(r).result = r
    BY Zenon DEF BootloaderAck
  <2> QED
    BY <1>1, <2>1, Zenon
<1>7. ASSUME NEW j PROVE Refusal(j) # BootloaderAck("COMPLETED")
  BY <1>5, <1>6 DEF Refusal
<1> QED
  BY <1>2, <1>3, <1>4, <1>5, <1>6, <1>7, Zenon

\* The links of a step that reads no command.
LEMMA SameLinks ==
  ASSUME NEW H, Inv(H), rx_ccw' = rx_ccw
  PROVE  \A b \in Arms : Sub(rx_ccw'[b], rx_ccw[b])
<1>1. ASSUME NEW b \in Arms PROVE Sub(rx_ccw[b], rx_ccw[b])
  <2>1. rx_ccw[b] \in Seq(Commands(H) \cup Updates(H))
    BY Zenon DEF Inv, Content
  <2> QED
    BY <2>1, SubIs
<1> QED
  BY <1>1, Zenon

\* A message to the arm in front, unless it is about a completion.
LEMMA Untold ==
  ASSUME NEW H, Inv(H), NEW a \in Arms, NEW n \in 0..Len(rx_cw[a]), NEW msgs \in Seq(Results(H)),
         TakeAndReply(a, n, msgs), ~Told(msgs)
  PROVE  \A b \in Arms \ {Last} : Told(rx_cw'[b]) => Told(rx_cw[b])
<1>1. rx_cw \in [Arms -> Seq(Results(H))]
  BY Zenon DEF Inv, Content
<1> QED
  BY <1>1, ToldReply

\* An arm that leaves its handler.
LEMMA LeaveCalm ==
  ASSUME Control, NEW H, job \in [Arms -> H], NEW a \in Arms, NEW cmd, NEW current, Leave(a, cmd, current)
  PROVE  /\ \A b \in Arms \ {a} : pc'[b] = pc[b] /\ job'[b] = job[b]
         /\ AtWork(a)' = {} /\ pc'[a] \in {"display", "command"}
<1>1. pc \in [Arms -> Places]
  BY DEF Control
<1>2. job' = [job EXCEPT ![a] = NoMsg]
  BY Zenon DEF Leave
<1>3. PICK p \in {"display", "command"} : pc' = [pc EXCEPT ![a] = p]
  BY Zenon DEF Leave
<1>4. /\ job'[a] = NoMsg /\ \A b \in Arms \ {a} : job'[b] = job[b]
      /\ pc'[a] = p /\ \A b \in Arms \ {a} : pc'[b] = pc[b]
  BY <1>1, <1>2, <1>3, Zenon
<1>5. AtWork(a)' = {}
  BY <1>4, Zenon DEF AtWork
<1> QED
  BY <1>4, <1>5, Zenon

\* An arm whose job fails: its snapshot and all others are put back (undone), or
\* there is none.
LEMMA FailCalm ==
  ASSUME NEW H, Inv(H), NEW a \in Arms, job[a] # NoMsg, NEW n \in 0..Len(rx_cw[a]), Fail(a, n),
         rx_ccw' = rx_ccw
  PROVE  Calm(a)
<1>1. Control /\ Issued(H) /\ job \in [Arms -> H \cup {NoMsg}]
  BY Zenon DEF Inv, Content
<1>2. \A b \in Arms : Sub(rx_ccw'[b], rx_ccw[b])
  BY SameLinks, Zenon
<1>3. /\ \A b \in Arms \ {a} : pc'[b] = pc[b] /\ job'[b] = job[b]
      /\ AtWork(a)' = {} /\ pc'[a] \in {"display", "command"}
  BY <1>1, LeaveCalm, Zenon DEF Fail
<1>4. \A b \in Arms \ {Last} : Told(rx_cw'[b]) => Told(rx_cw[b])
  <2>2. Refusal(job[a]) \in Results(H)
    BY <1>1, MessagesAre, Zenon
  <2>3. <<Refusal(job[a])>> \in Seq(Results(H))
    BY <2>2
  <2>4. ~Told(<<Refusal(job[a])>>)
    BY NotTold
  <2>5. TakeAndReply(a, n, <<Refusal(job[a])>>)
    BY Zenon DEF Fail
  <2> QED
    BY <2>3, <2>4, <2>5, Untold, Zenon
<1>5. ~undone' => ~undone /\ installed' = installed
  BY Zenon DEF Fail, Finish, firmware
<1> QED
  BY <1>2, <1>3, <1>4, <1>5, Zenon DEF Calm

\* An arm whose job is done.
LEMMA CommitCalm ==
  ASSUME NEW H, Inv(H), NEW a \in Arms, job[a] # NoMsg, NEW n \in 0..Len(rx_cw[a]), Commit(a, n),
         rx_ccw' = rx_ccw
  PROVE  Calm(a)
<1>1. Control /\ Issued(H) /\ job \in [Arms -> H \cup {NoMsg}] /\ pc \in [Arms -> Places]
  BY Zenon DEF Inv, Content, Control
<1>2. \A b \in Arms : Sub(rx_ccw'[b], rx_ccw[b])
  BY SameLinks, Zenon
<1>3. UNCHANGED firmware
  BY Zenon DEF Commit, Execute, Reload, stored
<1>4. ~undone' => ~undone /\ installed' = installed
  BY <1>3 DEF firmware
<1>5. /\ \A b \in Arms \ {a} : pc'[b] = pc[b] /\ job'[b] = job[b]
      /\ AtWork(a)' = {} /\ pc'[a] \in {"display", "command", "dark"}
  <2>1. CASE \E cmd, current : Leave(a, cmd, current)
    <3>1. PICK cmd, current : Leave(a, cmd, current)
      BY <2>1, Zenon
    <3> QED
      BY <1>1, <3>1, LeaveCalm, Zenon
  <2>2. CASE \E p \in {"display", "dark"} : /\ pc' = [pc EXCEPT ![a] = p]
                                            /\ job' = [job EXCEPT ![a] = NoMsg]
    <3>1. PICK p \in {"display", "dark"} : /\ pc' = [pc EXCEPT ![a] = p]
                                           /\ job' = [job EXCEPT ![a] = NoMsg]
      BY <2>2, Zenon
    <3>2. /\ job'[a] = NoMsg /\ \A b \in Arms \ {a} : job'[b] = job[b]
          /\ pc'[a] = p /\ \A b \in Arms \ {a} : pc'[b] = pc[b]
      BY <1>1, <3>1, Zenon
    <3>3. AtWork(a)' = {}
      BY <3>2, Zenon DEF AtWork
    <3> QED
      BY <3>2, <3>3, Zenon
  <2> QED
    BY <2>1, <2>2, Zenon DEF Commit, Execute, Reload
<1>6. \A b \in Arms \ {Last} : Told(rx_cw'[b]) => Told(rx_cw[b])
  <2>1. PICK m \in {RingAck(job[a].seq, Last, "OK"), RingError(job[a].seq)} : TakeAndReply(a, n, <<m>>)
    BY Zenon DEF Commit, Execute, Reload
  <2>3. ~Told(<<m>>)
    BY NotTold, Zenon
  <2>4. \A b \in Arms : Told(rx_cw'[b]) => Told(rx_cw[b]) \/ (b = a - 1 /\ Told(<<m>>))
    <3> DEFINE U == Results(H) \cup {m}
    <3>1. rx_cw \in [Arms -> Seq(Results(H))]
      BY DEF Inv, Content
    <3>2. <<m>> \in Seq(U)
      OBVIOUS
    <3> HIDE DEF U
    <3>3. \A q \in Seq(Results(H)) : q \in Seq(U)
      <4>1. Results(H) \subseteq U
        BY Zenon DEF U
      <4> HIDE DEF Results
      <4> QED
        BY <4>1
    <3>4. rx_cw \in [Arms -> Seq(U)]
      BY <3>1, <3>3
    <3> QED
      BY <2>1, <3>2, <3>4, ToldReply, Zenon
  <2> QED
    BY <2>3, <2>4, Zenon
<1> QED
  BY <1>2, <1>4, <1>5, <1>6, Zenon DEF Calm

\* An arm that stays in its job, or is in none.
LEMMA CalmMove ==
  ASSUME NEW H, Inv(H), NEW a \in Arms, NEW p, pc' = [pc EXCEPT ![a] = p], job' = job,
         UNCHANGED firmware,
         \A b \in Arms : Sub(rx_ccw'[b], rx_ccw[b]),
         \A b \in Arms \ {Last} : Told(rx_cw'[b]) => Told(rx_cw[b]),
         p \in {"wait_completed", "rejoin"} => p = pc[a],
         pc[a] = "failed" => p = "failed",
         p = "install" => pc[a] = "install" \/ (pc[a] = "wait_completed" /\ Told(rx_cw[a]))
  PROVE  Calm(a)
<1>1. pc \in [Arms -> Places]
  BY Zenon DEF Inv, Control
<1>2. pc'[a] = p /\ \A b \in Arms \ {a} : pc'[b] = pc[b]
  BY <1>1, Zenon
<1>3. ~undone' => ~undone /\ installed' = installed
  BY Zenon DEF firmware
<1> QED
  BY <1>2, <1>3, Zenon DEF Calm

\* A step that leaves links, handlers and firmware alone.
LEMMA FrameCalm ==
  ASSUME NEW H, Inv(H), NEW a \in Arms,
         UNCHANGED <<links, pc, job, firmware>>
  PROVE  Calm(a)
<1>1. rx_ccw' = rx_ccw /\ rx_cw' = rx_cw
  BY Zenon DEF links
<1>2. \A b \in Arms : Sub(rx_ccw'[b], rx_ccw[b])
  BY <1>1, SameLinks, Zenon
<1>3. pc' = [pc EXCEPT ![a] = pc[a]]
  <2>1. pc \in [Arms -> Places]
    BY Zenon DEF Inv, Control
  <2> QED
    BY <2>1, Zenon
<1> QED
  BY <1>1, <1>2, <1>3, CalmMove, Zenon

\* An arm that takes a command from its slot.
LEMMA CommandCalm ==
  ASSUME NEW H, Inv(H), NEW a \in Arms, Command(a)
  PROVE  Calm(a)
<1>1. /\ Issued(H) /\ Control /\ pc \in [Arms -> Places] /\ job \in [Arms -> H \cup {NoMsg}]
      /\ ring_cmd \in [Arms -> Commands(H) \cup {NoMsg}]
  BY Zenon DEF Inv, Content, Control
<1> DEFINE j == ring_cmd[a].job
<1>2. PICK p \in {"rz", "commit", "forward"} :
        /\ pc[a] = "command" /\ rx_ccw' = rx_ccw /\ UNCHANGED stored
        /\ job' = [job EXCEPT ![a] = j]
        /\ pc' = [pc EXCEPT ![a] = p]
        /\ (rx_cw' = rx_cw \/ TakeAndReply(a, 0, <<RingAck(j.seq, a, "READY")>>))
  BY Zenon DEF Command
<1>3. j.kind # "firmware"
  <2>1. Local(a, pc[a], job[a], ring_cmd[a])
    BY <1>1, Zenon DEF Control
  <2>2. ring_cmd[a] \in Commands(H)
    BY <1>1, <1>2, <2>1, Zenon DEF Local
  <2> QED
    BY <2>2, Zenon DEF Commands
<1> HIDE DEF j
<1>4. /\ job'[a] = j /\ \A b \in Arms \ {a} : job'[b] = job[b]
      /\ pc'[a] = p /\ \A b \in Arms \ {a} : pc'[b] = pc[b]
  BY <1>1, <1>2, Zenon
<1>5. AtWork(a)' = {}
  BY <1>3, <1>4, Zenon DEF AtWork
<1>6. ASSUME NEW b \in Arms, Told(rx_cw'[b]) PROVE Told(rx_cw[b])
  <2>1. CASE rx_cw' = rx_cw
    BY <1>6, <2>1, Zenon
  <2>2. CASE TakeAndReply(a, 0, <<RingAck(j.seq, a, "READY")>>)
    <3> DEFINE m == RingAck(j.seq, a, "READY")
               U == Results(H) \cup {m}
    <3>1. ~Told(<<m>>)
      BY NotTold
    <3> HIDE DEF m
    <3>2. <<m>> \in Seq(U)
      OBVIOUS
    <3>3. rx_cw \in [Arms -> Seq(U)]
      <4>1. rx_cw \in [Arms -> Seq(Results(H))]
        BY Zenon DEF Inv, Content
      <4>2. \A q \in Seq(Results(H)) : q \in Seq(U)
        <5>1. Results(H) \subseteq U
          BY Zenon
        <5> HIDE DEF U
        <5> QED
          BY <5>1
      <4> QED
        BY <4>1, <4>2, Zenon
    <3>4. 0 \in 0..Len(rx_cw[a])
      <4> QED
        OBVIOUS
    <3> HIDE DEF U
    <3> QED
      BY <1>6, <2>2, <3>1, <3>2, <3>3, <3>4, ToldReply, Zenon DEF m
  <2> QED
    BY <1>2, <2>1, <2>2, Zenon
<1>7. ~undone' => ~undone /\ installed' = installed
  BY <1>2, Zenon DEF stored, firmware
<1>8. \A b \in Arms : Sub(rx_ccw'[b], rx_ccw[b])
  BY <1>2, SameLinks, Zenon
<1> QED
  BY <1>4, <1>5, <1>6, <1>7, <1>8, Zenon DEF Calm

\* An arm that waits for READY or OK.
LEMMA WaitLinkAckCalm ==
  ASSUME NEW H, Inv(H), NEW a \in Arms, WaitLinkAck(a)
  PROVE  Calm(a)
<1>1. PICK n \in 0..Len(rx_cw[a]), p \in {pc[a], "sz"} :
        /\ pc[a] \in {"wait_ready", "wait_ok"} /\ rx_ccw' = rx_ccw
        /\ \/ TakeAndReply(a, n, << >>) /\ pc' = [pc EXCEPT ![a] = p] /\ UNCHANGED <<job, stored>>
           \/ Fail(a, n)
           \/ Commit(a, n)
  <2>1. pc = [pc EXCEPT ![a] = pc[a]]
    <3>1. pc \in [Arms -> Places]
      BY Zenon DEF Inv, Control
    <3> QED
      BY <3>1, Zenon
  <2> QED
    BY <2>1 DEF WaitLinkAck
<1>2. job[a] # NoMsg
  BY <1>1, HandlerIs, Zenon
<1>3. CASE TakeAndReply(a, n, << >>) /\ pc' = [pc EXCEPT ![a] = p] /\ UNCHANGED <<job, stored>>
  <2>1. << >> \in Seq(Results(H)) /\ ~Told(<< >>)
    BY NotTold
  <2>2. \A b \in Arms \ {Last} : Told(rx_cw'[b]) => Told(rx_cw[b])
    BY <1>3, <2>1, Untold, Zenon
  <2>3. \A b \in Arms : Sub(rx_ccw'[b], rx_ccw[b])
    BY <1>1, SameLinks, Zenon
  <2>4. UNCHANGED firmware
    BY <1>3, Zenon DEF stored
  <2>5. p \notin {"wait_completed", "rejoin", "install"} /\ pc[a] # "failed"
    BY <1>1, Zenon
  <2> QED
    BY <1>3, <2>2, <2>3, <2>4, <2>5, CalmMove, Zenon
<1>4. CASE Fail(a, n)
  BY <1>1, <1>2, <1>4, FailCalm, Zenon
<1>5. CASE Commit(a, n)
  BY <1>1, <1>2, <1>5, CommitCalm
<1> QED
  BY <1>1, <1>3, <1>4, <1>5, Zenon

\* An arm goes on to install only when it was told that the arm behind it has
\* completed.
LEMMA WaitBootloaderAckCalm ==
  ASSUME NEW H, Inv(H), NEW a \in Arms, WaitBootloaderAck(a)
  PROVE  Calm(a)
<1>1. pc[a] \in {"wait_accepted", "wait_completed"} /\ rx_ccw' = rx_ccw
  BY Zenon DEF WaitBootloaderAck
<1>2. PICK n \in 1..Len(rx_cw[a]) :
        LET m == Batch(rx_cw[a], n)[n]
            expected == IF pc[a] = "wait_accepted" THEN "ACCEPTED" ELSE "COMPLETED"
        IN
        \/ Fail(a, n)
        \/ /\ m.type = "BOOTLOADER_ACK" => m.result = expected
           /\ TakeAndReply(a, n, << >>)
           /\ pc' = [pc EXCEPT ![a] = IF m.type # "BOOTLOADER_ACK" THEN pc[a]
                                      ELSE IF pc[a] = "wait_accepted" THEN "sz"
                                      ELSE "install"]
           /\ UNCHANGED <<job, stored>>
  BY DEF WaitBootloaderAck
<1> DEFINE m == rx_cw[a][n]
           p == IF m.type # "BOOTLOADER_ACK" THEN pc[a]
                ELSE IF pc[a] = "wait_accepted" THEN "sz"
                ELSE "install"
<1>3. rx_cw[a] \in Seq(Results(H)) /\ n \in 0..Len(rx_cw[a]) /\ n \in 1..n
  <2>1. rx_cw[a] \in Seq(Results(H))
    BY Zenon DEF Inv, Content
  <2> QED
    BY <2>1
<1>4. Batch(rx_cw[a], n)[n] = m
  BY <1>3, BatchIs, Zenon
<1>5. job[a] # NoMsg
  BY <1>1, HandlerIs, Zenon
<1>6. CASE Fail(a, n)
  BY <1>1, <1>3, <1>5, <1>6, FailCalm, Zenon
<1>7. CASE /\ m.type = "BOOTLOADER_ACK" => m.result = IF pc[a] = "wait_accepted" THEN "ACCEPTED" ELSE "COMPLETED"
           /\ TakeAndReply(a, n, << >>)
           /\ pc' = [pc EXCEPT ![a] = p]
           /\ UNCHANGED <<job, stored>>
  <2>1. << >> \in Seq(Results(H)) /\ ~Told(<< >>)
    BY NotTold
  <2>2. \A b \in Arms \ {Last} : Told(rx_cw'[b]) => Told(rx_cw[b])
    BY <1>3, <1>7, <2>1, Untold, Zenon
  <2>3. \A b \in Arms : Sub(rx_ccw'[b], rx_ccw[b])
    BY <1>1, SameLinks, Zenon
  <2>4. UNCHANGED firmware
    BY <1>7 DEF stored
  <2>5. p \in {"wait_completed", "rejoin"} => p = pc[a]
    BY Zenon
  <2>6. pc[a] # "failed"
    BY <1>1
  <2>7. ASSUME p = "install" PROVE pc[a] = "wait_completed" /\ Told(rx_cw[a])
    <3>1. m.type = "BOOTLOADER_ACK" /\ pc[a] = "wait_completed"
      BY <1>1, <2>7, Zenon
    <3>2. m.result = "COMPLETED"
      BY <1>7, <3>1, Zenon
    <3>3. m \in BootloaderAcks
      <4>1. m \in Results(H)
        BY <1>3
      <4> QED
        BY <3>1, <4>1, TypesAre, Zenon
    <3>4. m = BootloaderAck("COMPLETED")
      BY <3>2, <3>3, Zenon DEF BootloaderAcks, BootloaderAck
    <3> QED
      BY <3>1, <3>4, Zenon DEF Told
  <2> HIDE DEF p
  <2> QED
    BY <1>7, <2>2, <2>3, <2>4, <2>5, <2>6, <2>7, CalmMove, Zenon
<1> QED
  BY <1>2, <1>4, <1>6, <1>7, Zenon

\* The sender and the receiver whose time is up.
LEMMA ClearedCalm ==
  ASSUME NEW H, Inv(H), NEW a \in Arms, SendTimeout(a) \/ ReceiveTimeout(a)
  PROVE  Calm(a)
<1>1. /\ pc' = [pc EXCEPT ![a] = "failed"] /\ job' = job /\ UNCHANGED stored
      /\ \/ rx_cw' = [rx_cw EXCEPT ![a] = << >>] /\ rx_ccw' = rx_ccw
         \/ rx_cw' = rx_cw /\ rx_ccw' = [rx_ccw EXCEPT ![a] = << >>]
  BY Zenon DEF SendTimeout, ReceiveTimeout
<1>2. /\ rx_cw \in [Arms -> Seq(Results(H))]
      /\ rx_ccw \in [Arms -> Seq(Commands(H) \cup Updates(H))]
  BY Zenon DEF Inv, Content
<1>3. ASSUME NEW b \in Arms PROVE Sub(rx_ccw'[b], rx_ccw[b])
  <2>1. rx_ccw'[b] = rx_ccw[b] \/ rx_ccw'[b] = << >>
    BY <1>1, <1>2, Zenon
  <2>2. rx_ccw[b] \in Seq(Commands(H) \cup Updates(H))
    BY <1>2, Zenon
  <2> QED
    BY <2>1, <2>2, SubIs, Zenon
<1>4. ASSUME NEW b \in Arms, Told(rx_cw'[b]) PROVE Told(rx_cw[b])
  <2>1. rx_cw'[b] = rx_cw[b] \/ rx_cw'[b] = << >>
    BY <1>1, <1>2
  <2> QED
    BY <1>4, <2>1, NotTold, Zenon
<1>5. UNCHANGED firmware
  BY <1>1 DEF stored
<1> QED
  BY <1>1, <1>3, <1>4, <1>5, CalmMove, Zenon

\* A message lost on the line.
LEMMA LoseCalm ==
  ASSUME NEW H, Inv(H), NEW a \in Arms, Lose(a)
  PROVE  Calm(a)
<1>1. /\ pc' = pc /\ job' = job /\ UNCHANGED stored
      /\ \/ rx_ccw' = rx_ccw /\ \E i \in 1..Len(rx_cw[a]) : rx_cw' = [rx_cw EXCEPT ![a] = Without(@, i)]
         \/ rx_cw' = rx_cw /\ \E i \in 1..Len(rx_ccw[a]) : rx_ccw' = [rx_ccw EXCEPT ![a] = Without(@, i)]
  BY Zenon DEF Lose
<1>2. /\ rx_cw \in [Arms -> Seq(Results(H))]
      /\ rx_ccw \in [Arms -> Seq(Commands(H) \cup Updates(H))]
  BY Zenon DEF Inv, Content
<1>3. ASSUME NEW b \in Arms PROVE Sub(rx_ccw'[b], rx_ccw[b])
  <2>1. rx_ccw'[b] = rx_ccw[b] \/ \E i \in 1..Len(rx_ccw[b]) : rx_ccw'[b] = Without(rx_ccw[b], i)
    BY <1>1, <1>2
  <2>2. rx_ccw[b] \in Seq(Commands(H) \cup Updates(H))
    BY <1>2, Zenon
  <2> QED
    BY <2>1, <2>2, SubIs, Zenon
<1>4. ASSUME NEW b \in Arms, Told(rx_cw'[b]) PROVE Told(rx_cw[b])
  <2>1. CASE rx_cw'[b] = rx_cw[b]
    BY <1>4, <2>1, Zenon
  <2>2. CASE \E i \in 1..Len(rx_cw[b]) : rx_cw'[b] = Without(rx_cw[b], i)
    <3>1. PICK i \in 1..Len(rx_cw[b]) : rx_cw'[b] = Without(rx_cw[b], i)
      BY <2>2, Zenon
    <3> DEFINE q == rx_cw[b]
               s == rx_cw'[b]
    <3>2. q \in Seq(Results(H))
      BY <1>2, Zenon
    <3>3. Sub(s, q)
      BY <3>1, <3>2, SubIs, Zenon
    <3>4. PICK f \in [1..Len(s) -> 1..Len(q)] : \A k \in 1..Len(s) : s[k] = q[f[k]]
      BY <3>3, Zenon DEF Sub
    <3>5. PICK k \in 1..Len(s) : s[k] = BootloaderAck("COMPLETED")
      BY <1>4, Zenon DEF Told
    <3> HIDE DEF s, q
    <3>6. f[k] \in 1..Len(q) /\ q[f[k]] = BootloaderAck("COMPLETED")
      BY <3>4, <3>5, Zenon
    <3> QED
      BY <3>6, Zenon DEF Told, q
  <2> QED
    BY <1>1, <1>2, <2>1, <2>2, Zenon
<1>5. UNCHANGED firmware
  BY <1>1, Zenon DEF stored
<1>6. pc' = [pc EXCEPT ![a] = pc[a]]
  <2>1. pc \in [Arms -> Places]
    BY Zenon DEF Inv, Control
  <2> QED
    BY <1>1, <2>1
<1> QED
  BY <1>1, <1>3, <1>4, <1>5, <1>6, CalmMove, Zenon

\* An arm that has installed its firmware tells the arm in front.
LEMMA RejoinCalm ==
  ASSUME NEW H, Inv(H), NEW a \in Arms, Rejoin(a)
  PROVE  Calm(a)
<1>1. /\ pc[a] = "rejoin" /\ rx_ccw' = rx_ccw
      /\ Finish(FALSE)
      /\ TakeAndReply(a, 0, <<BootloaderAck("COMPLETED")>>)
  BY Zenon DEF Rejoin
<1>2. \E cmd, current : Leave(a, cmd, current)
  BY Zenon DEF Rejoin
<1>3. Control /\ job \in [Arms -> H \cup {NoMsg}] /\ rx_cw \in [Arms -> Seq(Results(H))]
  BY Zenon DEF Inv, Content
<1>4. /\ \A b \in Arms \ {a} : pc'[b] = pc[b] /\ job'[b] = job[b]
      /\ AtWork(a)' = {} /\ pc'[a] \in {"display", "command"}
  <2>1. PICK cmd, current : Leave(a, cmd, current)
    BY <1>2, Zenon
  <2> QED
    BY <1>3, <2>1, LeaveCalm, Zenon
<1>5. ASSUME NEW b \in Arms \ {Last}, Told(rx_cw'[b]) PROVE Told(rx_cw[b]) \/ pc[b + 1] = "rejoin"
  <2>1. 0 \in 0..Len(rx_cw[a])
    <3> QED
      OBVIOUS
  <2>2. <<BootloaderAck("COMPLETED")>> \in Seq(Results(H))
    <3>1. BootloaderAck("COMPLETED") \in Results(H)
      BY Zenon DEF BootloaderAck, BootloaderAcks, Results
    <3> HIDE DEF Results, BootloaderAck
    <3> QED
      BY <3>1
  <2>3. Told(rx_cw[b]) \/ b = a - 1
    BY <1>1, <1>3, <1>5, <2>1, <2>2, ToldReply, Zenon
  <2>4. b = a - 1 => b + 1 = a
    OBVIOUS
  <2> QED
    BY <1>1, <2>3, <2>4
<1>6. ~undone' => ~undone /\ installed' = installed
  BY <1>1, Zenon DEF Finish
<1>7. \A b \in Arms : Sub(rx_ccw'[b], rx_ccw[b])
  BY <1>1, SameLinks, Zenon
<1> QED
  BY <1>4, <1>5, <1>6, <1>7, Zenon DEF Calm

-----------------------------------------------------------------------------
\* An arm that takes the last firmware of a batch.
LEMMA TakenIs ==
  ASSUME NEW S, NEW q \in Seq(S), NEW k \in 0..Len(q), Sorted(q),
         NEW l \in OfType(Batch(q, k), "BOOTLOADER_UPDATE_CMD")
  PROVE  /\ Batch(q, k)[l].job \in UpdatesIn(q)
         /\ \A j \in UpdatesIn(Rest(q, k)) : Batch(q, k)[l].job.id <= j.id
<1>1. /\ Len(Batch(q, k)) = k /\ \A i \in 1..k : Batch(q, k)[i] = q[i]
      /\ Len(Rest(q, k)) = Len(q) - k /\ \A i \in 1..(Len(q) - k) : Rest(q, k)[i] = q[k + i]
  BY BatchIs, RestIs
<1>2. l \in 1..k /\ Batch(q, k)[l].type = "BOOTLOADER_UPDATE_CMD"
  BY <1>1, Zenon DEF OfType
<1>3. Batch(q, k)[l] = q[l] /\ IsUpdate(q[l])
  BY <1>1, <1>2 DEF IsUpdate
<1>4. Len(q) \in Nat /\ l \in 1..Len(q)
  BY <1>2
<1>5. q[l].job \in UpdatesIn(q)
  BY <1>3, <1>4 DEF UpdatesIn
<1>6. ASSUME NEW j \in UpdatesIn(Rest(q, k)) PROVE q[l].job.id <= j.id
  <2>1. PICK i \in 1..Len(Rest(q, k)) : IsUpdate(Rest(q, k)[i]) /\ j = Rest(q, k)[i].job
    BY Zenon DEF UpdatesIn
  <2>2. k + i \in 1..Len(q) /\ l < k + i /\ i \in 1..(Len(q) - k)
    BY <1>1, <1>2
  <2>3. Rest(q, k)[i] = q[k + i]
    BY <1>1, Zenon
  <2>4. IsUpdate(q[k + i]) /\ j = q[k + i].job
    BY <2>1, <2>3
  <2> QED
    BY <1>3, <1>4, <2>2, <2>4 DEF Sorted
<1> QED
  BY <1>3, <1>5, <1>6, Zenon

\* What an arm passes on when it polls tells of no completion.
LEMMA StraysUntold ==
  ASSUME NEW H, Inv(H), NEW a \in Arms, NEW n \in 0..Len(rx_cw[a]), NEW m \in Nat,
         NEW err \in Received(ring_error[a], Batch(rx_cw[a], n), "RING_ERROR"),
         NEW ack \in Received(ring_ack[a], Batch(rx_cw[a], n), "RING_ACK"),
         TakeAndReply(a, n, Strays(err, ack) \o [i \in 1..m |-> BootloaderAck("ACCEPTED")])
  PROVE  \A b \in Arms \ {Last} : Told(rx_cw'[b]) => Told(rx_cw[b])
<1> DEFINE p == Batch(rx_cw[a], n)
           s == IF err # NoMsg THEN <<err>> ELSE << >>
           t == IF ack # NoMsg /\ ack.result # "READY" THEN <<ack>> ELSE << >>
           r == [i \in 1..m |-> BootloaderAck("ACCEPTED")]
<1>1. /\ rx_cw \in [Arms -> Seq(Results(H))]
      /\ ring_ack \in [Arms -> Acks(H) \cup {NoMsg}]
      /\ ring_error \in [Arms -> RingErrors \cup {NoMsg}]
  BY Zenon DEF Inv, Content
<1>2. TakeAndReply(a, n, (s \o t) \o r)
  BY Zenon DEF Strays
<1>3. p \in Seq(Results(H))
  BY <1>1, BatchIs, Zenon
<1>4. err \in RingErrors \cup {NoMsg} /\ ack \in Acks(H) \cup {NoMsg}
  <2>1. ring_error[a] \in RingErrors \cup {NoMsg} /\ ring_ack[a] \in Acks(H) \cup {NoMsg}
    BY <1>1, Zenon
  <2>2. /\ Received(ring_error[a], p, "RING_ERROR") \subseteq RingErrors \cup {NoMsg}
        /\ Received(ring_ack[a], p, "RING_ACK") \subseteq Acks(H) \cup {NoMsg}
    BY <1>3, <2>1, SlotsAre, Zenon
  <2> QED
    BY <2>2, Zenon
<1>5. err # NoMsg => err \in Results(H) /\ err.type = "RING_ERROR"
  BY <1>4, Zenon DEF Results, RingErrors
<1>6. ack # NoMsg => ack \in Results(H) /\ ack.type = "RING_ACK"
  BY <1>4, Zenon DEF Results, Acks, RingAcks
<1> HIDE DEF p
<1>7. \A x : x.type \in {"RING_ERROR", "RING_ACK"} => ~Told(<<x>>)
  <2>1. BootloaderAck("COMPLETED").type = "BOOTLOADER_ACK"
    BY Zenon DEF BootloaderAck
  <2> QED
    BY <2>1, NotTold, Zenon
<1>8. BootloaderAck("ACCEPTED") \in Results(H)
  BY Zenon DEF BootloaderAck, BootloaderAcks, Results
<1> HIDE DEF Results, BootloaderAck
<1>9. s \in Seq(Results(H)) /\ ~Told(s)
  <2>1. CASE err # NoMsg
    <3>1. err \in Results(H) /\ ~Told(<<err>>)
      BY <1>5, <1>7, <2>1
    <3> QED
      BY <2>1, <3>1
  <2>2. CASE err = NoMsg
    BY <2>2, NotTold
  <2> QED
    BY <2>1, <2>2, Zenon
<1>10. t \in Seq(Results(H)) /\ ~Told(t)
  <2>1. CASE ack # NoMsg /\ ack.result # "READY"
    <3>1. ack \in Results(H) /\ ~Told(<<ack>>)
      BY <1>6, <1>7, <2>1
    <3> QED
      BY <2>1, <3>1
  <2>2. CASE ~(ack # NoMsg /\ ack.result # "READY")
    <3>1. t = << >>
      BY <2>2, Zenon
    <3> QED
      BY <3>1, NotTold
  <2> QED
    BY <2>1, <2>2, Zenon
<1>11. r \in Seq(Results(H)) /\ ~Told(r)
  <2>1. r \in Seq(Results(H)) /\ Len(r) = m /\ \A i \in 1..m : r[i] = BootloaderAck("ACCEPTED")
    BY <1>8
  <2> HIDE DEF r
  <2> QED
    BY <2>1, NotTold, Zenon DEF Told
<1> HIDE DEF s, t, r
<1>12. s \o t \in Seq(Results(H)) /\ (s \o t) \o r \in Seq(Results(H))
  BY <1>9, <1>10, <1>11
<1>13. ~Told((s \o t) \o r)
  BY <1>9, <1>10, <1>11, <1>12, ToldConcat, Zenon
<1> QED
  BY <1>2, <1>12, <1>13, Untold, Zenon

\* An arm takes the last firmware of what it reads, and drops earlier ones.
LEMMA PollOrder ==
  ASSUME NEW H, Inv(H), InOrder, NEW a \in Arms, Poll(a)
  PROVE  InOrder'
<1>0. a # 0 /\ pc[a] = "display" /\ UNCHANGED stored
  BY DEF Poll
<1>1. PICK n \in 0..Len(rx_cw[a]), k \in 0..Len(rx_ccw[a]) :
       LET p == Batch(rx_cw[a], n)
           q == Batch(rx_ccw[a], k)
       IN
       /\ \E err \in Received(ring_error[a], p, "RING_ERROR"),
             ack \in Received(ring_ack[a], p, "RING_ACK"), m \in 0..k :
            TakeAndReply(a, n, Strays(err, ack) \o [i \in 1..m |-> BootloaderAck("ACCEPTED")])
       /\ rx_ccw' = [rx_ccw EXCEPT ![a] = Rest(@, k)]
       /\ ring_error' = [ring_error EXCEPT ![a] = NoMsg]
       /\ ring_ack' = [ring_ack EXCEPT ![a] = NoMsg]
       /\ \E cmd \in Received(NoMsg, q, "RING_CMD") :
            /\ ring_cmd' = [ring_cmd EXCEPT ![a] = cmd]
            /\ \/ \E i \in OfType(q, "BOOTLOADER_UPDATE_CMD") :
                    /\ pc' = [pc EXCEPT ![a] = "rz"]
                    /\ job' = [job EXCEPT ![a] = q[i].job]
                    /\ UNCHANGED image
               \/ /\ cmd # NoMsg
                  /\ pc' = [pc EXCEPT ![a] = "command"]
                  /\ UNCHANGED <<job, image>>
               \/ /\ cmd = NoMsg
                  /\ EndOfImage(a, image_cmd[a], image_current[a])
                  /\ UNCHANGED <<pc, job>>
  BY PollIs, Zenon
<1>2. /\ pc \in [Arms -> Places] /\ job \in [Arms -> H \cup {NoMsg}]
      /\ rx_ccw \in [Arms -> Seq(Commands(H) \cup Updates(H))]
      /\ Local(a, pc[a], job[a], ring_cmd[a])
  BY DEF Inv, Content, Control
<1>3. UNCHANGED firmware
  BY <1>0, Zenon DEF stored
<1>4. \A b \in Arms \ {Last} : Told(rx_cw'[b]) => Told(rx_cw[b])
  <2>1. PICK err \in Received(ring_error[a], Batch(rx_cw[a], n), "RING_ERROR"),
             ack \in Received(ring_ack[a], Batch(rx_cw[a], n), "RING_ACK"), m \in 0..k :
          TakeAndReply(a, n, Strays(err, ack) \o [i \in 1..m |-> BootloaderAck("ACCEPTED")])
    BY <1>1, Zenon
  <2>2. m \in Nat
    OBVIOUS
  <2> QED
    BY <2>1, <2>2, StraysUntold, Zenon
<1> DEFINE q == rx_ccw[a]
<1>5. q \in Seq(Commands(H) \cup Updates(H))
  BY <1>2, Zenon
<1>6. rx_ccw'[a] = Rest(q, k) /\ \A b \in Arms \ {a} : rx_ccw'[b] = rx_ccw[b]
  BY <1>1, <1>2, Zenon
<1>7. ASSUME NEW b \in Arms PROVE Sub(rx_ccw'[b], rx_ccw[b])
  <2>1. rx_ccw[b] \in Seq(Commands(H) \cup Updates(H))
    BY <1>2, Zenon
  <2>2. CASE b = a
    BY <1>6, <2>1, <2>2, SubIs, Zenon
  <2>3. CASE b # a
    BY <1>6, <2>1, <2>3, SubIs, Zenon
  <2> QED
    BY <2>2, <2>3
<1>8. ASSUME NEW p \in {"command", "display"}, pc' = [pc EXCEPT ![a] = p], job' = job PROVE InOrder'
  <2>1. p \notin {"wait_completed", "rejoin", "install"} /\ pc[a] # "failed"
    BY <1>0, Zenon
  <2>2. Calm(a)
    BY <1>3, <1>4, <1>7, <1>8, <2>1, CalmMove, Zenon
  <2> QED
    BY <2>2, CalmStep, Zenon
<1> DEFINE updates == OfType(Batch(q, k), "BOOTLOADER_UPDATE_CMD")
<1>9. ASSUME NEW l \in updates, pc' = [pc EXCEPT ![a] = "rz"], job' = [job EXCEPT ![a] = Batch(q, k)[l].job]
      PROVE  InOrder'
  <2> DEFINE j == Batch(q, k)[l].job
  <2>0. Ordered
    BY DEF InOrder
  <2>2. j \in UpdatesIn(q) /\ \A i \in UpdatesIn(Rest(q, k)) : j.id <= i.id
    <3>1. Sorted(q)
      BY <2>0, Zenon DEF Ordered
    <3> QED
      BY <1>5, <3>1, TakenIs
  <2> HIDE DEF j, q
  <2>3. /\ job'[a] = j /\ \A b \in Arms \ {a} : job'[b] = job[b]
        /\ pc'[a] = "rz" /\ \A b \in Arms \ {a} : pc'[b] = pc[b]
    BY <1>2, <1>9, Zenon DEF j
  <2>4. AtWork(a)' \subseteq {j}
    BY <2>3, Zenon DEF AtWork
  <2>5. \A b \in Arms : OnTheWay(b)' \subseteq OnTheWay(b) /\ (Sorted(rx_ccw[b]) => Sorted(rx_ccw[b])')
    BY <1>7, SubKeeps, Zenon DEF OnTheWay
  <2>6. j \in OnTheWay(a) /\ \A i \in OnTheWay(a)' : j.id <= i.id
    BY <1>6, <2>2, Zenon DEF OnTheWay, q
  <2>7. \A b \in Arms \ {a} : AtWork(b)' = AtWork(b)
    BY <2>3, Zenon DEF AtWork
  <2>8. \A b \in Arms : Pending(b)' \subseteq Pending(b)
    BY <2>4, <2>5, <2>6, <2>7, Zenon DEF Pending
  <2>9. ASSUME NEW b \in Arms PROVE Sorted(rx_ccw[b])' /\ InTurn(b)'
    <3>1. CASE b = a
      BY <2>0, <2>4, <2>5, <2>6, <3>1, Zenon DEF Ordered, InTurn
    <3>2. CASE b # a
      BY <2>0, <2>5, <2>7, <3>2, Zenon DEF Ordered, InTurn
    <3> QED
      BY <3>1, <3>2, Zenon
  <2>10. ~undone' => ~undone /\ installed' = installed
    BY <1>3, Zenon DEF firmware
  <2>11. Ordered'
    BY <2>0, <2>5, <2>8, <2>9, <2>10, OrderedShrinks
  <2>12. ASSUME NEW b \in Arms PROVE Steady(b)
    <3>1. b # Last => b + 1 \in Arms /\ b \in Arms \ {Last}
      BY ArmsAre, Zenon
    <3>2. CASE b = a
      <4>1. pc'[b] \notin {"wait_completed", "install", "rejoin"} /\ pc[b] # "failed"
        BY <1>0, <2>3, <3>2, Zenon
      <4> QED
        BY <1>4, <4>1 DEF Steady
    <3>3. CASE b # a
      BY <1>4, <2>3, <2>5, <2>8, <3>1, <3>3, Zenon DEF Steady
    <3> QED
      BY <3>2, <3>3, Zenon
  <2> QED
    BY <2>10, <2>11, <2>12, SteadyStep
<1>10. CASE UNCHANGED <<pc, job>>
  <2>1. pc' = [pc EXCEPT ![a] = "display"]
    BY <1>0, <1>2, <1>10, Zenon
  <2> QED
    BY <1>8, <1>10, <2>1, Zenon
<1>11. CASE pc' = [pc EXCEPT ![a] = "command"] /\ job' = job
  BY <1>8, <1>11, Zenon
<1>12. \/ \E l \in updates : pc' = [pc EXCEPT ![a] = "rz"] /\ job' = [job EXCEPT ![a] = Batch(q, k)[l].job]
       \/ pc' = [pc EXCEPT ![a] = "command"] /\ job' = job
       \/ UNCHANGED <<pc, job>>
  BY <1>1, Zenon
<1> QED
  BY <1>9, <1>10, <1>11, <1>12

\* The firmware at work at an arm goes on to the arm behind it.
LEMMA ForwardOrder ==
  ASSUME NEW H, Inv(H), InOrder, NEW a \in Arms, Forward(a)
  PROVE  InOrder'
<1> DEFINE m == IF job[a].kind = "firmware" THEN BootloaderUpdateCmd(job[a]) ELSE RingCmd(job[a])
<1>1. PICK p \in {"wait_accepted", "wait_ready", "wait_ok"} :
        /\ pc[a] = "forward" /\ pc' = [pc EXCEPT ![a] = p]
        /\ SendDown(a, m)
        /\ UNCHANGED <<rx_cw, job, stored>>
  BY Zenon DEF Forward
<1>2. /\ Issued(H) /\ pc \in [Arms -> Places] /\ job \in [Arms -> H \cup {NoMsg}]
      /\ rx_ccw \in [Arms -> Seq(Commands(H) \cup Updates(H))]
  BY Zenon DEF Inv, Content, Control
<1>3. job[a] \in H /\ job[a] # NoMsg /\ a # Last
  <2>1. job[a] \in H /\ job[a] # NoMsg /\ Local(a, pc[a], job[a], ring_cmd[a])
    BY <1>1, HandlerIs, Zenon
  <2> QED
    BY <1>1, <2>1, Zenon DEF Local
<1>4. a + 1 \in Arms /\ a \in Int /\ a < a + 1 /\ a + 1 # 0
  BY <1>3, ArmsAre
<1>5. m \in Commands(H) \cup Updates(H) /\ (IsUpdate(m) => job[a].kind = "firmware" /\ m.job = job[a])
  <2>1. m \in Commands(H) \cup Updates(H)
    BY <1>2, <1>3, MessagesAre, Zenon
  <2>2. RingCmd(job[a]).type = "RING_CMD" /\ BootloaderUpdateCmd(job[a]).job = job[a]
    BY DEF RingCmd, BootloaderUpdateCmd
  <2> HIDE DEF RingCmd, BootloaderUpdateCmd
  <2>3. IsUpdate(m) => job[a].kind = "firmware"
    BY <2>2 DEF IsUpdate
  <2> QED
    BY <2>1, <2>2, <2>3, Zenon
<1> HIDE DEF m
<1>6. /\ rx_ccw'[a + 1] = Append(rx_ccw[a + 1], m)
      /\ \A b \in Arms \ {a + 1} : rx_ccw'[b] = rx_ccw[b]
  <2>1. rx_ccw' = [rx_ccw EXCEPT ![a + 1] = Append(@, m)]
    BY <1>1, Zenon DEF SendDown
  <2> QED
    BY <1>2, <1>4, <2>1, Zenon
<1>7. pc'[a] = p /\ \A b \in Arms \ {a} : pc'[b] = pc[b]
  BY <1>1, <1>2, Zenon
<1>8. /\ \A b \in Arms : AtWork(b)' = AtWork(b)
      /\ \A b \in Arms \ {a + 1} : OnTheWay(b)' = OnTheWay(b) /\ Pending(b)' = Pending(b)
  BY <1>1, <1>6, Zenon DEF AtWork, OnTheWay, Pending
<1>9. undone' = undone /\ installed' = installed
  BY <1>1, Zenon DEF stored, firmware
<1>10. /\ OnTheWay(0) = {}
       /\ \A b \in Arms : Sorted(rx_ccw[b]) /\ InTurn(b)
       /\ \A b, c \in Arms : b < c => \A j \in Pending(c), k \in Pending(b) : j.id <= k.id
       /\ ~undone => \A b, c \in Arms : b <= c => \A k \in Pending(b) : installed[c] <= k.id
  BY Zenon DEF InOrder, Ordered
<1> DEFINE new == {j \in {job[a]} : j.kind = "firmware"}
<1>11. new \subseteq AtWork(a) /\ new \subseteq Pending(a)
  BY <1>3, Zenon DEF AtWork, Pending
<1>12. IsUpdate(m) => m.job \in new
  BY <1>5, Zenon
<1>13. rx_ccw[a + 1] \in Seq(Commands(H) \cup Updates(H))
  BY <1>2, <1>4, Zenon
<1> DEFINE q == rx_ccw[a + 1]
<1>q. /\ UpdatesIn(Append(q, m)) \subseteq UpdatesIn(q) \cup (IF IsUpdate(m) THEN {m.job} ELSE {})
      /\ Sorted(q) /\ (IsUpdate(m) => \A j \in UpdatesIn(q) : j.id <= m.job.id)
           => Sorted(Append(q, m))
  <2> DEFINE S == Commands(H) \cup Updates(H)
  <2>1. q \in Seq(S) /\ m \in S
    BY <1>5, <1>13
  <2> HIDE DEF S, q
  <2> QED
    BY <2>1, AppendIs, Zenon
<1>14. /\ OnTheWay(a + 1)' \subseteq OnTheWay(a + 1) \cup new
       /\ Pending(a + 1)' \subseteq Pending(a + 1) \cup new
  <2>1. OnTheWay(a + 1)' \subseteq OnTheWay(a + 1) \cup (IF IsUpdate(m) THEN {m.job} ELSE {})
    BY <1>6, <1>q, Zenon DEF OnTheWay
  <2>2. OnTheWay(a + 1)' \subseteq OnTheWay(a + 1) \cup new
    BY <1>12, <2>1
  <2> QED
    BY <1>4, <1>8, <2>2, Zenon DEF Pending
<1> HIDE DEF new
<1>15. ASSUME NEW j \in new
       PROVE  /\ \A k \in Pending(a + 1) : k.id <= j.id
              /\ \A c \in Arms : a + 1 < c => \A k \in Pending(c) : k.id <= j.id
              /\ \A b \in Arms : b < a + 1 => \A k \in Pending(b) : j.id <= k.id
              /\ ~undone => \A c \in Arms : a + 1 <= c => installed[c] <= j.id
  <2>1. j \in AtWork(a) /\ j \in Pending(a)
    BY <1>11, Zenon
  <2>2. \A k \in Pending(a + 1) : k.id <= j.id
    BY <1>4, <1>10, <2>1, Zenon
  <2>3. ASSUME NEW c \in Arms, a + 1 < c PROVE \A k \in Pending(c) : k.id <= j.id
    <3>1. a < c
      BY <1>4, <2>3
    <3> QED
      BY <1>10, <2>1, <3>1, Zenon
  <2>4. ASSUME NEW b \in Arms, b < a + 1, NEW k \in Pending(b) PROVE j.id <= k.id
    <3>1. b < a \/ b = a
      BY <1>4, <2>4
    <3>2. CASE b < a
      BY <1>10, <2>1, <2>4, <3>2
    <3>3. CASE b = a
      <4>1. CASE k \in OnTheWay(a)
        BY <1>10, <2>1, <4>1 DEF InTurn
      <4>2. CASE k \in AtWork(a)
        <5>1. k = j
          BY <2>1, <4>2 DEF AtWork
        <5>2. j.id \in 1..jobs /\ jobs \in Nat
          BY <2>1, PendingIs DEF Inv, Issued
        <5> QED
          BY <5>1, <5>2
      <4> QED
        BY <2>4, <3>3, <4>1, <4>2 DEF Pending
    <3> QED
      BY <3>1, <3>2, <3>3
  <2>5. ASSUME ~undone, NEW c \in Arms, a + 1 <= c PROVE installed[c] <= j.id
    <3>1. a <= c
      BY <1>4, <2>5
    <3> QED
      BY <1>10, <2>1, <2>5, <3>1
  <2> QED
    BY <2>2, <2>3, <2>4, <2>5, Zenon
<1>16. ASSUME NEW b \in Arms PROVE Sorted(rx_ccw[b])' /\ InTurn(b)'
  <2>1. CASE b = a + 1
    <3>1. IsUpdate(m) => \A j \in UpdatesIn(rx_ccw[a + 1]) : j.id <= m.job.id
      BY <1>12, <1>15, Zenon DEF Pending, OnTheWay
    <3>2. Sorted(rx_ccw[b])'
      BY <1>6, <1>10, <1>q, <2>1, <3>1, Zenon
    <3>3. InTurn(b)'
      BY <1>8, <1>10, <1>14, <1>15, <2>1 DEF InTurn, Pending
    <3> QED
      BY <3>2, <3>3, Zenon
  <2>2. CASE b # a + 1
    BY <1>6, <1>8, <1>10, <2>2, Zenon DEF InTurn
  <2> QED
    BY <2>1, <2>2
<1>17. ASSUME NEW b \in Arms, NEW c \in Arms, b < c, NEW j \in Pending(c)', NEW k \in Pending(b)'
       PROVE  j.id <= k.id
  <2>1. CASE b # a + 1 /\ c # a + 1
    BY <1>8, <1>10, <1>17, <2>1, Zenon
  <2>2. CASE b = a + 1
    <3>1. c # a + 1
      BY <1>17, <2>2
    <3>2. j \in Pending(c)
      BY <1>8, <1>17, <3>1, Zenon
    <3> QED
      BY <1>10, <1>14, <1>15, <1>17, <2>2, <3>2, Zenon
  <2>3. CASE c = a + 1
    <3>1. b # a + 1
      BY <1>17, <2>3
    <3>2. k \in Pending(b)
      BY <1>8, <1>17, <3>1, Zenon
    <3> QED
      BY <1>10, <1>14, <1>15, <1>17, <2>3, <3>2, Zenon
  <2> QED
    BY <2>1, <2>2, <2>3
<1>18. ASSUME ~undone, NEW b \in Arms, NEW c \in Arms, b <= c, NEW k \in Pending(b)'
       PROVE  installed[c] <= k.id
  <2>1. CASE b # a + 1
    BY <1>8, <1>10, <1>18, <2>1, Zenon
  <2>2. CASE b = a + 1
    BY <1>10, <1>14, <1>15, <1>18, <2>2
  <2> QED
    BY <2>1, <2>2, Zenon
<1>19. OnTheWay(0)' = {}
  <2>1. 0 \in Arms \ {a + 1}
    BY ArmsAre
  <2> QED
    BY <1>8, <1>10, <2>1, Zenon
<1>20. Ordered'
  BY <1>9, <1>16, <1>17, <1>18, <1>19, Zenon DEF Ordered
<1>21. ASSUME NEW b \in Arms PROVE Steady(b)
  <2>1. b # Last => b + 1 \in Arms /\ b \in Int
    BY ArmsAre
  <2>2. CASE b = a
    <3>1. pc'[b] \notin {"wait_completed", "install", "rejoin"} /\ pc[b] # "failed"
      BY <1>1, <2>2
    <3> QED
      BY <1>1, <3>1, Zenon DEF Steady
  <2>3. CASE b # a
    <3>1. b # Last => b + 1 \in Arms \ {a + 1}
      BY <1>4, <2>1, <2>3
    <3>2. b # Last => /\ Pending(b + 1)' \subseteq Pending(b + 1)
                      /\ OnTheWay(b + 1)' \subseteq OnTheWay(b + 1)
      BY <1>8, <3>1, Zenon
    <3> QED
      BY <1>1, <1>7, <2>3, <3>2, Zenon DEF Steady
  <2> QED
    BY <2>2, <2>3, Zenon
<1> QED
  BY <1>9, <1>20, <1>21, SteadyStep, Zenon

\* A firmware handed to the arm behind.
LEMMA TransferOrder ==
  ASSUME NEW H, Inv(H), InOrder, NEW a \in Arms, Transfer(a)
  PROVE  InOrder'
<1>1. PICK s \in {"wait_ok", "wait_completed", "failed"},
           r \in {"forward", "commit", "install", "failed"} :
        /\ a # Last /\ pc[a] = "sz" /\ pc[a + 1] = "rz"
        /\ rx_cw' = [rx_cw EXCEPT ![a] = << >>]
        /\ rx_ccw' = [rx_ccw EXCEPT ![a + 1] = << >>]
        /\ pc' = [pc EXCEPT ![a] = s, ![a + 1] = r]
        /\ s = "wait_completed" => job[a].kind # "file"
        /\ r = "install" => a + 1 = Last
        /\ r # "failed" => SizeMatches(a)
        /\ UNCHANGED <<job, firmware>>
  <2> DEFINE s0 == Sent(a)
             r0 == Got(a + 1)
  <2>1. /\ s0 \in {"wait_ok", "wait_completed", "failed"} /\ (s0 = "wait_completed" => job[a].kind # "file")
        /\ r0 \in {"forward", "commit", "install", "failed"} /\ (r0 = "install" => a + 1 = Last)
        /\ "failed" # "install" /\ "failed" # "wait_completed"
        /\ "failed" \in {"wait_ok", "wait_completed", "failed"}
        /\ "failed" \in {"forward", "commit", "install", "failed"}
    BY Zenon DEF Sent, Got
  <2>2. \E s \in {s0, "failed"}, r \in {r0, "failed"} :
          /\ pc' = [pc EXCEPT ![a] = s, ![a + 1] = r]
          /\ r # "failed" => SizeMatches(a)
    BY Zenon DEF Transfer
  <2>3. /\ a # Last /\ pc[a] = "sz" /\ pc[a + 1] = "rz"
        /\ rx_cw' = [rx_cw EXCEPT ![a] = << >>]
        /\ rx_ccw' = [rx_ccw EXCEPT ![a + 1] = << >>]
        /\ UNCHANGED <<job, firmware>>
    BY Zenon DEF Transfer
  <2> HIDE DEF s0, r0
  <2> QED
    BY <2>1, <2>2, <2>3, Zenon
<1>2. /\ pc \in [Arms -> Places] /\ rx_cw \in [Arms -> Seq(Results(H))]
      /\ rx_ccw \in [Arms -> Seq(Commands(H) \cup Updates(H))]
  BY Zenon DEF Inv, Content, Control
<1>3. a + 1 \in Arms /\ a \in Int /\ a # a + 1
  BY <1>1, ArmsAre
<1>4. /\ pc'[a] = s /\ pc'[a + 1] = r
      /\ \A b \in Arms \ {a, a + 1} : pc'[b] = pc[b]
      /\ rx_cw'[a] = << >> /\ \A b \in Arms \ {a} : rx_cw'[b] = rx_cw[b]
      /\ rx_ccw'[a + 1] = << >> /\ \A b \in Arms \ {a + 1} : rx_ccw'[b] = rx_ccw[b]
  BY <1>1, <1>2, <1>3, Zenon
<1>5. ASSUME NEW b \in Arms PROVE Sub(rx_ccw'[b], rx_ccw[b])
  <2>1. rx_ccw[b] \in Seq(Commands(H) \cup Updates(H))
    BY <1>2, Zenon
  <2>2. CASE b = a + 1
    BY <1>4, <2>1, <2>2, SubIs, Zenon
  <2>3. CASE b # a + 1
    BY <1>4, <2>1, <2>3, SubIs, Zenon
  <2> QED
    BY <2>2, <2>3
<1>6. \A b \in Arms : OnTheWay(b)' \subseteq OnTheWay(b) /\ (Sorted(rx_ccw[b]) => Sorted(rx_ccw[b])')
  BY <1>5, SubKeeps, Zenon DEF OnTheWay
<1>7. \A b \in Arms : AtWork(b)' = AtWork(b)
  BY <1>1 DEF AtWork
<1>8. \A b \in Arms : Pending(b)' \subseteq Pending(b)
  BY <1>6, <1>7, Zenon DEF Pending
<1>9. ~undone' => ~undone /\ installed' = installed
  BY <1>1, Zenon DEF firmware
<1>10. Ordered'
  <2>1. Ordered
    BY Zenon DEF InOrder
  <2>2. \A b \in Arms : Sorted(rx_ccw[b])' /\ InTurn(b)'
    BY <1>6, <1>7, <2>1 DEF Ordered, InTurn
  <2> QED
    BY <1>6, <1>8, <1>9, <2>1, <2>2, OrderedShrinks, Zenon
<1>11. \A b \in Arms : Told(rx_cw'[b]) => Told(rx_cw[b])
  BY <1>4, NotTold, Zenon
<1>12. ASSUME s = "wait_completed" PROVE Same(a)'
  <2>1. OnTheWay(a + 1)' = {}
    <3> QED
      BY <1>4 DEF OnTheWay, UpdatesIn
  <2>2. ASSUME r # "failed", NEW j \in AtWork(a + 1) PROVE j.id = job[a].id
    BY <1>1, <2>2, Zenon DEF SizeMatches, AtWork
  <2> QED
    BY <1>1, <1>4, <1>7, <1>3, <2>1, <2>2 DEF Same
<1>13. ASSUME NEW b \in Arms PROVE Steady(b)
  <2>1. b # Last => b + 1 \in Arms
    BY ArmsAre, Zenon
  <2>2. b # Last => /\ Pending(b + 1)' \subseteq Pending(b + 1)
                    /\ OnTheWay(b + 1)' \subseteq OnTheWay(b + 1)
    BY <1>6, <1>8, <2>1
  <2>3. CASE b = a
    <3>1. pc'[b] \notin {"install", "rejoin"} /\ pc[b] # "failed"
      BY <1>1, <1>4, <2>3, Zenon
    <3>2. pc'[b] = "wait_completed" => Same(b)' /\ ~Told(rx_cw'[b])
      BY <1>4, <1>12, <2>3, NotTold, Zenon
    <3> QED
      BY <1>11, <3>1, <3>2 DEF Steady
  <2>4. CASE b = a + 1
    <3>1. pc'[b] \notin {"wait_completed", "rejoin"} /\ pc[b] # "failed" /\ (pc'[b] = "install" => b = Last)
      BY <1>1, <1>4, <2>4, Zenon
    <3> QED
      BY <1>11, <3>1, Zenon DEF Steady
  <2>5. CASE b \notin {a, a + 1}
    BY <1>1, <1>4, <2>2, <2>5, Zenon DEF Steady
  <2> QED
    BY <2>3, <2>4, <2>5
<1> QED
  BY <1>9, <1>10, <1>13, SteadyStep

\* An arm installs a firmware after the arm behind it, and after the firmwares
\* that went through it before.
LEMMA InstallOrder ==
  ASSUME NEW H, Inv(H), InOrder, NEW a \in Arms, Install(a)
  PROVE  InOrder'
<1>1. pc[a] = "install" /\ rx_ccw' = rx_ccw
  BY DEF Install
<1>2. job[a] \in H /\ job[a] # NoMsg /\ job[a].kind = "firmware"
  <2>1. job[a] \in H /\ job[a] # NoMsg /\ Fits(pc[a], job[a].kind)
    BY <1>1, HandlerIs
  <2> QED
    BY <1>1, <2>1, Zenon DEF Fits
<1>3. CASE Fail(a, 0)
  <2>1. 0 \in 0..Len(rx_cw[a])
    <3> QED
      OBVIOUS
  <2>2. Calm(a)
    BY <1>1, <1>2, <1>3, <2>1, FailCalm, Zenon
  <2> QED
    BY <2>2, CalmStep
<1>4. CASE /\ installed' = [installed EXCEPT ![a] = job[a].id]
           /\ pc' = [pc EXCEPT ![a] = "rejoin"]
           /\ UNCHANGED <<rx_cw, job, undone>>
  <2>1. /\ installed \in [Arms -> 0..jobs] /\ pc \in [Arms -> Places] /\ jobs \in Nat /\ Issued(H)
    BY DEF Inv, Versions, Control, Issued
  <2>2. /\ installed'[a] = job[a].id /\ \A b \in Arms \ {a} : installed'[b] = installed[b]
        /\ pc'[a] = "rejoin" /\ \A b \in Arms \ {a} : pc'[b] = pc[b]
    BY <1>4, <2>1, Zenon
  <2>3. \A b \in Arms : /\ AtWork(b)' = AtWork(b) /\ OnTheWay(b)' = OnTheWay(b)
                        /\ Pending(b)' = Pending(b)
    BY <1>1, <1>4, Zenon DEF AtWork, OnTheWay, Pending
  <2>4. /\ OnTheWay(0) = {}
        /\ \A b \in Arms : Sorted(rx_ccw[b]) /\ InTurn(b)
        /\ \A b, c \in Arms : b < c => \A j \in Pending(c), k \in Pending(b) : j.id <= k.id
        /\ ~undone => \A b, c \in Arms : b <= c => \A k \in Pending(b) : installed[c] <= k.id
        /\ \A b \in Arms \ {Last} : Handed(b) /\ Descending(b)
        /\ \A b \in Arms : Rejoined(b)
    BY Zenon DEF InOrder, Ordered
  <2>5. job[a] \in AtWork(a) /\ job[a] \in Pending(a)
    BY <1>2, Zenon DEF AtWork, Pending
  <2>6. job[a].id \in 1..jobs
    BY <1>2, <2>1, JobIs, Zenon
  <2>7. ASSUME ~undone, NEW b \in Arms, b <= a, NEW k \in Pending(b)
        PROVE  job[a].id <= k.id
    <3>1. b < a \/ b = a
      BY <2>7, ArmsAre
    <3>2. CASE b < a
      BY <2>4, <2>5, <2>7, <3>2
    <3>3. CASE b = a
      <4>1. CASE k \in OnTheWay(a)
        BY <2>4, <2>5, <4>1, Zenon DEF InTurn
      <4>2. CASE k \in AtWork(a)
        <5>1. k = job[a]
          BY <4>2, Zenon DEF AtWork
        <5> QED
          BY <2>6, <5>1
      <4> QED
        BY <2>7, <3>3, <4>1, <4>2, Zenon DEF Pending
    <3> QED
      BY <3>1, <3>2, <3>3, Zenon
  <2>8. Ordered'
    <3>1. \A b \in Arms : Sorted(rx_ccw[b])' /\ InTurn(b)'
      BY <1>1, <2>3, <2>4 DEF InTurn
    <3>2. \A b, c \in Arms : b < c => \A j \in Pending(c)', k \in Pending(b)' : j.id <= k.id
      BY <2>3, <2>4, Zenon
    <3>3. ASSUME ~undone', NEW b \in Arms, NEW c \in Arms, b <= c, NEW k \in Pending(b)'
          PROVE  installed'[c] <= k.id
      <4>1. ~undone /\ k \in Pending(b)
        BY <1>4, <2>3, <3>3, Zenon
      <4>2. CASE c = a
        BY <2>2, <2>7, <3>3, <4>1, <4>2, Zenon
      <4>3. CASE c # a
        BY <2>2, <2>4, <3>3, <4>1, <4>3, Zenon
      <4> QED
        BY <4>2, <4>3, Zenon
    <3>4. OnTheWay(0)' = {}
      <4>1. 0 \in Arms
        BY ArmsAre, Zenon
      <4> QED
        BY <2>3, <2>4, <4>1
    <3> QED
      BY <3>1, <3>2, <3>3, <3>4, Zenon DEF Ordered
  <2>9. ~undone => installed[a] <= job[a].id
    <3>1. a <= a
      BY ArmsAre
    <3> QED
      BY <2>4, <2>5, <3>1, Zenon
  <2>10. ASSUME ~undone, NEW b \in Arms PROVE installed[b] <= installed'[b]
    <3>1. installed[b] \in Nat
      BY <2>1
    <3>2. CASE b = a
      BY <2>2, <2>9, <2>10, <3>2, Zenon
    <3>3. CASE b # a
      BY <2>2, <3>1, <3>3
    <3> QED
      BY <3>2, <3>3, Zenon
  <2>11. ASSUME NEW b \in Arms \ {Last} PROVE Handed(b)' /\ Descending(b)'
    <3>0. b \in Arms /\ b + 1 \in Arms /\ b # b + 1 /\ b # Last
      BY ArmsAre
    <3>1. ~undone => /\ installed[b + 1] <= installed'[b + 1]
                     /\ installed[b] \in Nat /\ installed[b + 1] \in Nat /\ installed'[b + 1] \in Nat
                     /\ installed'[b] \in Nat
      <4>1. installed' \in [Arms -> 0..jobs]
        BY <1>4, <2>1, <2>6
      <4> QED
        BY <2>1, <2>10, <3>0, <4>1
    <3>2. Handed(b) /\ Descending(b)
      BY <2>4, Zenon
    <3>3. Descending(b)'
      <4>1. ASSUME ~undone PROVE installed'[b] <= installed'[b + 1]
        <5>1. CASE b = a
          <6>1. job[a].id <= installed[b + 1]
            BY <1>1, <3>2, <4>1, <5>1, Zenon DEF Handed
          <6>2. installed'[b] = job[a].id
            BY <2>2, <5>1, Zenon
          <6> QED
            BY <3>1, <4>1, <6>1, <6>2
        <5>2. CASE b # a
          <6>1. installed'[b] = installed[b] /\ installed[b] <= installed[b + 1]
            BY <2>2, <3>2, <4>1, <5>2, Zenon DEF Descending
          <6> QED
            BY <3>1, <4>1, <6>1
        <5> QED
          BY <5>1, <5>2, Zenon
      <4> QED
        BY <1>4, <4>1 DEF Descending
    <3>4. ASSUME ~undone, pc[b] \in {"wait_completed", "install"}, job[b].id <= installed[b + 1]
          PROVE  job[b].id <= installed'[b + 1]
      <4>1. job[b] \in H
        BY <3>4, HandlerIs, Zenon
      <4>2. job[b].id \in 1..jobs
        BY <2>1, <4>1, JobIs, Zenon
      <4> QED
        BY <3>1, <3>4, <4>2
    <3>5. Handed(b)'
      <4>1. pc'[b] \in {"wait_completed", "install"} => pc'[b] = pc[b]
        BY <2>2, Zenon
      <4>2. pc'[b + 1] = pc[b + 1] \/ (pc[b + 1] # "failed" /\ pc'[b + 1] # "failed")
        BY <1>1, <2>2, <3>0, Zenon
      <4>3. ASSUME pc'[b] = "wait_completed" PROVE Same(b)'
        <5>1. Same(b)
          BY <3>2, <4>1, <4>3, Zenon DEF Handed
        <5> QED
          BY <1>4, <2>3, <3>0, <4>2, <5>1 DEF Same
      <4>4. ASSUME ~undone', pc'[b] = "wait_completed", Told(rx_cw'[b]) PROVE job'[b].id <= installed'[b + 1]
        <5>1. ~undone /\ pc[b] = "wait_completed" /\ Told(rx_cw[b]) /\ job'[b] = job[b]
          BY <1>4, <4>1, <4>4, Zenon
        <5>2. job[b].id <= installed[b + 1]
          BY <3>2, <5>1 DEF Handed
        <5> QED
          BY <3>4, <5>1, <5>2, Zenon
      <4>5. ASSUME ~undone', pc'[b] = "install" PROVE job'[b].id <= installed'[b + 1]
        <5>1. ~undone /\ pc[b] = "install" /\ job'[b] = job[b]
          BY <1>4, <4>5
        <5>2. job[b].id <= installed[b + 1]
          BY <3>2, <5>1, Zenon DEF Handed
        <5> QED
          BY <3>4, <5>1, <5>2, Zenon
      <4> QED
        BY <4>3, <4>4, <4>5, Zenon DEF Handed
    <3> QED
      BY <3>3, <3>5, Zenon
  <2>12. ASSUME NEW b \in Arms PROVE Rejoined(b)'
    BY <1>4, <2>2, <2>4, Zenon DEF Rejoined
  <2> QED
    BY <2>8, <2>11, <2>12 DEF InOrder
<1> QED
  BY <1>3, <1>4, Zenon DEF Install

\* A new firmware is the latest.
LEMMA StartOrder ==
  ASSUME NEW H, Inv(H), InOrder, NEW kind, NEW action, Start(kind, action)
  PROVE  InOrder'
<1> DEFINE new == [kind |-> kind, id |-> jobs + 1, action |-> action,
                   seq |-> IF kind = "firmware" THEN 0 ELSE NextSeq]
<1>1. /\ pc[0] = "display" /\ job' = [job EXCEPT ![0] = new]
      /\ pc' = [pc EXCEPT ![0] = "forward"] /\ UNCHANGED <<links, firmware>>
  BY Zenon DEF Start
<1>2. new.id = jobs + 1
  BY Zenon
<1> HIDE DEF new
<1>3. /\ pc \in [Arms -> Places] /\ job \in [Arms -> H \cup {NoMsg}] /\ jobs \in Nat
      /\ installed \in [Arms -> 0..jobs] /\ Local(0, pc[0], job[0], ring_cmd[0])
  BY ArmsAre DEF Inv, Content, Control, Versions, Issued
<1>4. 0 \in Arms /\ 0 # Last /\ \A b \in Arms : ~(b < 0) /\ (b # Last => b + 1 \in Arms \ {0})
  BY ArmsAre
<1>5. /\ job'[0] = new /\ \A b \in Arms \ {0} : job'[b] = job[b]
      /\ pc'[0] = "forward" /\ \A b \in Arms \ {0} : pc'[b] = pc[b]
      /\ rx_cw' = rx_cw /\ rx_ccw' = rx_ccw /\ undone' = undone /\ installed' = installed
  <2>1. rx_cw' = rx_cw /\ rx_ccw' = rx_ccw /\ undone' = undone /\ installed' = installed
    BY <1>1, Zenon DEF links, firmware
  <2> QED
    BY <1>1, <1>3, <1>4, <2>1
<1>6. /\ OnTheWay(0) = {}
      /\ \A b \in Arms : Sorted(rx_ccw[b]) /\ InTurn(b)
      /\ \A b, c \in Arms : b < c => \A j \in Pending(c), k \in Pending(b) : j.id <= k.id
      /\ ~undone => \A b, c \in Arms : b <= c => \A k \in Pending(b) : installed[c] <= k.id
  BY Zenon DEF InOrder, Ordered
<1>7. /\ \A b \in Arms : OnTheWay(b)' = OnTheWay(b)
      /\ \A b \in Arms \ {0} : AtWork(b)' = AtWork(b) /\ Pending(b)' = Pending(b)
      /\ Pending(0)' \subseteq {new}
  BY <1>5, <1>6 DEF AtWork, OnTheWay, Pending
<1>8. ASSUME NEW b \in Arms PROVE Sorted(rx_ccw[b])' /\ InTurn(b)'
  <2>1. CASE b = 0
    BY <1>5, <1>6, <1>7, <2>1 DEF InTurn
  <2>2. CASE b # 0
    BY <1>5, <1>6, <1>7, <2>2, Zenon DEF InTurn
  <2> QED
    BY <2>1, <2>2, Zenon
<1>9. ASSUME NEW b \in Arms, NEW c \in Arms, b < c, NEW j \in Pending(c)', NEW k \in Pending(b)'
      PROVE  j.id <= k.id
  <2>1. c # 0 /\ j \in Pending(c)
    BY <1>4, <1>7, <1>9, Zenon
  <2>2. CASE b = 0
    <3>1. k = new
      BY <1>7, <1>9, <2>2, Zenon
    <3>2. j.id \in 1..jobs
      BY <2>1, PendingIs, Zenon
    <3> QED
      BY <1>2, <1>3, <3>1, <3>2
  <2>3. CASE b # 0
    BY <1>6, <1>7, <1>9, <2>1, <2>3, Zenon
  <2> QED
    BY <2>2, <2>3
<1>10. ASSUME ~undone, NEW b \in Arms, NEW c \in Arms, b <= c, NEW k \in Pending(b)'
       PROVE  installed[c] <= k.id
  <2>1. CASE b = 0
    <3>1. k = new
      BY <1>7, <1>10, <2>1
    <3> QED
      BY <1>2, <1>3, <3>1
  <2>2. CASE b # 0
    BY <1>6, <1>7, <1>10, <2>2, Zenon
  <2> QED
    BY <2>1, <2>2, Zenon
<1>11. Ordered'
  <2>1. OnTheWay(0)' = {}
    BY <1>4, <1>6, <1>7, Zenon
  <2> QED
    BY <1>5, <1>8, <1>9, <1>10, <2>1, Zenon DEF Ordered
<1>12. ASSUME NEW b \in Arms PROVE Steady(b)
  <2>1. CASE b = 0
    <3>1. pc'[b] \notin {"wait_completed", "install", "rejoin"} /\ pc[b] # "failed"
      BY <1>1, <2>1
    <3> QED
      BY <1>5, <3>1 DEF Steady
  <2>2. CASE b # 0
    <3>1. b # Last => /\ Pending(b + 1)' \subseteq Pending(b + 1)
                      /\ OnTheWay(b + 1)' \subseteq OnTheWay(b + 1)
      BY <1>4, <1>7, Zenon
    <3> QED
      BY <1>5, <2>2, <3>1, Zenon DEF Steady
  <2> QED
    BY <2>1, <2>2
<1> QED
  BY <1>5, <1>11, <1>12, SteadyStep, Zenon

-----------------------------------------------------------------------------
\* Initially nothing is pending or installed.
LEMMA InitOrder ==
  ASSUME Init
  PROVE  InOrder
<1>1. /\ rx_ccw = [a \in Arms |-> << >>] /\ pc = [a \in Arms |-> "display"]
      /\ job = [a \in Arms |-> NoMsg] /\ installed = [a \in Arms |-> 0]
  BY Zenon DEF Init
<1>2. \A i \in 1..Len(<< >>) : FALSE
  OBVIOUS
<1>3. \A a \in Arms : rx_ccw[a] = << >> /\ pc[a] = "display" /\ job[a] = NoMsg /\ installed[a] = 0
  BY <1>1, Zenon
<1>4. \A a \in Arms : AtWork(a) = {} /\ OnTheWay(a) = {} /\ Pending(a) = {} /\ Sorted(rx_ccw[a])
  BY <1>2, <1>3, Zenon DEF AtWork, OnTheWay, Pending, UpdatesIn, Sorted
<1>5. Ordered
  BY <1>4, ArmsAre, Zenon DEF Ordered, InTurn
<1>6. ASSUME NEW a \in Arms PROVE pc[a] \notin {"wait_completed", "install", "rejoin"}
  BY <1>3, Zenon
<1>7. ASSUME NEW a \in Arms \ {Last} PROVE Handed(a) /\ Descending(a)
  <2>1. installed[a] <= installed[a + 1]
    BY <1>3, ArmsAre
  <2> QED
    BY <1>6, <2>1 DEF Handed, Descending
<1>8. \A a \in Arms : Rejoined(a)
  BY <1>6, Zenon DEF Rejoined
<1> QED
  BY <1>5, <1>7, <1>8 DEF InOrder

\* Every step keeps the order.
LEMMA StepOrder ==
  ASSUME NEW H, Inv(H), InOrder, [Next]_vars
  PROVE  InOrder'
<1>1. CASE Request
  BY <1>1, StartOrder, Zenon DEF Request
<1>2. ASSUME NEW a \in Arms, Step(a) \/ SendFails(a) \/ SplitBootloaderAck(a) \/ Lose(a)
      PROVE  InOrder'
  <2>2. CASE SendFails(a) \/ SplitBootloaderAck(a) \/ Timeout(a) \/ TransferFailed(a)
    <3>1. /\ pc[a] \in {"forward", "wait_completed", "failed"} \cup Waits
          /\ Fail(a, 0) /\ rx_ccw' = rx_ccw
      BY <2>2 DEF SendFails, SplitBootloaderAck, Timeout, TransferFailed
    <3>2. job[a] # NoMsg
      BY <3>1, HandlerIs, Zenon DEF Waits
    <3>3. Calm(a)
      BY <3>1, <3>2, FailCalm
    <3> QED
      BY <3>3, CalmStep, Zenon
  <2>3. CASE CommitLast(a)
    <3>1. pc[a] = "commit" /\ Commit(a, 0) /\ rx_ccw' = rx_ccw
      BY <2>3, Zenon DEF CommitLast
    <3>2. job[a] # NoMsg
      BY <3>1, HandlerIs
    <3>3. Calm(a)
      BY <3>1, <3>2, CommitCalm
    <3> QED
      BY <3>3, CalmStep, Zenon
  <2>4. CASE Frame(a)
    <3>1. UNCHANGED <<links, pc, job, firmware>>
      BY <2>4, Zenon DEF Frame, stored
    <3> QED
      BY <3>1, FrameCalm, CalmStep, Zenon
  <2>5. CASE \/ Command(a) \/ WaitLinkAck(a) \/ WaitBootloaderAck(a)
             \/ SendTimeout(a) \/ ReceiveTimeout(a) \/ Rejoin(a) \/ Lose(a)
    <3>1. Calm(a)
      BY <2>5, CommandCalm, WaitLinkAckCalm, WaitBootloaderAckCalm, ClearedCalm, RejoinCalm,
         LoseCalm
    <3> QED
      BY <3>1, CalmStep
  <2> QED
    BY <1>2, <2>2, <2>3, <2>4, <2>5, PollOrder, ForwardOrder, TransferOrder, InstallOrder DEF
       Step
<1>3. CASE UNCHANGED vars
  <2>1. UNCHANGED <<links, pc, job, firmware>>
    BY <1>3 DEF vars, stored
  <2>2. 0 \in Arms
    BY ArmsAre, Zenon
  <2> QED
    BY <2>1, <2>2, FrameCalm, CalmStep
<1> QED
  BY <1>1, <1>2, <1>3 DEF Next

\* What an arm has executed the last arm has executed, and an arm has no later
\* firmware than the arm behind it unless a failure took that one back.
THEOREM CommittedFromTheEndAlways == Spec => []CommittedFromTheEnd
<1>1. Init => \E H : Inv(H) /\ InOrder
  BY InitInv, InitOrder, Zenon
<1>2. (\E H : Inv(H) /\ InOrder) /\ [Next]_vars => (\E H : Inv(H) /\ InOrder)'
  BY StepInv, StepOrder
<1>3. (\E H : Inv(H) /\ InOrder) => CommittedFromTheEnd
  BY InvMeans, Zenon DEF InOrder, Descending, CommittedFromTheEnd
<1> QED
  BY <1>1, <1>2, <1>3, PTL DEF Spec

=============================================================================
