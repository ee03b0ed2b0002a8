----------------------------- MODULE KmemProofs -----------------------------
(***************************************************************************)
(* No page is in two places and none is lost, from the boot on, for any    *)
(* number of processors and pages.  The inductive invariant gives every    *)
(* page one place (the free list, the range that kinit2 has yet to free,   *)
(* a call, a stack, a process, or the word that startothers leaves for the *)
(* processor it starts), and says why two processors never work on the     *)
(* list at once: before kinit2 ends the list has no lock but startothers   *)
(* has let no other processor past its start, and afterwards the read and  *)
(* the write of the list head are inside the lock.                         *)
(***************************************************************************)
EXTENDS Kmem, FiniteSetTheorems, TLAPS

(* The pages of a sequence, and a sequence in which no page occurs twice.  *)
Entries(s) == {s[i] : i \in 1 .. Len(s)}
Distinct(s) == \A i, j \in 1 .. Len(s) : s[i] = s[j] => i = j

(* The pages given to the allocator by kinit1 and kinit2.                  *)
Page == Entries(Low) \cup Entries(High)

(* What the proofs need of the constants: the boot processor is not one of *)
(* the others, and no page is given to the allocator twice.                *)
Ordinary ==
  /\ Boot \notin AP /\ Nil \notin Cpus /\ Nil \notin Page
  /\ Low \in Seq(Page) /\ High \in Seq(Page) /\ Distinct(Low) /\ Distinct(High)
  /\ Entries(Low) \cap Entries(High) = {}

(* The types of the variables.                                             *)
TypeOK ==
  /\ freelist \in Seq(Page) /\ high \in Seq(Page) /\ next \in [Cpus -> Seq(Page)]
  /\ use_lock \in BOOLEAN /\ lock \in Cpus \cup {Nil}
  /\ booted \in {"kinit1", "startothers", "kinit2", "userinit", "up"}
  /\ code \in Page \cup {Nil} /\ stack \in [AP -> Page \cup {Nil}]
  /\ sent \in SUBSET AP /\ started \in SUBSET sent
  /\ pc \in [Cpus -> {"idle", "acquire", "read", "write", "done"}]
  /\ r \in [Cpus -> Page \cup {Nil}] /\ call \in [Cpus -> {Nil, "kalloc", "kfree"}]
  /\ held \in [Cpus -> SUBSET Page]

(* Until the lock is in use only the boot processor calls the allocator,   *)
(* and then only who has the lock is between its read and its write.       *)
Locking ==
  /\ use_lock <=> booted \in {"userinit", "up"}
  /\ booted # "up" => \A c \in AP : pc[c] = "idle"
  /\ \A c \in Cpus : pc[c] = "acquire" => use_lock
  /\ use_lock => \A c \in Cpus : pc[c] \in {"read", "write"} => lock = c
  /\ \A c \in Cpus : pc[c] = "write" => next[c] = freelist

(* The page that a call is about: kfree has it until its write, kalloc     *)
(* from its write on.                                                      *)
Calls ==
  /\ \A c \in Cpus : pc[c] = "idle" => r[c] = Nil
  /\ \A c \in Cpus : pc[c] # "idle" => call[c] # Nil
  /\ \A c \in Cpus : pc[c] \in {"acquire", "read", "write"} => (r[c] = Nil <=> call[c] = "kalloc")
  /\ \A c \in Cpus : pc[c] = "done" /\ call[c] = "kfree" => r[c] = Nil
  /\ booted = "kinit1" => pc[Boot] = "idle"
  /\ booted = "kinit2" /\ pc[Boot] # "idle" => call[Boot] = "kfree"

(* startothers starts one processor at a time, and before the first        *)
(* process no page belongs to one.                                         *)
Starting ==
  /\ \A c \in AP : stack[c] # Nil => c \in sent
  /\ \A c \in started : stack[c] # Nil
  /\ \A c, d \in sent \ started : c = d
  /\ booted = "kinit1" => sent = {} /\ freelist = <<>>
  /\ booted # "up" => \A c \in Cpus : held[c] = {}
  /\ booted = "startothers" /\ pc[Boot] # "idle" => sent = started

(* Some processor has been told of a stack that it has not loaded yet.     *)
Pending == \E c \in sent : stack[c] = Nil

(* Page f is at a place of kind kind[f], of processor at[f] where the kind *)
(* has one for each processor.                                             *)
Placed(kind, at) ==
  \A f \in Page :
    /\ f \in Entries(freelist) <=> kind[f] = "list"
    /\ f \in Entries(high) <=> kind[f] = "high"
    /\ \A c \in Cpus : r[c] = f <=> kind[f] = "call" /\ at[f] = c
    /\ \A c \in AP : stack[c] = f <=> kind[f] = "stack" /\ at[f] = c
    /\ \A c \in Cpus : f \in held[c] <=> kind[f] = "process" /\ at[f] = c
    /\ Pending /\ code = f <=> kind[f] = "code"
    /\ booted = "kinit1" /\ f \in Entries(Low) <=> kind[f] = "none"
    /\ kind[f] = "stack" => at[f] \in AP

(* The kinds of places; a page that kinit1 has yet to free has none.       *)
Kind == {"list", "high", "call", "stack", "process", "code", "none"}

(* Every page has one place, and is there once.                            *)
Places ==
  /\ Distinct(freelist) /\ Distinct(high)
  /\ \E kind \in [Page -> Kind], at \in [Page -> Cpus] : Placed(kind, at)

(* The inductive invariant.                                                *)
IInv == TypeOK /\ Locking /\ Calls /\ Starting /\ Places
-----------------------------------------------------------------------------
(* A page put in front of a list.                                          *)
LEMMA Pushed ==
  ASSUME NEW S, NEW s \in Seq(S), NEW x \in S
  PROVE  /\ <<x>> \o s \in Seq(S) /\ Entries(<<x>> \o s) = Entries(s) \cup {x}
         /\ Distinct(s) /\ x \notin Entries(s) => Distinct(<<x>> \o s)
<1>. DEFINE t == <<x>> \o s
<1>1. t \in Seq(S) /\ Len(t) = Len(s) + 1 /\ Len(s) \in Nat
  OBVIOUS
<1>2. t[1] = x /\ \A i \in 1 .. Len(s) : t[i + 1] = s[i]
  OBVIOUS
<1>. HIDE DEF t
<1>3. \A i \in 1 .. Len(t) : i = 1 \/ (i - 1 \in 1 .. Len(s) /\ t[i] = s[i - 1])
  <2>. SUFFICES ASSUME NEW i \in 1 .. Len(t), i # 1 PROVE i - 1 \in 1 .. Len(s) /\ t[i] = s[i - 1]
    OBVIOUS
  <2>1. i - 1 \in 1 .. Len(s) /\ (i - 1) + 1 = i
    BY <1>1
  <2>. QED BY <2>1, <1>2
<1>4. Entries(t) = Entries(s) \cup {x}
  <2>1. ASSUME NEW y \in Entries(t) PROVE y \in Entries(s) \cup {x}
    <3>1. PICK i \in 1 .. Len(t) : y = t[i]
      BY Zenon, <2>1 DEF Entries
    <3>. QED BY Zenon, <3>1, <1>2, <1>3 DEF Entries
  <2>2. ASSUME NEW y \in Entries(s) PROVE y \in Entries(t)
    <3>1. PICK i \in 1 .. Len(s) : y = s[i]
      BY Zenon, <2>2 DEF Entries
    <3>2. i + 1 \in 1 .. Len(t) /\ t[i + 1] = y
      BY <3>1, <1>1, <1>2
    <3>. QED BY Zenon, <3>2 DEF Entries
  <2>3. x \in Entries(t)
    <3>1. 1 \in 1 .. Len(t)
      BY <1>1
    <3>. QED BY Zenon, <3>1, <1>2 DEF Entries
  <2>. QED BY Zenon, <2>1, <2>2, <2>3
<1>5. ASSUME Distinct(s), x \notin Entries(s) PROVE Distinct(t)
  <2>1. SUFFICES ASSUME NEW i \in 1 .. Len(t), NEW j \in 1 .. Len(t), t[i] = t[j] PROVE i = j
    BY Zenon DEF Distinct
  <2>2. ~ (i = 1 /\ j # 1) /\ ~ (i # 1 /\ j = 1)
    BY ZenonT(40), <2>1, <1>2, <1>3, <1>5 DEF Entries
  <2>3. CASE i # 1 /\ j # 1
    <3>1. i - 1 = j - 1
      BY Zenon, <2>1, <2>3, <1>3, <1>5 DEF Distinct
    <3>. QED BY <3>1, <1>1
  <2>. QED BY Zenon, <2>2, <2>3
<1>. QED BY Zenon, <1>1, <1>4, <1>5 DEF t

(* The first page taken from a list.                                       *)
LEMMA Popped ==
  ASSUME NEW S, NEW s \in Seq(S), s # <<>>, Distinct(s)
  PROVE  /\ Tail(s) \in Seq(S) /\ Distinct(Tail(s))
         /\ Head(s) \in S /\ Head(s) \in Entries(s) /\ Entries(Tail(s)) = Entries(s) \ {Head(s)}
<1>. DEFINE t == Tail(s)
<1>1. t \in Seq(S) /\ Len(t) = Len(s) - 1 /\ Len(s) \in Nat /\ Len(s) >= 1 /\ Head(s) = s[1]
  OBVIOUS
<1>2. \A i \in 1 .. Len(t) : t[i] = s[i + 1]
  OBVIOUS
<1>. HIDE DEF t
<1>3. 1 \in 1 .. Len(s) /\ s[1] \in S
  BY <1>1
<1>4. \A i \in 1 .. Len(t) : i + 1 \in 1 .. Len(s) /\ i + 1 # 1
  BY <1>1
<1>5. \A i \in 1 .. Len(s) : i # 1 => i - 1 \in 1 .. Len(t) /\ s[i] = t[i - 1]
  <2>. SUFFICES ASSUME NEW i \in 1 .. Len(s), i # 1 PROVE i - 1 \in 1 .. Len(t) /\ s[i] = t[i - 1]
    OBVIOUS
  <2>1. i - 1 \in 1 .. Len(t) /\ (i - 1) + 1 = i
    BY <1>1
  <2>. QED BY <2>1, <1>2
<1>6. Entries(t) = Entries(s) \ {s[1]}
  <2>1. ASSUME NEW y \in Entries(t) PROVE y \in Entries(s) /\ y # s[1]
    <3>1. PICK i \in 1 .. Len(t) : y = t[i]
      BY Zenon, <2>1 DEF Entries
    <3>. QED BY ZenonT(40), <3>1, <1>2, <1>3, <1>4 DEF Entries, Distinct
  <2>2. ASSUME NEW y \in Entries(s), y # s[1] PROVE y \in Entries(t)
    <3>1. PICK i \in 1 .. Len(s) : y = s[i]
      BY Zenon, <2>2 DEF Entries
    <3>2. i - 1 \in 1 .. Len(t) /\ t[i - 1] = y
      BY Zenon, <3>1, <2>2, <1>5
    <3>. QED BY Zenon, <3>2 DEF Entries
  <2>. QED BY Zenon, <2>1, <2>2
<1>7. Distinct(t)
  <2>1. SUFFICES ASSUME NEW i \in 1 .. Len(t), NEW j \in 1 .. Len(t), t[i] = t[j] PROVE i = j
    BY Zenon DEF Distinct
  <2>2. i + 1 = j + 1
    BY Zenon, <2>1, <1>2, <1>4 DEF Distinct
  <2>. QED BY <2>2, <1>1
<1>. QED BY Zenon, <1>1, <1>3, <1>6, <1>7 DEF Entries, t

(* Steps that move no page.                                                *)
LEMMA NothingMoved ==
  ASSUME Places, UNCHANGED <<freelist, high, r, stack, held>>,
         \A f \in Page : Pending' /\ code' = f <=> Pending /\ code = f,
         booted' = "kinit1" <=> booted = "kinit1"
  PROVE  Places'
<1>1. PICK kind \in [Page -> Kind], at \in [Page -> Cpus] : Placed(kind, at)
  BY Zenon DEF Places
<1>2. Placed(kind, at)'
  <2>1. Entries(freelist') = Entries(freelist) /\ Entries(high') = Entries(high)
    BY Zenon
  <2>. QED BY ZenonT(40), <2>1, <1>1 DEF Placed
<1>3. Distinct(freelist)' /\ Distinct(high)'
  BY Zenon DEF Places, Distinct
<1>. QED BY Zenon, <1>2, <1>3 DEF Places

(* Steps that have nothing to do with pages.                               *)
LEMMA PagesAside ==
  ASSUME Places, UNCHANGED <<freelist, high, r, stack, held, code, sent>>,
         booted' = "kinit1" <=> booted = "kinit1"
  PROVE  Places'
<1>1. Pending' <=> Pending
  BY Zenon DEF Pending
<1>. QED BY Zenon, <1>1, NothingMoved

(* acquire waits for the lock.                                             *)
LEMMA Acquires ==
  ASSUME Ordinary, IInv, NEW c \in Cpus, acquire(c)
  PROVE  IInv'
<1>. TypeOK /\ Locking /\ Calls /\ Starting /\ Places
  BY Zenon DEF IInv
<1>1. /\ pc[c] = "acquire" /\ lock = Nil /\ lock' = c /\ pc' = [pc EXCEPT ![c] = "read"]
      /\ UNCHANGED <<freelist, use_lock, booted, high, code, sent, stack, started, r, next, call,
                     held>>
  BY Zenon DEF acquire, Goto, aps
<1>2. pc'[c] = "read" /\ \A d \in Cpus : d # c => pc'[d] = pc[d]
  BY Zenon, <1>1 DEF TypeOK
<1>3. use_lock /\ booted \in {"userinit", "up"}
  BY Zenon, <1>1 DEF Locking
<1>4. TypeOK'
  BY Zenon, <1>1 DEF TypeOK
<1>5. Locking'
  <2>1. \A d \in Cpus : d # c => pc[d] \notin {"read", "write"}
    BY Zenon, <1>1, <1>3 DEF Locking, Ordinary
  <2>2. \A d \in AP : pc[d] = "idle" => pc'[d] = "idle"
    BY Zenon, <1>1, <1>2 DEF Cpus
  <2>. QED BY Zenon, <2>1, <2>2, <1>1, <1>2, <1>3 DEF Locking
<1>6. Calls'
  BY ZenonT(40), <1>1, <1>2, <1>3 DEF Calls, Cpus
<1>7. Starting'
  BY Zenon, <1>1, <1>3 DEF Starting
<1>8. Places'
  BY Zenon, <1>1, PagesAside
<1>. QED BY Zenon, <1>4, <1>5, <1>6, <1>7, <1>8 DEF IInv

(* kalloc and kfree read the list; nobody else writes it until they do.    *)
LEMMA Reads ==
  ASSUME Ordinary, IInv, NEW c \in Cpus, read(c)
  PROVE  IInv'
<1>. TypeOK /\ Locking /\ Calls /\ Starting /\ Places
  BY Zenon DEF IInv
<1>1. /\ pc[c] = "read" /\ pc' = [pc EXCEPT ![c] = "write"] /\ next' = [next EXCEPT ![c] = freelist]
      /\ UNCHANGED <<freelist, use_lock, lock, booted, high, code, sent, stack, started, r, call,
                     held>>
  BY Zenon DEF read, Goto, aps, kmem
<1>2. pc'[c] = "write" /\ \A d \in Cpus : d # c => pc'[d] = pc[d] /\ next'[d] = next[d]
  BY Zenon, <1>1 DEF TypeOK
<1>3. next'[c] = freelist
  BY Zenon, <1>1 DEF TypeOK
<1>4. TypeOK'
  BY Zenon, <1>1 DEF TypeOK
<1>5. Locking'
  <2>2. \A d \in AP : pc[d] = "idle" => pc'[d] = "idle"
    BY Zenon, <1>1, <1>2 DEF Cpus
  <2>. QED BY Zenon, <2>2, <1>1, <1>2, <1>3 DEF Locking
<1>6. Calls'
  BY ZenonT(40), <1>1, <1>2 DEF Calls, Cpus
<1>7. Starting'
  <2>1. pc'[Boot] # "idle" => pc[Boot] # "idle"
    BY Zenon, <1>1, <1>2 DEF Cpus
  <2>. QED BY Zenon, <2>1, <1>1 DEF Starting
<1>8. Places'
  BY Zenon, <1>1, PagesAside
<1>. QED BY Zenon, <1>4, <1>5, <1>6, <1>7, <1>8 DEF IInv

(* Page f goes to a place of kind k, at c, and no other page moves.        *)
Moves(f, k, c) ==
  /\ booted # "kinit1" /\ booted' # "kinit1"
  /\ \A g \in Page : g # f =>
       /\ g \in Entries(freelist') <=> g \in Entries(freelist)
       /\ g \in Entries(high') <=> g \in Entries(high)
       /\ \A d \in Cpus : r'[d] = g <=> r[d] = g
       /\ \A d \in AP : stack'[d] = g <=> stack[d] = g
       /\ \A d \in Cpus : g \in held'[d] <=> g \in held[d]
       /\ Pending' /\ code' = g <=> Pending /\ code = g
  /\ f \in Entries(freelist') <=> k = "list"
  /\ f \in Entries(high') <=> k = "high"
  /\ \A d \in Cpus : r'[d] = f <=> k = "call" /\ c = d
  /\ \A d \in AP : stack'[d] = f <=> k = "stack" /\ c = d
  /\ \A d \in Cpus : f \in held'[d] <=> k = "process" /\ c = d
  /\ Pending' /\ code' = f <=> k = "code"
  /\ k = "stack" => c \in AP

(* If one page moves, every page still has one place.                      *)
LEMMA OneMoved ==
  ASSUME Places, Distinct(freelist'), Distinct(high'),
         NEW f \in Page, NEW k \in Kind \ {"none"}, NEW c \in Cpus, Moves(f, k, c)
  PROVE  Places'
<1>1. PICK kind \in [Page -> Kind], at \in [Page -> Cpus] : Placed(kind, at)
  BY Zenon DEF Places
<1>2. PICK k2 \in [Page -> Kind] : k2[f] = k /\ \A g \in Page : g # f => k2[g] = kind[g]
  <2>. DEFINE k2 == [kind EXCEPT ![f] = k]
  <2>1. k2 \in [Page -> Kind] /\ k2[f] = k /\ \A g \in Page : g # f => k2[g] = kind[g]
    BY Zenon
  <2>. QED BY Zenon, <2>1
<1>3. PICK a2 \in [Page -> Cpus] : a2[f] = c /\ \A g \in Page : g # f => a2[g] = at[g]
  <2>. DEFINE a2 == [at EXCEPT ![f] = c]
  <2>1. a2 \in [Page -> Cpus] /\ a2[f] = c /\ \A g \in Page : g # f => a2[g] = at[g]
    BY Zenon
  <2>. QED BY Zenon, <2>1
<1>4. k # "none"
  BY Zenon
<1>5. Placed(k2, a2)'
  <2>. SUFFICES ASSUME NEW g \in Page
                PROVE  /\ g \in Entries(freelist') <=> k2[g] = "list"
                       /\ g \in Entries(high') <=> k2[g] = "high"
                       /\ \A d \in Cpus : r'[d] = g <=> k2[g] = "call" /\ a2[g] = d
                       /\ \A d \in AP : stack'[d] = g <=> k2[g] = "stack" /\ a2[g] = d
                       /\ \A d \in Cpus : g \in held'[d] <=> k2[g] = "process" /\ a2[g] = d
                       /\ Pending' /\ code' = g <=> k2[g] = "code"
                       /\ booted' = "kinit1" /\ g \in Entries(Low) <=> k2[g] = "none"
                       /\ k2[g] = "stack" => a2[g] \in AP
    BY Zenon DEF Placed
  <2>1. CASE g = f
    BY Zenon, <2>1, <1>2, <1>3, <1>4 DEF Moves
  <2>2. CASE g # f
    <3>1. k2[g] = kind[g] /\ a2[g] = at[g]
      BY Zenon, <2>2, <1>2, <1>3
    <3>2. /\ g \in Entries(freelist) <=> kind[g] = "list"
          /\ g \in Entries(high) <=> kind[g] = "high"
          /\ \A d \in Cpus : r[d] = g <=> kind[g] = "call" /\ at[g] = d
          /\ \A d \in AP : stack[d] = g <=> kind[g] = "stack" /\ at[g] = d
          /\ \A d \in Cpus : g \in held[d] <=> kind[g] = "process" /\ at[g] = d
          /\ Pending /\ code = g <=> kind[g] = "code"
          /\ booted = "kinit1" /\ g \in Entries(Low) <=> kind[g] = "none"
          /\ kind[g] = "stack" => at[g] \in AP
      BY Zenon, <1>1 DEF Placed
    <3>3. /\ g \in Entries(freelist') <=> g \in Entries(freelist)
          /\ g \in Entries(high') <=> g \in Entries(high)
          /\ \A d \in Cpus : r'[d] = g <=> r[d] = g
          /\ \A d \in AP : stack'[d] = g <=> stack[d] = g
          /\ \A d \in Cpus : g \in held'[d] <=> g \in held[d]
          /\ Pending' /\ code' = g <=> Pending /\ code = g
          /\ booted # "kinit1" /\ booted' # "kinit1"
      BY Zenon, <2>2 DEF Moves
    <3>. QED BY Zenon, <3>1, <3>2, <3>3
  <2>. QED BY Zenon, <2>1, <2>2
<1>. QED BY Zenon, <1>5 DEF Places

(* A page is in one place only.                                            *)
LEMMA OnePlace ==
  ASSUME Places, NEW f \in Page
  PROVE  /\ \A c, d \in Cpus : r[c] = f /\ r[d] = f => c = d
         /\ \A c, d \in Cpus : f \in held[c] /\ f \in held[d] => c = d
         /\ \A c, d \in AP : stack[c] = f /\ stack[d] = f => c = d
         /\ f \in Entries(freelist) => /\ f \notin Entries(high) /\ \A c \in Cpus : r[c] # f /\ f \notin held[c]
                                     /\ (\A c \in AP : stack[c] # f) /\ ~ (Pending /\ code = f)
         /\ f \in Entries(high) => /\ \A c \in Cpus : r[c] # f /\ f \notin held[c]
                                 /\ (\A c \in AP : stack[c] # f) /\ ~ (Pending /\ code = f)
         /\ \A c \in Cpus : r[c] = f => /\ \A d \in Cpus : f \notin held[d]
                                        /\ (\A d \in AP : stack[d] # f) /\ ~ (Pending /\ code = f)
         /\ \A c \in Cpus : f \in held[c] => (\A d \in AP : stack[d] # f) /\ ~ (Pending /\ code = f)
         /\ \A c \in AP : stack[c] = f => ~ (Pending /\ code = f)
         /\ booted # "kinit1" => \/ f \in Entries(freelist) \/ f \in Entries(high)
                                 \/ \E c \in Cpus : r[c] = f \/ f \in held[c]
                                 \/ (\E c \in AP : stack[c] = f) \/ (Pending /\ code = f)
<1>1. PICK kind \in [Page -> Kind], at \in [Page -> Cpus] : Placed(kind, at)
  BY Zenon DEF Places
<1>2. /\ f \in Entries(freelist) <=> kind[f] = "list"
      /\ f \in Entries(high) <=> kind[f] = "high"
      /\ \A d \in Cpus : r[d] = f <=> kind[f] = "call" /\ at[f] = d
      /\ \A d \in AP : stack[d] = f <=> kind[f] = "stack" /\ at[f] = d
      /\ \A d \in Cpus : f \in held[d] <=> kind[f] = "process" /\ at[f] = d
      /\ Pending /\ code = f <=> kind[f] = "code"
      /\ booted = "kinit1" /\ f \in Entries(Low) <=> kind[f] = "none"
      /\ kind[f] = "stack" => at[f] \in AP
  BY Zenon, <1>1 DEF Placed
<1>3. kind[f] \in Kind /\ at[f] \in Cpus
  BY Zenon
<1>4. booted # "kinit1" => \/ f \in Entries(freelist) \/ f \in Entries(high)
                           \/ \E c \in Cpus : r[c] = f \/ f \in held[c]
                           \/ (\E c \in AP : stack[c] = f) \/ (Pending /\ code = f)
  <2>1. kind[f] \in {"list", "high", "call", "stack", "process", "code", "none"}
    BY Zenon, <1>3 DEF Kind
  <2>. QED BY Zenon, <2>1, <1>2, <1>3
<1>. QED BY Zenon, <1>2, <1>4

(* Only one processor at a time is between its read and its write.         *)
LEMMA Alone ==
  ASSUME Ordinary, TypeOK, Locking, NEW c \in Cpus, pc[c] \in {"read", "write"},
         NEW d \in Cpus, d # c
  PROVE  pc[d] \notin {"read", "write"}
<1>1. CASE use_lock
  BY Zenon, <1>1 DEF Locking
<1>2. CASE ~ use_lock
  <2>1. \A e \in AP : pc[e] = "idle"
    BY Zenon, <1>2 DEF Locking
  <2>. QED BY Zenon, <2>1 DEF Cpus
<1>. QED BY Zenon, <1>1, <1>2

(* kfree puts its page into the list, kalloc takes one out of it, and both *)
(* release the lock.                                                       *)
LEMMA Writes ==
  ASSUME Ordinary, IInv, NEW c \in Cpus, write(c)
  PROVE  IInv'
<1>. TypeOK /\ Locking /\ Calls /\ Starting /\ Places
  BY Zenon DEF IInv
<1>1. /\ pc[c] = "write" /\ pc' = [pc EXCEPT ![c] = "done"] /\ next' = [next EXCEPT ![c] = <<>>]
      /\ lock' = (IF lock = c THEN Nil ELSE lock)
      /\ UNCHANGED <<use_lock, booted, high, code, sent, stack, started, call, held>>
  BY Zenon DEF write, Goto, aps
<1>2. /\ pc'[c] = "done" /\ \A d \in Cpus : d # c => pc'[d] = pc[d] /\ next'[d] = next[d]
      /\ next[c] = freelist
  BY Zenon, <1>1 DEF TypeOK, Locking
<1>3. \A d \in Cpus : d # c => pc[d] \notin {"read", "write"}
  BY Zenon, <1>1, Alone
<1>4. \/ call[c] = "kfree" /\ freelist' = <<r[c]>> \o freelist /\ r' = [r EXCEPT ![c] = Nil]
      \/ /\ call[c] = "kalloc" /\ freelist # <<>>
         /\ freelist' = Tail(freelist) /\ r' = [r EXCEPT ![c] = Head(freelist)]
      \/ call[c] = "kalloc" /\ freelist' = freelist /\ r' = r
  BY Zenon, <1>2 DEF write
<1>5. \A d \in Cpus : d # c => r'[d] = r[d]
  BY Zenon, <1>4 DEF TypeOK
<1>6. freelist \in Seq(Page) /\ Distinct(freelist) /\ <<>> \in Seq(Page)
  BY DEF TypeOK, Places
<1>7. freelist' \in Seq(Page) /\ r' \in [Cpus -> Page \cup {Nil}] /\ Places'
  <2>1. Distinct(high') /\ (Pending' <=> Pending) /\ booted # "kinit1"
    BY Zenon, <1>1 DEF Places, Pending, Calls, Locking, Cpus
  <2>2. CASE call[c] = "kfree" /\ freelist' = <<r[c]>> \o freelist /\ r' = [r EXCEPT ![c] = Nil]
    <3>1. PICK f \in Page : f = r[c]
      BY Zenon, <2>2, <1>1 DEF Calls, TypeOK
    <3>2. f \notin Entries(freelist)
      BY Zenon, <3>1, OnePlace
    <3>3. freelist' \in Seq(Page) /\ Entries(freelist') = Entries(freelist) \cup {f} /\ Distinct(freelist')
      <4>1. freelist' = <<f>> \o freelist
        BY <2>2, <3>1
      <4>. QED BY ZenonT(40), <4>1, <3>2, <1>6, Pushed
    <3>4. r' \in [Cpus -> Page \cup {Nil}] /\ r'[c] = Nil
      BY Zenon, <2>2 DEF TypeOK
    <3>5. Moves(f, "list", c)
      <4>1. \A g \in Page : g # f => \A d \in Cpus : r'[d] = g <=> r[d] = g
        BY Zenon, <3>1, <3>4, <1>5 DEF Ordinary
      <4>2. \A d \in Cpus : r'[d] # f
        BY Zenon, <3>1, <3>4, <1>5, OnePlace DEF Ordinary
      <4>. QED BY Zenon, <4>1, <4>2, <3>1, <3>3, <2>1, <1>1, OnePlace DEF Moves
    <3>6. Places'
      BY Zenon, <3>3, <3>5, <2>1, OneMoved DEF Kind
    <3>. QED BY Zenon, <3>3, <3>4, <3>6
  <2>3. CASE /\ call[c] = "kalloc" /\ freelist # <<>>
             /\ freelist' = Tail(freelist) /\ r' = [r EXCEPT ![c] = Head(freelist)]
    <3>1. PICK f \in Page : f = Head(freelist)
      BY Zenon, <2>3, <1>6, Popped
    <3>2. f \in Entries(freelist) /\ r[c] = Nil
      BY Zenon, <2>3, <3>1, <1>1, <1>6, Popped DEF Calls
    <3>3. freelist' \in Seq(Page) /\ Entries(freelist') = Entries(freelist) \ {f} /\ Distinct(freelist')
      BY Zenon, <2>3, <3>1, <1>6, Popped
    <3>4. r' \in [Cpus -> Page \cup {Nil}] /\ r'[c] = f
      BY Zenon, <2>3, <3>1 DEF TypeOK
    <3>5. Moves(f, "call", c)
      <4>1. \A g \in Page : g # f => \A d \in Cpus : r'[d] = g <=> r[d] = g
        BY Zenon, <3>2, <3>4, <1>5 DEF Ordinary
      <4>2. \A d \in Cpus : r'[d] = f <=> c = d
        BY Zenon, <3>2, <3>4, <1>5, OnePlace
      <4>. QED BY Zenon, <4>1, <4>2, <3>2, <3>3, <2>1, <1>1, OnePlace DEF Moves
    <3>6. Places'
      BY Zenon, <3>3, <3>5, <2>1, OneMoved DEF Kind
    <3>. QED BY Zenon, <3>3, <3>4, <3>6
  <2>4. CASE call[c] = "kalloc" /\ freelist' = freelist /\ r' = r
    BY Zenon, <2>4, <1>1, <1>6, PagesAside DEF TypeOK
  <2>. QED BY Zenon, <2>2, <2>3, <2>4, <1>4
<1>8. TypeOK'
  <2>1. lock' \in Cpus \cup {Nil}
    BY Zenon, <1>1 DEF TypeOK
  <2>2. next' \in [Cpus -> Seq(Page)] /\ pc' \in [Cpus -> {"idle", "acquire", "read", "write", "done"}]
    BY Zenon, <1>1, <1>6 DEF TypeOK
  <2>. QED BY Zenon, <2>1, <2>2, <1>1, <1>7 DEF TypeOK
<1>9. Locking'
  <2>1. \A d \in AP : pc[d] = "idle" => pc'[d] = "idle"
    BY Zenon, <1>1, <1>2 DEF Cpus
  <2>. QED BY ZenonT(40), <2>1, <1>1, <1>2, <1>3 DEF Locking
<1>10. Calls'
  <2>1. call[c] = "kfree" => r'[c] = Nil
    BY Zenon, <1>4 DEF TypeOK
  <2>2. booted = "kinit1" => pc'[Boot] = "idle"
    BY Zenon, <1>1, <1>2 DEF Calls, Cpus
  <2>3. pc'[Boot] # "idle" => pc[Boot] # "idle"
    BY Zenon, <1>1, <1>2 DEF Cpus
  <2>4. \A d \in Cpus : d # c => r'[d] = r[d] /\ pc'[d] = pc[d] /\ call'[d] = call[d]
    BY Zenon, <1>1, <1>2, <1>5
  <2>5. pc'[c] = "done" /\ call'[c] = call[c] /\ call[c] # Nil
    BY Zenon, <1>1, <1>2 DEF Calls
  <2>6. \A d \in Cpus :
          /\ pc'[d] = "idle" => r'[d] = Nil
          /\ pc'[d] # "idle" => call'[d] # Nil
          /\ pc'[d] \in {"acquire", "read", "write"} => (r'[d] = Nil <=> call'[d] = "kalloc")
          /\ pc'[d] = "done" /\ call'[d] = "kfree" => r'[d] = Nil
    <3>. TAKE d \in Cpus
    <3>1. CASE d = c
      BY Zenon, <3>1, <2>1, <2>5
    <3>2. CASE d # c
      BY Zenon, <3>2, <2>4 DEF Calls
    <3>. QED BY Zenon, <3>1, <3>2
  <2>. QED BY Zenon, <2>2, <2>3, <2>6, <1>1 DEF Calls
<1>11. Starting'
  <2>1. pc'[Boot] # "idle" => pc[Boot] # "idle"
    BY Zenon, <1>1, <1>2 DEF Cpus
  <2>2. booted # "kinit1"
    BY Zenon, <1>1 DEF Calls, Locking, Cpus
  <2>. QED BY Zenon, <2>1, <2>2, <1>1 DEF Starting
<1>. QED BY Zenon, <1>7, <1>8, <1>9, <1>10, <1>11 DEF IInv

(* A call of kalloc or kfree begins.                                       *)
LEMMA Enters ==
  ASSUME Ordinary, TypeOK, Locking, Calls, NEW c \in Cpus, NEW what \in {"kalloc", "kfree"},
         NEW page \in Page \cup {Nil}, page = Nil <=> what = "kalloc", Enter(c, what, page),
         booted' = booted, c = Boot \/ booted = "up", booted # "kinit1",
         booted = "kinit2" => what = "kfree"
  PROVE  /\ UNCHANGED <<freelist, use_lock, lock, next>> /\ Locking' /\ Calls'
         /\ pc' \in [Cpus -> {"idle", "acquire", "read", "write", "done"}]
         /\ r' \in [Cpus -> Page \cup {Nil}] /\ call' \in [Cpus -> {Nil, "kalloc", "kfree"}]
         /\ pc[c] = "idle" /\ r[c] = Nil /\ r'[c] = page /\ \A d \in Cpus : d # c => r'[d] = r[d]
         /\ page = Nil => r' = r
<1>1. /\ pc[c] = "idle" /\ pc' = [pc EXCEPT ![c] = IF use_lock THEN "acquire" ELSE "read"]
      /\ call' = [call EXCEPT ![c] = what] /\ r' = [r EXCEPT ![c] = page]
      /\ UNCHANGED <<freelist, use_lock, lock, next>>
  BY Zenon DEF Enter, Goto, kmem
<1>2. /\ pc'[c] = (IF use_lock THEN "acquire" ELSE "read") /\ call'[c] = what /\ r'[c] = page
      /\ \A d \in Cpus : d # c => pc'[d] = pc[d] /\ call'[d] = call[d] /\ r'[d] = r[d]
  BY Zenon, <1>1 DEF TypeOK
<1>3. /\ pc' \in [Cpus -> {"idle", "acquire", "read", "write", "done"}]
      /\ r' \in [Cpus -> Page \cup {Nil}] /\ call' \in [Cpus -> {Nil, "kalloc", "kfree"}]
  BY Zenon, <1>1 DEF TypeOK
<1>4. r[c] = Nil
  BY Zenon, <1>1 DEF Calls
<1>5. Locking'
  <2>1. booted # "up" => \A d \in AP : pc'[d] = "idle"
    BY Zenon, <1>2 DEF Locking, Ordinary, Cpus
  <2>2. \A d \in Cpus :
          /\ pc'[d] = "acquire" => use_lock
          /\ use_lock /\ pc'[d] \in {"read", "write"} => lock = d
          /\ pc'[d] = "write" => next[d] = freelist
    <3>. TAKE d \in Cpus
    <3>1. CASE d = c
      <4>1. CASE use_lock
        BY Zenon, <4>1, <3>1, <1>2
      <4>2. CASE ~ use_lock
        BY Zenon, <4>2, <3>1, <1>2
      <4>. QED BY Zenon, <4>1, <4>2
    <3>2. CASE d # c
      BY Zenon, <3>2, <1>2 DEF Locking
    <3>. QED BY Zenon, <3>1, <3>2
  <2>. QED BY Zenon, <2>1, <2>2, <1>1 DEF Locking
<1>6. Calls'
  <2>1. pc'[c] \in {"acquire", "read"} /\ what # Nil
    BY Zenon, <1>2 DEF Nil
  <2>2. \A d \in Cpus :
          /\ pc'[d] = "idle" => r'[d] = Nil
          /\ pc'[d] # "idle" => call'[d] # Nil
          /\ pc'[d] \in {"acquire", "read", "write"} => (r'[d] = Nil <=> call'[d] = "kalloc")
          /\ pc'[d] = "done" /\ call'[d] = "kfree" => r'[d] = Nil
    <3>. TAKE d \in Cpus
    <3>1. CASE d = c
      BY Zenon, <3>1, <2>1, <1>2
    <3>2. CASE d # c
      BY ZenonT(40), <3>2, <1>2 DEF Calls
    <3>. QED BY Zenon, <3>1, <3>2
  <2>3. booted = "kinit2" => call'[Boot] = "kfree"
    BY Zenon, <1>2
  <2>. QED BY Zenon, <2>2, <2>3 DEF Calls
<1>7. page = Nil => r' = r
  BY <1>1, <1>4 DEF TypeOK
<1>. QED BY Zenon, <1>1, <1>2, <1>3, <1>4, <1>5, <1>6, <1>7

(* A call returns.                                                         *)
LEMMA Leaves ==
  ASSUME Ordinary, TypeOK, Locking, Calls, NEW c \in Cpus, Return(c),
         booted' = booted \/ (booted = "userinit" /\ booted' = "up"), booted # "kinit1"
  PROVE  /\ UNCHANGED <<freelist, use_lock, lock, next>> /\ Locking' /\ Calls'
         /\ pc' \in [Cpus -> {"idle", "acquire", "read", "write", "done"}]
         /\ r' \in [Cpus -> Page \cup {Nil}] /\ call' \in [Cpus -> {Nil, "kalloc", "kfree"}]
         /\ pc[c] = "done" /\ pc'[c] = "idle" /\ r'[c] = Nil /\ \A d \in Cpus : d # c => r'[d] = r[d]
         /\ r[c] = Nil => r' = r
<1>1. /\ pc[c] = "done" /\ pc' = [pc EXCEPT ![c] = "idle"]
      /\ call' = [call EXCEPT ![c] = Nil] /\ r' = [r EXCEPT ![c] = Nil]
      /\ UNCHANGED <<freelist, use_lock, lock, next>>
  BY Zenon DEF Return, Goto, kmem
<1>2. /\ pc'[c] = "idle" /\ call'[c] = Nil /\ r'[c] = Nil
      /\ \A d \in Cpus : d # c => pc'[d] = pc[d] /\ call'[d] = call[d] /\ r'[d] = r[d]
  BY Zenon, <1>1 DEF TypeOK
<1>3. /\ pc' \in [Cpus -> {"idle", "acquire", "read", "write", "done"}]
      /\ r' \in [Cpus -> Page \cup {Nil}] /\ call' \in [Cpus -> {Nil, "kalloc", "kfree"}]
  BY Zenon, <1>1 DEF TypeOK
<1>4. Locking'
  <2>1. booted' # "up" => \A d \in AP : pc'[d] = "idle"
    BY Zenon, <1>2 DEF Locking, Cpus
  <2>. QED BY Zenon, <2>1, <1>1, <1>2 DEF Locking
<1>5. Calls'
  <2>1. \A d \in Cpus :
          /\ pc'[d] = "idle" => r'[d] = Nil
          /\ pc'[d] # "idle" => call'[d] # Nil
          /\ pc'[d] \in {"acquire", "read", "write"} => (r'[d] = Nil <=> call'[d] = "kalloc")
          /\ pc'[d] = "done" /\ call'[d] = "kfree" => r'[d] = Nil
    <3>. TAKE d \in Cpus
    <3>1. CASE d = c
      BY Zenon, <3>1, <1>2
    <3>2. CASE d # c
      BY ZenonT(40), <3>2, <1>2 DEF Calls
    <3>. QED BY Zenon, <3>1, <3>2
  <2>2. pc'[Boot] # "idle" => pc[Boot] # "idle" /\ call'[Boot] = call[Boot]
    BY Zenon, <1>2 DEF Cpus
  <2>. QED BY Zenon, <2>1, <2>2 DEF Calls
<1>6. r[c] = Nil => r' = r
  BY <1>1 DEF TypeOK
<1>. QED BY Zenon, <1>1, <1>2, <1>3, <1>4, <1>5, <1>6

(* kinit1 frees the pages below 4 MB.                                      *)
LEMMA FreesLow ==
  ASSUME Ordinary, IInv, kinit1
  PROVE  IInv'
<1>. TypeOK /\ Locking /\ Calls /\ Starting /\ Places
  BY Zenon DEF IInv
<1>1. /\ booted = "kinit1" /\ freelist' = Low /\ booted' = "startothers"
      /\ UNCHANGED <<use_lock, lock, high, code, sent, stack, started, pc, r, next, call, held>>
  BY Zenon DEF kinit1, aps
<1>2. TypeOK'
  BY Zenon, <1>1 DEF TypeOK, Ordinary
<1>3. \A c \in Cpus : pc[c] = "idle"
  BY Zenon, <1>1 DEF Locking, Calls, Cpus
<1>4. Locking' /\ Calls'
  BY Zenon, <1>1, <1>3 DEF Locking, Calls
<1>5. Starting'
  BY Zenon, <1>1, <1>3 DEF Starting, Cpus
<1>6. Places'
  <2>1. PICK kind \in [Page -> Kind], at \in [Page -> Cpus] : Placed(kind, at)
    BY Zenon DEF Places
  <2>2. PICK k2 \in [Page -> Kind] : \A f \in Page : k2[f] = IF f \in Entries(Low) THEN "list" ELSE kind[f]
    <3>. DEFINE k2 == [f \in Page |-> IF f \in Entries(Low) THEN "list" ELSE kind[f]]
    <3>1. k2 \in [Page -> Kind] /\ \A f \in Page : k2[f] = IF f \in Entries(Low) THEN "list" ELSE kind[f]
      BY Zenon DEF Kind
    <3>. QED BY Zenon, <3>1
  <2>3. Entries(<<>>) = {} /\ freelist = <<>>
    BY <1>1 DEF Entries, Starting
  <2>4. Pending' <=> Pending
    BY Zenon, <1>1 DEF Pending
  <2>5. Entries(freelist') = Entries(Low) /\ Entries(high') = Entries(high) /\ Entries(freelist) = {}
    BY Zenon, <2>3, <1>1
  <2>6. Placed(k2, at)'
    <3>. SUFFICES ASSUME NEW f \in Page
                  PROVE  /\ f \in Entries(freelist') <=> k2[f] = "list"
                         /\ f \in Entries(high') <=> k2[f] = "high"
                         /\ \A d \in Cpus : r'[d] = f <=> k2[f] = "call" /\ at[f] = d
                         /\ \A d \in AP : stack'[d] = f <=> k2[f] = "stack" /\ at[f] = d
                         /\ \A d \in Cpus : f \in held'[d] <=> k2[f] = "process" /\ at[f] = d
                         /\ Pending' /\ code' = f <=> k2[f] = "code"
                         /\ booted' = "kinit1" /\ f \in Entries(Low) <=> k2[f] = "none"
                         /\ k2[f] = "stack" => at[f] \in AP
      BY Zenon DEF Placed
    <3>1. /\ f \in Entries(freelist) <=> kind[f] = "list"
          /\ f \in Entries(high) <=> kind[f] = "high"
          /\ \A d \in Cpus : r[d] = f <=> kind[f] = "call" /\ at[f] = d
          /\ \A d \in AP : stack[d] = f <=> kind[f] = "stack" /\ at[f] = d
          /\ \A d \in Cpus : f \in held[d] <=> kind[f] = "process" /\ at[f] = d
          /\ Pending /\ code = f <=> kind[f] = "code"
          /\ f \in Entries(Low) <=> kind[f] = "none"
          /\ kind[f] = "stack" => at[f] \in AP
      BY Zenon, <2>1, <1>1 DEF Placed
    <3>2. CASE f \in Entries(Low)
      <4>1. kind[f] = "none" /\ k2[f] = "list"
        BY Zenon, <3>1, <3>2, <2>2
      <4>. QED BY Zenon, <4>1, <3>1, <3>2, <2>4, <2>5, <1>1
    <3>3. CASE f \notin Entries(Low)
      <4>1. kind[f] # "none" /\ k2[f] = kind[f] /\ kind[f] # "list"
        BY Zenon, <3>1, <3>3, <2>2, <2>5
      <4>2. f \notin Entries(freelist') /\ (f \in Entries(high') <=> f \in Entries(high))
        BY Zenon, <3>3, <2>5
      <4>3. UNCHANGED <<r, stack, held, code>> /\ booted' # "kinit1"
        BY Zenon, <1>1
      <4>. QED BY <4>1, <4>2, <4>3, <3>1, <3>3, <2>4
    <3>. QED BY Zenon, <3>2, <3>3
  <2>7. Distinct(freelist') /\ Distinct(high')
    BY Zenon, <1>1 DEF Places, Ordinary
  <2>. QED BY Zenon, <2>6, <2>7 DEF Places
<1>. QED BY Zenon, <1>2, <1>4, <1>5, <1>6 DEF IInv

(* startothers takes a stack, and tells one more processor of it when all  *)
(* that it told before have loaded theirs.                                 *)
LEMMA StartsOthers ==
  ASSUME Ordinary, IInv, startothers
  PROVE  IInv'
<1>. TypeOK /\ Locking /\ Calls /\ Starting /\ Places
  BY Zenon DEF IInv
<1>1. booted = "startothers" /\ UNCHANGED <<booted, high, held>> /\ Boot \in Cpus
  BY Zenon DEF startothers, Cpus
<1>2. CASE Enter(Boot, "kalloc", Nil) /\ sent # AP /\ Waited /\ UNCHANGED aps
  <2>1. /\ UNCHANGED <<freelist, use_lock, lock, next>> /\ Locking' /\ Calls'
        /\ pc' \in [Cpus -> {"idle", "acquire", "read", "write", "done"}]
        /\ r' \in [Cpus -> Page \cup {Nil}] /\ call' \in [Cpus -> {Nil, "kalloc", "kfree"}]
        /\ r' = r
    BY Zenon, <1>1, <1>2, Enters
  <2>2. UNCHANGED <<code, sent, stack, started>> /\ sent = started
    BY Zenon, <1>2 DEF aps, Waited
  <2>3. TypeOK'
    BY Zenon, <2>1, <2>2, <1>1 DEF TypeOK
  <2>4. Starting'
    BY Zenon, <2>1, <2>2, <1>1 DEF Starting
  <2>5. Places'
    BY Zenon, <2>1, <2>2, <1>1, PagesAside
  <2>. QED BY Zenon, <2>1, <2>3, <2>4, <2>5 DEF IInv
<1>3. CASE /\ Return(Boot) /\ code' = r[Boot]
           /\ \E c \in AP \ sent : sent' = sent \cup {c}
           /\ UNCHANGED <<stack, started>>
  <2>1. PICK c \in AP \ sent : sent' = sent \cup {c}
    BY Zenon, <1>3
  <2>2. /\ UNCHANGED <<freelist, use_lock, lock, next>> /\ Locking' /\ Calls'
        /\ pc' \in [Cpus -> {"idle", "acquire", "read", "write", "done"}]
        /\ r' \in [Cpus -> Page \cup {Nil}] /\ call' \in [Cpus -> {Nil, "kalloc", "kfree"}]
        /\ pc[Boot] = "done" /\ pc'[Boot] = "idle"
        /\ r'[Boot] = Nil /\ \A d \in Cpus : d # Boot => r'[d] = r[d]
        /\ r[Boot] = Nil => r' = r
    BY Zenon, <1>1, <1>3, Leaves
  <2>3. sent = started /\ ~ Pending /\ stack[c] = Nil /\ Pending'
    BY Zenon, <2>1, <2>2, <1>1, <1>3 DEF Starting, Pending
  <2>4. TypeOK'
    BY Zenon, <2>1, <2>2, <1>1, <1>3 DEF TypeOK
  <2>5. Starting'
    BY Zenon, <2>1, <2>2, <2>3, <1>1, <1>3 DEF Starting
  <2>6. Places'
    <3>1. CASE r[Boot] = Nil
      BY Zenon, <3>1, <2>2, <2>3, <1>1, <1>3, NothingMoved DEF Ordinary
    <3>2. CASE r[Boot] # Nil
      <4>1. PICK f \in Page : f = r[Boot]
        BY Zenon, <3>2, <1>1 DEF TypeOK
      <4>2. \A g \in Page : g # f => \A d \in Cpus : r'[d] = g <=> r[d] = g
        BY Zenon, <4>1, <2>2 DEF Ordinary
      <4>3. \A d \in Cpus : r'[d] # f
        <5>1. \A d \in Cpus : r[d] = f => d = Boot
          BY Zenon, <4>1, <1>1, OnePlace
        <5>. QED BY Zenon, <5>1, <2>2 DEF Ordinary
      <4>4. Moves(f, "code", Boot)
        BY ZenonT(40), <4>1, <4>2, <4>3, <2>2, <2>3, <1>1, <1>3, OnePlace DEF Moves
      <4>5. Distinct(freelist') /\ Distinct(high')
        BY Zenon, <2>2, <1>1 DEF Places
      <4>. QED BY Zenon, <4>4, <4>5, <1>1, OneMoved DEF Kind
    <3>. QED BY Zenon, <3>1, <3>2
  <2>. QED BY Zenon, <2>2, <2>4, <2>5, <2>6 DEF IInv
<1>. QED BY Zenon, <1>2, <1>3 DEF startothers

(* A processor loads the stack it was told of.                             *)
LEMMA LoadsStack ==
  ASSUME Ordinary, IInv, NEW c \in AP, mpenter(c)
  PROVE  IInv'
<1>. TypeOK /\ Locking /\ Calls /\ Starting /\ Places
  BY Zenon DEF IInv
<1>1. /\ c \in sent /\ stack[c] = Nil /\ stack' = [stack EXCEPT ![c] = code] /\ c \in Cpus
      /\ UNCHANGED <<freelist, use_lock, lock, booted, high, code, sent, started, pc, r, next, call,
                     held>>
  BY Zenon DEF mpenter, kmem, Cpus
<1>2. stack'[c] = code /\ \A d \in AP : d # c => stack'[d] = stack[d]
  BY Zenon, <1>1 DEF TypeOK
<1>3. TypeOK'
  BY Zenon, <1>1 DEF TypeOK
<1>4. Locking' /\ Calls'
  BY Zenon, <1>1 DEF Locking, Calls
<1>5. c \notin started /\ \A d \in sent : d # c => stack[d] # Nil /\ d \in AP
  BY Zenon, <1>1 DEF Starting, TypeOK
<1>6. Starting'
  <2>1. \A d \in AP : stack'[d] # Nil => d \in sent
    BY Zenon, <1>1, <1>2 DEF Starting
  <2>2. \A d \in started : stack'[d] # Nil
    BY Zenon, <1>2, <1>5 DEF Starting, TypeOK
  <2>. QED BY Zenon, <2>1, <2>2, <1>1 DEF Starting
<1>7. Places'
  <2>1. CASE code = Nil
    <3>1. stack' = stack
      BY <2>1, <1>1 DEF TypeOK
    <3>. QED BY Zenon, <3>1, <1>1, PagesAside
  <2>2. CASE code # Nil
    <3>1. PICK f \in Page : f = code
      BY Zenon, <2>2 DEF TypeOK
    <3>2. Pending /\ ~ Pending'
      BY Zenon, <2>2, <1>1, <1>2, <1>5 DEF Pending
    <3>3. \A d \in AP : stack[d] # f
      BY Zenon, <3>1, <3>2, OnePlace
    <3>4. Moves(f, "stack", c)
      <4>1. \A g \in Page : g # f => \A d \in AP : stack'[d] = g <=> stack[d] = g
        BY Zenon, <3>1, <1>1, <1>2 DEF Ordinary
      <4>2. \A d \in AP : stack'[d] = f <=> c = d
        BY Zenon, <3>1, <3>3, <1>2
      <4>3. booted # "kinit1"
        BY Zenon, <1>1 DEF Starting
      <4>4. UNCHANGED <<booted, freelist, high, r, held, code>>
        BY Zenon, <1>1
      <4>. QED BY Zenon, <4>1, <4>2, <4>3, <4>4, <3>1, <3>2, OnePlace DEF Moves
    <3>5. Distinct(freelist') /\ Distinct(high')
      BY Zenon, <1>1 DEF Places
    <3>. QED BY Zenon, <3>4, <3>5, <1>1, OneMoved DEF Kind
  <2>. QED BY Zenon, <2>1, <2>2
<1>. QED BY Zenon, <1>3, <1>4, <1>6, <1>7 DEF IInv

(* It says that it has started.                                            *)
LEMMA SaysStarted ==
  ASSUME Ordinary, IInv, NEW c \in AP, mpmain(c)
  PROVE  IInv'
<1>. TypeOK /\ Locking /\ Calls /\ Starting /\ Places
  BY Zenon DEF IInv
<1>1. /\ stack[c] # Nil /\ c \notin started /\ started' = started \cup {c}
      /\ UNCHANGED <<freelist, use_lock, lock, booted, high, code, sent, stack, pc, r, next, call,
                     held>>
  BY Zenon DEF mpmain, kmem
<1>2. c \in sent
  BY Zenon, <1>1 DEF Starting
<1>3. TypeOK'
  BY Zenon, <1>1, <1>2 DEF TypeOK
<1>4. Locking' /\ Calls'
  BY Zenon, <1>1 DEF Locking, Calls
<1>5. Starting'
  BY Zenon, <1>1, <1>2 DEF Starting
<1>6. Places'
  BY Zenon, <1>1, PagesAside
<1>. QED BY Zenon, <1>3, <1>4, <1>5, <1>6 DEF IInv

(* kinit2 frees the other pages, and puts the lock to use when nobody is   *)
(* in kalloc or kfree.                                                     *)
LEMMA FreesHigh ==
  ASSUME Ordinary, IInv, kinit2
  PROVE  IInv'
<1>. TypeOK /\ Locking /\ Calls /\ Starting /\ Places
  BY Zenon DEF IInv
<1>1. UNCHANGED <<code, sent, stack, started, held>> /\ Boot \in Cpus
  BY Zenon DEF kinit2, aps, Cpus
<1>2. Pending' <=> Pending
  BY Zenon, <1>1 DEF Pending
<1>3. CASE /\ booted = "startothers" /\ sent = AP /\ Waited /\ pc[Boot] = "idle" /\ booted' = "kinit2"
           /\ UNCHANGED <<kmem, high, pc, r, next, call>>
  <2>1. UNCHANGED <<freelist, use_lock, lock, high, pc, r, next, call>>
    BY Zenon, <1>3 DEF kmem
  <2>2. TypeOK'
    BY Zenon, <2>1, <1>1, <1>3 DEF TypeOK
  <2>3. Locking' /\ Calls'
    BY Zenon, <2>1, <1>3 DEF Locking, Calls
  <2>4. Starting'
    BY Zenon, <2>1, <1>1, <1>3 DEF Starting
  <2>5. Places'
    BY Zenon, <2>1, <1>1, <1>3, PagesAside
  <2>. QED BY Zenon, <2>2, <2>3, <2>4, <2>5 DEF IInv
<1>4. CASE /\ booted = "kinit2" /\ high # <<>> /\ Enter(Boot, "kfree", Head(high))
           /\ high' = Tail(high) /\ UNCHANGED booted
  <2>1. high \in Seq(Page) /\ Distinct(high)
    BY Zenon DEF TypeOK, Places
  <2>2. PICK f \in Page : f = Head(high)
    BY Zenon, <2>1, <1>4, Popped
  <2>3. /\ f \in Entries(high) /\ high' \in Seq(Page) /\ Distinct(high')
        /\ Entries(high') = Entries(high) \ {f}
    BY Zenon, <2>1, <2>2, <1>4, Popped
  <2>4. Enter(Boot, "kfree", f) /\ f # Nil
    BY Zenon, <2>2, <1>4 DEF Ordinary
  <2>5. /\ UNCHANGED <<freelist, use_lock, lock, next>> /\ Locking' /\ Calls'
        /\ pc' \in [Cpus -> {"idle", "acquire", "read", "write", "done"}]
        /\ r' \in [Cpus -> Page \cup {Nil}] /\ call' \in [Cpus -> {Nil, "kalloc", "kfree"}]
        /\ r[Boot] = Nil /\ r'[Boot] = f /\ \A d \in Cpus : d # Boot => r'[d] = r[d]
    BY Zenon, <2>4, <1>1, <1>4, Enters
  <2>6. TypeOK'
    BY Zenon, <2>3, <2>5, <1>1, <1>4 DEF TypeOK
  <2>7. Starting'
    BY Zenon, <2>5, <1>1, <1>4 DEF Starting
  <2>8. Places'
    <3>1. Moves(f, "call", Boot)
      <4>1. \A g \in Page : g # f => \A d \in Cpus : r'[d] = g <=> r[d] = g
        BY Zenon, <2>5 DEF Ordinary
      <4>2. \A d \in Cpus : r'[d] = f <=> Boot = d
        BY Zenon, <2>3, <2>5, OnePlace
      <4>. QED BY Zenon, <4>1, <4>2, <2>3, <2>5, <1>1, <1>2, <1>4, OnePlace DEF Moves
    <3>2. Distinct(freelist')
      BY Zenon, <2>5 DEF Places
    <3>. QED BY Zenon, <3>1, <3>2, <2>3, <1>1, OneMoved DEF Kind
  <2>. QED BY Zenon, <2>5, <2>6, <2>7, <2>8 DEF IInv
<1>5. CASE booted = "kinit2" /\ Return(Boot) /\ UNCHANGED <<booted, high>>
  <2>1. /\ UNCHANGED <<freelist, use_lock, lock, next>> /\ Locking' /\ Calls'
        /\ pc' \in [Cpus -> {"idle", "acquire", "read", "write", "done"}]
        /\ r' \in [Cpus -> Page \cup {Nil}] /\ call' \in [Cpus -> {Nil, "kalloc", "kfree"}]
        /\ pc[Boot] = "done" /\ (r[Boot] = Nil => r' = r)
    BY Zenon, <1>1, <1>5, Leaves
  <2>2. r' = r
    BY Zenon, <2>1, <1>1, <1>5 DEF Calls
  <2>3. TypeOK'
    BY Zenon, <2>1, <1>1, <1>5 DEF TypeOK
  <2>4. Starting'
    BY Zenon, <2>1, <1>1, <1>5 DEF Starting
  <2>5. Places'
    BY Zenon, <2>1, <2>2, <1>1, <1>5, PagesAside
  <2>. QED BY Zenon, <2>1, <2>3, <2>4, <2>5 DEF IInv
<1>6. CASE /\ booted = "kinit2" /\ high = <<>> /\ pc[Boot] = "idle" /\ booted' = "userinit"
           /\ UseLock
           /\ UNCHANGED <<freelist, lock, high, pc, r, next, call>>
  <2>1. use_lock' = TRUE
    BY Zenon, <1>6 DEF UseLock
  <2>2. \A c \in Cpus : pc[c] = "idle"
    BY Zenon, <1>6 DEF Locking, Cpus
  <2>3. TypeOK'
    BY Zenon, <2>1, <1>1, <1>6 DEF TypeOK
  <2>4. Locking' /\ Calls'
    BY Zenon, <2>1, <2>2, <1>6 DEF Locking, Calls
  <2>5. Starting'
    BY Zenon, <1>1, <1>6 DEF Starting
  <2>6. Places'
    BY Zenon, <1>1, <1>6, PagesAside
  <2>. QED BY Zenon, <2>3, <2>4, <2>5, <2>6 DEF IInv
<1>. QED BY Zenon, <1>3, <1>4, <1>5, <1>6 DEF kinit2

(* A page that kalloc returns becomes one of the caller's process.         *)
LEMMA Keeps ==
  ASSUME Ordinary, IInv, NEW c \in Cpus, Return(c),
         booted \in {"userinit", "up"}, booted' = "up",
         held' = [held EXCEPT ![c] = held[c] \cup ({r[c]} \ {Nil})],
         UNCHANGED <<high, code, sent, stack, started>>
  PROVE  IInv'
<1>. TypeOK /\ Locking /\ Calls /\ Starting /\ Places
  BY Zenon DEF IInv
<1>1. /\ UNCHANGED <<freelist, use_lock, lock, next>> /\ Locking' /\ Calls'
      /\ pc' \in [Cpus -> {"idle", "acquire", "read", "write", "done"}]
      /\ r' \in [Cpus -> Page \cup {Nil}] /\ call' \in [Cpus -> {Nil, "kalloc", "kfree"}]
      /\ r'[c] = Nil /\ (\A d \in Cpus : d # c => r'[d] = r[d])
      /\ r[c] = Nil => r' = r
  BY Zenon, Leaves
<1>2. /\ held' \in [Cpus -> SUBSET Page] /\ held'[c] = held[c] \cup ({r[c]} \ {Nil})
      /\ \A d \in Cpus : d # c => held'[d] = held[d]
  <2>1. held[c] \cup ({r[c]} \ {Nil}) \in SUBSET Page
    BY Zenon DEF TypeOK
  <2>. QED BY Zenon, <2>1 DEF TypeOK
<1>3. TypeOK'
  BY Zenon, <1>1, <1>2 DEF TypeOK
<1>4. Starting'
  BY Zenon, <1>1 DEF Starting
<1>5. Places'
  <2>1. CASE r[c] = Nil
    <3>1. held' = held
      <4>1. held[c] \cup ({r[c]} \ {Nil}) = held[c]
        BY Zenon, <2>1
      <4>. QED BY <4>1 DEF TypeOK
    <3>. QED BY Zenon, <3>1, <2>1, <1>1, PagesAside
  <2>2. CASE r[c] # Nil
    <3>1. PICK f \in Page : f = r[c]
      BY Zenon, <2>2 DEF TypeOK
    <3>2. held'[c] = held[c] \cup {f}
      BY Zenon, <3>1, <2>2, <1>2
    <3>3. Moves(f, "process", c)
      <4>1. \A g \in Page : g # f => \A d \in Cpus : r'[d] = g <=> r[d] = g
        BY Zenon, <3>1, <1>1 DEF Ordinary
      <4>2. \A d \in Cpus : r'[d] # f
        <5>1. \A d \in Cpus : r[d] = f => d = c
          BY Zenon, <3>1, OnePlace
        <5>. QED BY Zenon, <5>1, <1>1 DEF Ordinary
      <4>3. \A g \in Page : g # f => \A d \in Cpus : g \in held'[d] <=> g \in held[d]
        BY Zenon, <3>2, <1>2
      <4>4. \A d \in Cpus : f \in held'[d] <=> c = d
        BY Zenon, <3>1, <3>2, <1>2, OnePlace
      <4>5. Pending' <=> Pending
        BY Zenon DEF Pending
      <4>6. /\ f \notin Entries(freelist) /\ f \notin Entries(high)
            /\ (\A d \in AP : stack[d] # f) /\ ~ (Pending /\ code = f)
        BY Zenon, <3>1, OnePlace
      <4>7. booted # "kinit1" /\ booted' # "kinit1"
        BY Zenon
      <4>. QED BY Zenon, <4>1, <4>2, <4>3, <4>4, <4>5, <4>6, <4>7, <1>1 DEF Moves
    <3>4. Distinct(freelist') /\ Distinct(high')
      BY Zenon, <1>1 DEF Places
    <3>. QED BY Zenon, <3>3, <3>4, OneMoved DEF Kind
  <2>. QED BY Zenon, <2>1, <2>2
<1>. QED BY Zenon, <1>1, <1>3, <1>4, <1>5 DEF IInv

(* kalloc begins for a process, or for the first one.                      *)
LEMMA Wants ==
  ASSUME Ordinary, IInv, NEW c \in Cpus, Enter(c, "kalloc", Nil), c = Boot \/ booted = "up",
         booted \in {"userinit", "up"}, UNCHANGED <<booted, held, high, code, sent, stack, started>>
  PROVE  IInv'
<1>. TypeOK /\ Locking /\ Calls /\ Starting /\ Places
  BY Zenon DEF IInv
<1>1. /\ UNCHANGED <<freelist, use_lock, lock, next>> /\ Locking' /\ Calls'
      /\ pc' \in [Cpus -> {"idle", "acquire", "read", "write", "done"}]
      /\ r' \in [Cpus -> Page \cup {Nil}] /\ call' \in [Cpus -> {Nil, "kalloc", "kfree"}]
      /\ r' = r
  BY Zenon, Enters
<1>2. TypeOK'
  BY Zenon, <1>1 DEF TypeOK
<1>3. Starting'
  BY Zenon, <1>1 DEF Starting
<1>4. Places'
  BY Zenon, <1>1, PagesAside
<1>. QED BY Zenon, <1>1, <1>2, <1>3, <1>4 DEF IInv

(* A process gives a page back.                                            *)
LEMMA GivesBack ==
  ASSUME Ordinary, IInv, NEW c \in Cpus, NEW f \in held[c], Enter(c, "kfree", f), booted = "up",
         held' = [held EXCEPT ![c] = @ \ {f}], UNCHANGED <<booted, high, code, sent, stack, started>>
  PROVE  IInv'
<1>. TypeOK /\ Locking /\ Calls /\ Starting /\ Places
  BY Zenon DEF IInv
<1>1. f \in Page /\ f # Nil
  BY Zenon DEF TypeOK, Ordinary
<1>2. /\ UNCHANGED <<freelist, use_lock, lock, next>> /\ Locking' /\ Calls'
      /\ pc' \in [Cpus -> {"idle", "acquire", "read", "write", "done"}]
      /\ r' \in [Cpus -> Page \cup {Nil}] /\ call' \in [Cpus -> {Nil, "kalloc", "kfree"}]
      /\ r[c] = Nil /\ r'[c] = f /\ \A d \in Cpus : d # c => r'[d] = r[d]
  BY Zenon, <1>1, Enters
<1>3. /\ held' \in [Cpus -> SUBSET Page] /\ held'[c] = held[c] \ {f}
      /\ \A d \in Cpus : d # c => held'[d] = held[d]
  BY Zenon DEF TypeOK
<1>4. TypeOK'
  BY Zenon, <1>2, <1>3 DEF TypeOK
<1>5. Starting'
  BY Zenon, <1>2 DEF Starting
<1>6. Places'
  <2>1. Moves(f, "call", c)
    <3>1. \A g \in Page : g # f => \A d \in Cpus : r'[d] = g <=> r[d] = g
      BY Zenon, <1>2 DEF Ordinary
    <3>2. \A d \in Cpus : r'[d] = f <=> c = d
      BY ZenonT(40), <1>1, <1>2, OnePlace
    <3>3. \A g \in Page : g # f => \A d \in Cpus : g \in held'[d] <=> g \in held[d]
      BY Zenon, <1>3
    <3>4. \A d \in Cpus : f \notin held'[d]
      BY Zenon, <1>1, <1>3, OnePlace
    <3>5. Pending' <=> Pending
      BY Zenon DEF Pending
    <3>. QED BY Zenon, <3>1, <3>2, <3>3, <3>4, <3>5, <1>1, <1>2, OnePlace DEF Moves
  <2>2. Distinct(freelist') /\ Distinct(high')
    BY Zenon, <1>2 DEF Places
  <2>. QED BY Zenon, <2>1, <2>2, <1>1, OneMoved DEF Kind
<1>. QED BY Zenon, <1>2, <1>4, <1>5, <1>6 DEF IInv

(* userinit takes a page for the first process.                            *)
LEMMA InitsUser ==
  ASSUME Ordinary, IInv, userinit
  PROVE  IInv'
<1>1. booted = "userinit" /\ UNCHANGED <<high, code, sent, stack, started>> /\ Boot \in Cpus
  BY Zenon DEF userinit, aps, Cpus
<1>2. CASE Enter(Boot, "kalloc", Nil) /\ UNCHANGED <<booted, held>>
  BY Zenon, <1>1, <1>2, Wants
<1>3. CASE /\ Return(Boot) /\ booted' = "up"
           /\ held' = [held EXCEPT ![Boot] = {r[Boot]} \ {Nil}]
  <2>1. held[Boot] = {}
    BY Zenon, <1>1 DEF IInv, Starting
  <2>2. held[Boot] \cup ({r[Boot]} \ {Nil}) = {r[Boot]} \ {Nil}
    BY Zenon, <2>1
  <2>3. held' = [held EXCEPT ![Boot] = held[Boot] \cup ({r[Boot]} \ {Nil})]
    BY Zenon, <2>2, <1>3
  <2>. QED BY Zenon, <2>3, <1>1, <1>3, Keeps
<1>. QED BY Zenon, <1>2, <1>3 DEF userinit

(* Processes take pages and give them back.                                *)
LEMMA Processes ==
  ASSUME Ordinary, IInv, NEW c \in Cpus, Process(c)
  PROVE  IInv'
<1>1. booted = "up" /\ UNCHANGED <<booted, high, code, sent, stack, started>>
  BY Zenon DEF Process, aps
<1>2. CASE Enter(c, "kalloc", Nil) /\ Cardinality(held[c]) < MaxHeld /\ UNCHANGED held
  BY Zenon, <1>1, <1>2, Wants
<1>3. ASSUME NEW f \in held[c], Enter(c, "kfree", f), held' = [held EXCEPT ![c] = @ \ {f}]
      PROVE  IInv'
  BY Zenon, <1>1, <1>3, GivesBack
<1>4. CASE Return(c) /\ held' = [held EXCEPT ![c] = @ \cup ({r[c]} \ {Nil})]
  BY Zenon, <1>1, <1>4, Keeps
<1>. QED BY Zenon, <1>2, <1>3, <1>4 DEF Process

(* Nothing but the pages for kinit2 is anywhere when main begins.          *)
LEMMA Begins ==
  ASSUME Ordinary, Init
  PROVE  IInv
<1>1. TypeOK
  <2>1. <<>> \in Seq(Page)
    OBVIOUS
  <2>. QED BY Zenon, <2>1 DEF Init, TypeOK, Ordinary
<1>2. Locking /\ Calls /\ Starting
  BY Zenon DEF Init, Locking, Calls, Starting, Cpus
<1>3. Distinct(<<>>) /\ Entries(<<>>) = {}
  BY DEF Distinct, Entries
<1>4. Places
  <2>. DEFINE kind == [f \in Page |-> IF f \in Entries(Low) THEN "none" ELSE "high"]
              at == [f \in Page |-> Boot]
  <2>1. kind \in [Page -> Kind] /\ at \in [Page -> Cpus]
    BY Zenon DEF Kind, Cpus
  <2>2. \A f \in Page : /\ f \in Entries(Low) <=> kind[f] = "none"
                        /\ f \in Entries(High) <=> kind[f] = "high"
                        /\ kind[f] \in {"none", "high"}
    BY Zenon DEF Page, Ordinary
  <2>. HIDE DEF kind, at
  <2>3. \A f \in Page : /\ f \notin Entries(freelist) /\ Entries(high) = Entries(High)
                        /\ \A c \in Cpus : r[c] # f /\ f \notin held[c]
                        /\ (\A c \in AP : stack[c] # f) /\ code # f
    BY Zenon, <1>3 DEF Init, Ordinary
  <2>4. Placed(kind, at)
    <3>. SUFFICES ASSUME NEW f \in Page
                  PROVE  /\ f \in Entries(freelist) <=> kind[f] = "list"
                         /\ f \in Entries(high) <=> kind[f] = "high"
                         /\ \A d \in Cpus : r[d] = f <=> kind[f] = "call" /\ at[f] = d
                         /\ \A d \in AP : stack[d] = f <=> kind[f] = "stack" /\ at[f] = d
                         /\ \A d \in Cpus : f \in held[d] <=> kind[f] = "process" /\ at[f] = d
                         /\ Pending /\ code = f <=> kind[f] = "code"
                         /\ booted = "kinit1" /\ f \in Entries(Low) <=> kind[f] = "none"
                         /\ kind[f] = "stack" => at[f] \in AP
      BY Zenon DEF Placed
    <3>1. kind[f] \notin {"list", "call", "stack", "process", "code"}
      BY Zenon, <2>2
    <3>2. booted = "kinit1"
      BY Zenon DEF Init
    <3>. QED BY Zenon, <3>1, <3>2, <2>2, <2>3
  <2>5. Distinct(freelist) /\ Distinct(high)
    BY Zenon, <1>3 DEF Init, Ordinary
  <2>. QED BY Zenon, <2>1, <2>4, <2>5 DEF Places
<1>. QED BY Zenon, <1>1, <1>2, <1>4 DEF IInv

(* Every step of the boot, and of kalloc and kfree on any processor, keeps *)
(* every page in one place.                                                *)
THEOREM Invariant == ASSUME Ordinary PROVE Spec => []IInv
<1>1. Init => IInv
  BY Zenon, Begins
<1>2. IInv /\ [Next]_vars => IInv'
  <2>. SUFFICES ASSUME IInv, [Next]_vars PROVE IInv'
    OBVIOUS
  <2>1. CASE UNCHANGED vars
    <3>1. UNCHANGED <<freelist, use_lock, lock, booted, high, code, sent, stack, started, pc, r, next,
                      call, held>>
      BY Zenon, <2>1 DEF vars, kmem, aps
    <3>2. TypeOK' /\ Locking' /\ Calls' /\ Starting'
      BY Zenon, <3>1 DEF IInv, TypeOK, Locking, Calls, Starting
    <3>3. Places'
      BY Zenon, <3>1, PagesAside DEF IInv
    <3>. QED BY Zenon, <3>2, <3>3 DEF IInv
  <2>2. CASE kinit1 \/ startothers \/ kinit2 \/ userinit
    BY Zenon, <2>2, FreesLow, StartsOthers, FreesHigh, InitsUser
  <2>3. ASSUME NEW c \in AP, mpenter(c) \/ mpmain(c)
        PROVE  IInv'
    BY Zenon, <2>3, LoadsStack, SaysStarted
  <2>4. ASSUME NEW c \in Cpus, acquire(c) \/ read(c) \/ write(c) \/ Process(c)
        PROVE  IInv'
    BY Zenon, <2>4, Acquires, Reads, Writes, Processes
  <2>. QED BY Zenon, <2>1, <2>2, <2>3, <2>4 DEF Next
<1>. QED BY <1>1, <1>2, PTL DEF Spec

(* A set all of whose members are one.                                     *)
LEMMA TheOne ==
  ASSUME NEW T, NEW a \in T, \A b \in T : b = a
  PROVE  T = {a}
  BY Zenon

(* No page has two users, and a page without a user is one that kinit1     *)
(* has not freed yet or the stack that a processor is to load.             *)
LEMMA OneUser ==
  ASSUME Ordinary, IInv, NEW f \in Page
  PROVE  /\ Cardinality(Users(f)) <= 1
         /\ Users(f) = {} => booted = "kinit1" \/ code = f
<1>. DEFINE l == {j \in DOMAIN freelist : freelist[j] = f}
            c == {d \in Cpus : r[d] = f}
            s == {d \in AP : stack[d] = f}
            p == {d \in Cpus : f \in held[d]}
            h == {j \in DOMAIN high : high[j] = f}
<1>. Places /\ TypeOK
  BY Zenon DEF IInv
<1>1. /\ Users(f) = {<<"list", i>> : i \in l} \cup {<<"call", d>> : d \in c}
                      \cup {<<"stack", d>> : d \in s} \cup {<<"process", d>> : d \in p}
                      \cup {<<"high", i>> : i \in h}
  BY Zenon DEF Users
<1>2. DOMAIN freelist = 1 .. Len(freelist) /\ DOMAIN high = 1 .. Len(high)
  BY DEF TypeOK
<1>3. f \notin Entries(freelist) => l = {}
  BY Zenon, <1>2 DEF Entries
<1>4. f \notin Entries(high) => h = {}
  BY Zenon, <1>2 DEF Entries
<1>5. (\A d \in Cpus : r[d] # f) => c = {}
  BY Zenon
<1>6. (\A d \in AP : stack[d] # f) => s = {}
  BY Zenon
<1>7. (\A d \in Cpus : f \notin held[d]) => p = {}
  BY Zenon
<1>8. ASSUME NEW x PROVE Cardinality({x}) <= 1 /\ Cardinality({}) <= 1 /\ {x} # {}
  <2>1. Cardinality({x}) = 1 /\ Cardinality({}) = 0
    BY Zenon, FS_EmptySet, FS_Singleton
  <2>. QED BY <2>1
<1>9. CASE f \in Entries(freelist)
  <2>1. PICK i \in l : TRUE
    BY Zenon, <1>2, <1>9 DEF Entries
  <2>2. l = {i}
    BY Zenon, <2>1, <1>2 DEF Places, Distinct
  <2>3. c = {} /\ s = {} /\ p = {} /\ h = {}
    BY Zenon, <1>4, <1>5, <1>6, <1>7, <1>9, OnePlace
  <2>. HIDE DEF l, c, s, p, h
  <2>4. Users(f) = {<<"list", i>>}
    BY <2>2, <2>3, <1>1
  <2>. QED BY Zenon, <2>4, <1>8
<1>10. CASE f \in Entries(high)
  <2>1. PICK i \in h : TRUE
    BY Zenon, <1>2, <1>10 DEF Entries
  <2>2. h = {i}
    BY Zenon, <2>1, <1>2 DEF Places, Distinct
  <2>3. c = {} /\ s = {} /\ p = {} /\ l = {}
    BY Zenon, <1>3, <1>5, <1>6, <1>7, <1>10, OnePlace
  <2>. HIDE DEF l, c, s, p, h
  <2>4. Users(f) = {<<"high", i>>}
    BY <2>2, <2>3, <1>1
  <2>. QED BY Zenon, <2>4, <1>8
<1>11. ASSUME NEW d \in Cpus, r[d] = f
       PROVE  /\ Cardinality(Users(f)) <= 1
              /\ Users(f) = {} => booted = "kinit1" \/ code = f
  <2>0. d \in c /\ \A e \in c : e = d
    BY Zenon, <1>11, OnePlace
  <2>1. c = {d}
    BY Zenon, <2>0, TheOne
  <2>2. l = {} /\ s = {} /\ p = {} /\ h = {}
    BY Zenon, <1>3, <1>4, <1>6, <1>7, <1>11, OnePlace
  <2>. HIDE DEF l, c, s, p, h
  <2>3. Users(f) = {<<"call", d>>}
    BY <2>1, <2>2, <1>1
  <2>. QED BY Zenon, <2>3, <1>8
<1>12. ASSUME NEW d \in AP, stack[d] = f
       PROVE  /\ Cardinality(Users(f)) <= 1
              /\ Users(f) = {} => booted = "kinit1" \/ code = f
  <2>0. d \in s /\ \A e \in s : e = d
    BY Zenon, <1>12, OnePlace
  <2>1. s = {d}
    BY Zenon, <2>0, TheOne
  <2>2. l = {} /\ c = {} /\ p = {} /\ h = {}
    BY Zenon, <1>3, <1>4, <1>5, <1>7, <1>12, OnePlace
  <2>. HIDE DEF l, c, s, p, h
  <2>3. Users(f) = {<<"stack", d>>}
    BY <2>1, <2>2, <1>1
  <2>. QED BY Zenon, <2>3, <1>8
<1>13. ASSUME NEW d \in Cpus, f \in held[d]
       PROVE  /\ Cardinality(Users(f)) <= 1
              /\ Users(f) = {} => booted = "kinit1" \/ code = f
  <2>0. d \in p /\ \A e \in p : e = d
    BY Zenon, <1>13, OnePlace
  <2>1. p = {d}
    BY Zenon, <2>0, TheOne
  <2>2. l = {} /\ c = {} /\ s = {} /\ h = {}
    BY Zenon, <1>3, <1>4, <1>5, <1>6, <1>13, OnePlace
  <2>. HIDE DEF l, c, s, p, h
  <2>3. Users(f) = {<<"process", d>>}
    BY <2>1, <2>2, <1>1
  <2>. QED BY Zenon, <2>3, <1>8
<1>14. CASE /\ f \notin Entries(freelist) /\ f \notin Entries(high)
            /\ \A d \in Cpus : r[d] # f /\ f \notin held[d]
            /\ \A d \in AP : stack[d] # f
  <2>1. l = {} /\ c = {} /\ s = {} /\ p = {} /\ h = {}
    BY Zenon, <1>3, <1>4, <1>5, <1>6, <1>7, <1>14
  <2>2. booted = "kinit1" \/ code = f
    BY Zenon, <1>14, OnePlace
  <2>. HIDE DEF l, c, s, p, h
  <2>3. Users(f) = {}
    BY <2>1, <1>1
  <2>. QED BY Zenon, <2>2, <2>3, <1>8
<1>. QED BY Zenon, <1>9, <1>10, <1>11, <1>12, <1>13, <1>14

(* From the first instruction of the boot on, no page is in two places and *)
(* none is lost, for any number of processors and pages: though kalloc has *)
(* no lock until kinit2 has ended, no second processor calls it before,    *)
(* and startothers gives no processor the stack of another.                *)
THEOREM PagesExclusiveAlways == ASSUME Ordinary PROVE Spec => []PagesExclusive
<1>1. IInv => PagesExclusive
  <2>. SUFFICES ASSUME IInv,
                       NEW f \in {Low[i] : i \in DOMAIN Low} \cup {High[i] : i \in DOMAIN High}
                PROVE  /\ Cardinality(Users(f)) <= 1
                       /\ booted # "kinit1" /\ code # f => Users(f) # {}
    BY Zenon DEF PagesExclusive
  <2>1. DOMAIN Low = 1 .. Len(Low) /\ DOMAIN High = 1 .. Len(High)
    BY DEF Ordinary
  <2>2. f \in Page
    BY Zenon, <2>1 DEF Page, Entries
  <2>. QED BY Zenon, <2>2, OneUser
<1>. QED BY <1>1, Invariant, PTL
=============================================================================
