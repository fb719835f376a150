-------------------------- MODULE SystemCallsProofs --------------------------
(***************************************************************************)
(* Proofs about the two programs whose steps are calls of the kernel: only *)
(* a spurious wakeup makes pthread_conditions.c fail, and http_server.c    *)
(* accounts for every descriptor whatever fails and logs a client's own    *)
(* words, for every number of rounds, of descriptors and every set of      *)
(* requests.                                                               *)
(***************************************************************************)
EXTENDS MCSystemCalls, NumberLemmas, SequenceTheorems, TLAPS

-----------------------------------------------------------------------------
(* pthread_conditions.c                                                    *)

ThreadTypes ==
  /\ m \in 1 .. 14 /\ c \in 0 .. 7
  /\ locked \in BOOLEAN /\ destroyed \in BOOLEAN /\ late \in BOOLEAN
  /\ wakeup \in {"none", "signal", "spurious"}
  /\ failed \in {"none", "create", "trylock"}

\* Main is woken between its wait and its next message, and the child's signal comes
\* after its unlock: once it was the signal that woke main, nobody takes the mutex
\* away from it any more.
ThreadInv ==
  /\ ThreadTypes
  /\ m <= 7 => wakeup = "none"
  /\ m >= 9 => wakeup # "none"
  /\ wakeup = "signal" => c >= 5
  /\ wakeup = "signal" /\ m \in 9 .. 12 => locked = TRUE
  /\ destroyed = TRUE => m >= 11
  /\ failed = "trylock" \/ late = TRUE => wakeup = "spurious"

\* Where each call is in the two threads.
LEMMA CallPositions ==
  ASSUME ThreadTypes
  PROVE  /\ Main("say") <=> m \in {1, 3, 6, 9, 13}
         /\ Main("lock") <=> m = 2
         /\ Main("create") <=> m = 4
         /\ Main("detach") <=> m = 5
         /\ Main("wait") <=> m = 7
         /\ Main("relock") <=> m = 8
         /\ Main("destroy") <=> m = 10
         /\ Main("trylock") <=> m = 11
         /\ Main("unlock") <=> m = 12
         /\ Main("exit") <=> m = 14
         /\ Child("say") <=> c \in {1, 3, 5}
         /\ Child("unlock") <=> c = 2
         /\ Child("signal") <=> c = 4
         /\ Child("exit") <=> c = 6
<1>1. Len(MainCalls) = 14 /\ Len(ChildCalls) = 6
  BY DEF MainCalls, ChildCalls
<1>2. /\ m \in {1, 3, 6, 9, 13} <=> MainCalls[m] = "say"
      /\ m = 2 <=> MainCalls[m] = "lock"
      /\ m = 4 <=> MainCalls[m] = "create"
      /\ m = 5 <=> MainCalls[m] = "detach"
      /\ m = 7 <=> MainCalls[m] = "wait"
      /\ m = 8 <=> MainCalls[m] = "relock"
      /\ m = 10 <=> MainCalls[m] = "destroy"
      /\ m = 11 <=> MainCalls[m] = "trylock"
      /\ m = 12 <=> MainCalls[m] = "unlock"
      /\ m = 14 <=> MainCalls[m] = "exit"
  BY DEF MainCalls, ThreadTypes
<1>3. ASSUME c \in 1 .. 6
      PROVE  /\ c \in {1, 3, 5} <=> ChildCalls[c] = "say"
             /\ c = 2 <=> ChildCalls[c] = "unlock"
             /\ c = 4 <=> ChildCalls[c] = "signal"
             /\ c = 6 <=> ChildCalls[c] = "exit"
  BY <1>3 DEF ChildCalls
<1> QED
  BY <1>1, <1>2, <1>3 DEF Main, Child, ThreadTypes

LEMMA ThreadInvInit == Init => ThreadInv
<1>1. Init => locked \in BOOLEAN /\ destroyed \in BOOLEAN /\ late \in BOOLEAN
  BY Zenon DEF Init
<1> QED
  BY <1>1 DEF Init, ThreadInv, ThreadTypes

LEMMA ThreadInvStep == ThreadInv /\ [Next]_vars => ThreadInv'
<1> SUFFICES ASSUME ThreadInv, [Next]_vars PROVE ThreadInv'
  OBVIOUS
<1> USE CallPositions DEF ThreadInv, ThreadTypes, Step, ChildStep, Running, Assert
<1>1. CASE MainSays
  BY <1>1 DEF MainSays
<1>2. CASE Lock
  BY <1>2 DEF Lock
<1>3. CASE Create
  BY <1>3 DEF Create
<1>4. CASE Detach
  BY <1>4 DEF Detach
<1>5. CASE Wait
  <2>1. locked' \in BOOLEAN
    BY <1>5, Zenon DEF Wait
  <2> QED
    BY <1>5, <2>1 DEF Wait
<1>6. CASE Relock
  BY <1>6 DEF Relock
<1>7. CASE Destroy
  BY <1>7 DEF Destroy
<1>8. CASE Trylock
  BY <1>8 DEF Trylock
<1>9. CASE Unlock
  <2>1. locked' \in BOOLEAN
    BY <1>9, Zenon DEF Unlock
  <2> QED
    BY <1>9, <2>1 DEF Unlock
<1>10. CASE ChildSays
  BY <1>10 DEF ChildSays
<1>11. CASE ChildUnlock
  <2>1. locked' \in BOOLEAN
    BY <1>11, Zenon DEF ChildUnlock
  <2> QED
    BY <1>11, <2>1 DEF ChildUnlock
<1>12. CASE ChildSignal
  BY <1>12 DEF ChildSignal, Asleep
<1>13. CASE Spurious
  BY <1>13 DEF Spurious, Asleep
<1>14. CASE UNCHANGED vars
  BY <1>14 DEF vars
<1> QED
  BY <1>1, <1>2, <1>3, <1>4, <1>5, <1>6, <1>7, <1>8, <1>9, <1>10, <1>11, <1>12, <1>13, <1>14
     DEF Next, MainNext, ChildNext

\* Only a spurious wakeup hurts (lines 23, 50 and 51): in every interleaving of the two
\* threads, if the child's signal woke main then trylock finds the mutex taken and the
\* child does not signal a destroyed condition variable.
THEOREM SignalledMainIsSafe == Spec => []OnlySpuriousHurts
<1>1. ThreadInv => OnlySpuriousHurts
  BY DEF ThreadInv, ThreadTypes, OnlySpuriousHurts
<1> QED
  BY <1>1, ThreadInvInit, ThreadInvStep, PTL DEF Spec

-----------------------------------------------------------------------------
(* http_server.c                                                           *)

Theirs == {fd \in DOMAIN files : files[fd] # Server!Host}
Clients == broken \cup (IF Server!Serving THEN {i} ELSE {})

\* The descriptors are accounted for, and a client that failed was served in an earlier
\* round, so that the next client is none of them.
FilesInv ==
  /\ i \in Nat \ {0}
  /\ files = [fd \in DOMAIN files |-> files[fd]]
  /\ DOMAIN files \subseteq 3 .. OPEN_MAX - 1
  /\ \A whose \in broken : whose \in Nat \ {0} /\ whose < i
  /\ \A fd \in Theirs : files[fd] \in Clients
  /\ \A whose \in Clients : \E fd \in Theirs : files[fd] = whose
  /\ \A fd, other \in Theirs : files[fd] = files[other] => fd = other
  /\ Server!Serving => client_socket \in DOMAIN files /\ files[client_socket] = i

\* The kernel gives the lowest free descriptor, where there is one.
LEMMA LowestIsFree ==
  ASSUME NEW S, S \subseteq 3 .. OPEN_MAX - 1, S # {}
  PROVE  Server!Lowest(S) \in S
<1>1. S \subseteq Nat
  BY OpenMaxAssumption
<1>2. \E low \in S : \A other \in S : low <= other
  BY <1>1, LeastNumber
<1> QED
  BY <1>2, Zenon DEF Server!Lowest

LEMMA FilesInvInit == Server!Init => FilesInv
<1> SUFFICES ASSUME Server!Init PROVE FilesInv
  OBVIOUS
<1>1. DOMAIN files = {} /\ files = [fd \in DOMAIN files |-> files[fd]]
  BY DEF Server!Init
<1>2. Theirs = {} /\ Clients = {}
  BY <1>1 DEF Theirs, Clients, Server!Init, Server!Serving
<1> QED
  BY <1>1, <1>2 DEF FilesInv, Server!Init, Server!Serving

\* A step that leaves the files alone, and the failed clients too, keeps the invariant
\* when the server serves the same client before and after it or none.
LEMMA SameFilesInv ==
  ASSUME FilesInv, UNCHANGED <<files, broken>>,
         i' \in Nat /\ i <= i',
         Server!Serving <=> Server!Serving',
         Server!Serving => UNCHANGED <<i, client_socket>>
  PROVE  FilesInv'
<1>1. Theirs' = Theirs /\ Clients' = Clients
  BY DEF Theirs, Clients, Server!Host
<1> QED
  BY <1>1 DEF FilesInv

\* After a round the server serves nobody, and the next round is a later one.
LEMMA NextRoundServesNobody ==
  ASSUME FilesInv, Server!NextRound
  PROVE  i' = i + 1 /\ i' \in Nat /\ ~Server!Serving'
<1>1. i \in Nat /\ i' = i + 1
  BY DEF FilesInv, Server!NextRound
<1>2. pc' = "close host" \/ pc' = "accept"
  BY Zenon DEF Server!NextRound
<1>3. i' \in Nat
  BY <1>1
<1>4. ~Server!Serving'
  BY <1>2 DEF Server!Serving
<1> QED
  BY <1>1, <1>3, <1>4

LEMMA SocketInv == ASSUME FilesInv, Server!Socket PROVE FilesInv'
<1>1. CASE UNCHANGED files
  BY <1>1, SameFilesInv DEF FilesInv, Server!Socket, Server!Serving
<1>2. CASE Server!Free(files) # {} /\ files' = Server!Opened(Server!Lowest(Server!Free(files)), Server!Host)
  <2>1. PICK fd \in 3 .. OPEN_MAX - 1 : fd \notin DOMAIN files /\ files' = Server!Opened(fd, Server!Host)
    BY <1>2, LowestIsFree DEF Server!Free
  <2>2. /\ files' = [d \in DOMAIN files' |-> files'[d]]
        /\ DOMAIN files' = DOMAIN files \cup {fd}
        /\ \A d \in DOMAIN files : files'[d] = files[d]
        /\ files'[fd] = Server!Host
    BY <2>1 DEF Server!Opened
  <2>3. Theirs' = Theirs /\ Clients' = Clients
    BY <1>2, <2>1, <2>2 DEF Theirs, Clients, Server!Host, Server!Serving, Server!Socket
  <2> QED
    BY <1>2, <2>1, <2>2, <2>3 DEF FilesInv, Theirs, Server!Socket, Server!Serving
<1> QED
  BY <1>1, <1>2 DEF Server!Socket

LEMMA AcceptInv == ASSUME FilesInv, Server!Accept PROVE FilesInv'
<1>1. CASE Server!NextRound /\ UNCHANGED <<client_socket, files>>
  <2>1. ~Server!Serving /\ ~Server!Serving' /\ i' \in Nat /\ i <= i' /\ broken' = broken
    <3>1. pc = "accept" /\ broken' = broken
      BY DEF Server!Accept
    <3> QED
      BY <1>1, <3>1, NextRoundServesNobody DEF FilesInv, Server!Serving
  <2> QED
    BY <1>1, <2>1, SameFilesInv
<1>2. CASE /\ Server!Free(files) # {} /\ client_socket' = Server!Lowest(Server!Free(files))
           /\ files' = Server!Opened(client_socket', i)
           /\ pc' = "read" /\ UNCHANGED i
  <2>1. PICK fd \in 3 .. OPEN_MAX - 1 :
          fd \notin DOMAIN files /\ client_socket' = fd /\ files' = Server!Opened(fd, i)
    BY <1>2, LowestIsFree DEF Server!Free
  <2>2. /\ files' = [d \in DOMAIN files' |-> files'[d]]
        /\ DOMAIN files' = DOMAIN files \cup {fd}
        /\ \A d \in DOMAIN files : files'[d] = files[d]
        /\ files'[fd] = i
    BY <2>1 DEF Server!Opened
  <2>3. Clients = broken /\ Clients' = broken \cup {i} /\ i \notin broken /\ broken' = broken
    BY <1>2 DEF FilesInv, Clients, Server!Accept, Server!Serving
  <2>4. Theirs' = Theirs \cup {fd} /\ fd \notin Theirs
    BY <2>1, <2>2 DEF FilesInv, Theirs, Server!Host
  <2>5. \A d \in Theirs : d \in DOMAIN files /\ files'[d] = files[d] /\ files[d] # i
    BY <2>2, <2>3 DEF FilesInv, Theirs
  <2> QED
    BY <1>2, <2>1, <2>2, <2>3, <2>4, <2>5 DEF FilesInv
<1> QED
  BY <1>1, <1>2 DEF Server!Accept

\* After an error the descriptor stays open, and the client is one of those that failed.
LEMMA GiveUpInv ==
  ASSUME FilesInv, Server!Serving, Server!GiveUp, UNCHANGED files
  PROVE  FilesInv'
<1>1. Clients' = Clients /\ Theirs' = Theirs /\ ~Server!Serving'
  BY NextRoundServesNobody DEF Clients, Theirs, Server!Host, Server!GiveUp
<1>2. i' = i + 1 /\ broken' = broken \cup {i} /\ files' = files
  BY NextRoundServesNobody DEF Server!GiveUp
<1> QED
  BY <1>1, <1>2 DEF FilesInv

LEMMA CloseInv == ASSUME FilesInv, Server!Close PROVE FilesInv'
<1>1. /\ files' = [d \in DOMAIN files' |-> files'[d]]
      /\ DOMAIN files' = DOMAIN files \ {client_socket}
      /\ \A d \in DOMAIN files' : files'[d] = files[d]
  BY DEF Server!Close, Server!Closed
<1>2. /\ Server!Serving /\ ~Server!Serving'
      /\ broken' = broken /\ i' = i + 1 /\ i \notin broken
  BY NextRoundServesNobody DEF FilesInv, Server!Close, Server!Serving
<1>5. Clients = broken \cup {i} /\ Clients' = broken
  BY <1>2 DEF Clients
<1>3. Theirs' = Theirs \ {client_socket} /\ client_socket \in Theirs /\ files[client_socket] = i
  BY <1>1, <1>2 DEF FilesInv, Theirs, Server!Host
<1>4. \A d \in Theirs' : d \in DOMAIN files' /\ files'[d] = files[d] /\ files[d] # i
  BY <1>1, <1>3 DEF FilesInv, Theirs
<1> QED
  BY <1>1, <1>2, <1>3, <1>4, <1>5 DEF FilesInv

LEMMA CloseHostInv == ASSUME FilesInv, Server!CloseHost PROVE FilesInv'
<1>1. /\ files' = [d \in DOMAIN files' |-> files'[d]]
      /\ DOMAIN files' = Theirs
      /\ \A d \in Theirs : files'[d] = files[d]
  BY DEF Server!CloseHost, Theirs
<1>2. Theirs' = Theirs
  BY <1>1 DEF Theirs, Server!Host
<1>3. Clients' = Clients /\ ~Server!Serving'
  BY DEF Clients, Server!CloseHost, Server!Serving
<1> QED
  BY <1>1, <1>2, <1>3 DEF FilesInv, Theirs, Server!CloseHost

LEMMA FilesInvStep == FilesInv /\ [Server!Next]_server_vars => FilesInv'
<1> SUFFICES ASSUME FilesInv, [Server!Next]_server_vars PROVE FilesInv'
  OBVIOUS
<1>1. CASE Server!Prepare
  BY <1>1, SameFilesInv DEF FilesInv, Server!Prepare, Server!Serving
<1>2. CASE Server!Read
  <2>1. CASE Server!GiveUp
    BY <1>2, <2>1, GiveUpInv DEF Server!Read, Server!Serving
  <2>2. CASE pc' = "sscanf" /\ UNCHANGED <<i, words, broken>>
    BY <1>2, <2>2, SameFilesInv DEF FilesInv, Server!Read, Server!Serving
  <2> QED
    BY <1>2, <2>1, <2>2 DEF Server!Read
<1>3. CASE Server!Scan
  BY <1>3, SameFilesInv DEF FilesInv, Server!Scan, Server!Serving
<1>4. CASE Server!Write
  <2>1. CASE Server!GiveUp
    BY <1>4, <2>1, GiveUpInv DEF Server!Write, Server!Serving
  <2>2. CASE pc' \in {"close", "killed"} /\ UNCHANGED <<i, broken>>
    BY <1>4, <2>2, SameFilesInv DEF FilesInv, Server!Write, Server!Serving
  <2> QED
    BY <1>4, <2>1, <2>2 DEF Server!Write
<1>5. CASE UNCHANGED server_vars
  BY <1>5, SameFilesInv DEF FilesInv, server_vars, Server!Serving
<1> QED
  BY <1>1, <1>2, <1>3, <1>4, <1>5, SocketInv, AcceptInv, CloseInv, CloseHostInv DEF Server!Next

LEMMA FilesAreAccounted == FilesInv => DescriptorsAccounted
<1> SUFFICES ASSUME FilesInv PROVE Server!Accounted
  BY DEF DescriptorsAccounted
<1>1. {files[fd] : fd \in Theirs} = Clients
  BY DEF FilesInv
<1> QED
  BY <1>1 DEF FilesInv, Theirs, Clients, Server!Accounted

-----------------------------------------------------------------------------
(* The words of a text.                                                    *)

Spellings(X) ==
  {s \in [words : Seq(Seq(X)), inside : BOOLEAN] : s.inside = TRUE => Len(s.words) >= 1}

\* The words that no further character changes.
Settled(s) == IF s.inside = TRUE THEN Len(s.words) - 1 ELSE Len(s.words)

\* A later spelling has the settled words of an earlier one.
Extends(s, r) ==
  /\ Settled(s) <= Settled(r)
  /\ \A k \in 1 .. Settled(s) : r.words[k] = s.words[k]

LEMMA SpellingFacts ==
  ASSUME NEW X
  PROVE  /\ \A s \in Spellings(X) :
              /\ s = [words |-> s.words, inside |-> s.inside]
              /\ s.words \in Seq(Seq(X)) /\ s.inside \in BOOLEAN
              /\ Len(s.words) \in Nat /\ Settled(s) \in Nat
              /\ s.inside = TRUE => Len(s.words) >= 1
         /\ \A ws \in Seq(Seq(X)) : [words |-> ws, inside |-> FALSE] \in Spellings(X)
         /\ \A ws \in Seq(Seq(X)) :
              Len(ws) >= 1 => [words |-> ws, inside |-> TRUE] \in Spellings(X)
<1>1. ASSUME NEW s \in Spellings(X)
      PROVE  /\ s = [words |-> s.words, inside |-> s.inside]
             /\ s.words \in Seq(Seq(X)) /\ s.inside \in BOOLEAN
             /\ s.inside = TRUE => Len(s.words) >= 1
  BY Zenon DEF Spellings
<1>2. ASSUME NEW s \in Spellings(X) PROVE Len(s.words) \in Nat /\ Settled(s) \in Nat
  <2>1. Len(s.words) \in Nat
    BY <1>1
  <2>2. CASE s.inside = TRUE
    <3>1. Len(s.words) >= 1
      BY <1>1, <2>2
    <3> QED
      BY <2>1, <2>2, <3>1 DEF Settled
  <2>3. CASE s.inside # TRUE
    BY <2>1, <2>3 DEF Settled
  <2> QED
    BY <2>2, <2>3
<1>3. ASSUME NEW ws \in Seq(Seq(X)) PROVE [words |-> ws, inside |-> FALSE] \in Spellings(X)
  BY DEF Spellings
<1>4. ASSUME NEW ws \in Seq(Seq(X)), Len(ws) >= 1
      PROVE  [words |-> ws, inside |-> TRUE] \in Spellings(X)
  BY <1>4 DEF Spellings
<1> QED
  BY <1>1, <1>2, <1>3, <1>4

\* What one more character does: it goes to the word begun last, or begins one.
LEMMA OneMoreCharacter ==
  ASSUME NEW X, NEW s \in Spellings(X), NEW char \in X
  PROVE  /\ Server!Spell(s, char) \in Spellings(X)
         /\ Server!Spell(s, char).inside = TRUE <=> char[2] # " "
         /\ Extends(s, Server!Spell(s, char))
<1> DEFINE r == Server!Spell(s, char)
<1> SUFFICES /\ r \in Spellings(X)
             /\ r.inside = TRUE <=> char[2] # " "
             /\ Extends(s, r)
  OBVIOUS
<1>1. /\ s = [words |-> s.words, inside |-> s.inside]
      /\ s.words \in Seq(Seq(X)) /\ s.inside \in BOOLEAN
      /\ Len(s.words) \in Nat
      /\ s.inside = TRUE => Len(s.words) >= 1
  BY SpellingFacts
<1>2. CASE char[2] = " "
  <2>1. r = [s EXCEPT !.inside = FALSE]
    BY <1>2 DEF Server!Spell
  <2>2. r = [words |-> s.words, inside |-> FALSE]
    BY <1>1, <2>1
  <2> HIDE DEF r
  <2>3. r \in Spellings(X)
    BY <1>1, <2>2, SpellingFacts
  <2>4. r.words = s.words /\ r.inside = FALSE
    BY <2>2
  <2>5. Settled(s) <= Settled(r) /\ \A k \in 1 .. Settled(s) : r.words[k] = s.words[k]
    BY <1>1, <2>4 DEF Settled
  <2> QED
    BY <1>2, <2>3, <2>4, <2>5 DEF Extends
<1>3. CASE char[2] # " " /\ s.inside = FALSE
  <2> DEFINE ws == Append(s.words, <<char>>)
  <2>1. r = [words |-> ws, inside |-> TRUE]
    BY <1>3, Zenon DEF Server!Spell
  <2>2. /\ ws \in Seq(Seq(X)) /\ Len(ws) = Len(s.words) + 1
        /\ \A k \in 1 .. Len(s.words) : ws[k] = s.words[k]
    <3>1. <<char>> \in Seq(X)
      OBVIOUS
    <3> HIDE DEF r
    <3> QED
      BY <1>1, <3>1, AppendProperties
  <2> HIDE DEF r, ws
  <2>3. r \in Spellings(X)
    <3>1. Len(ws) >= 1
      BY <1>1, <2>2
    <3> QED
      BY <2>1, <2>2, <3>1, SpellingFacts
  <2>4. r.words = ws /\ r.inside = TRUE
    BY <2>1
  <2>5. Settled(s) = Len(s.words) /\ Settled(r) = Len(s.words)
    <3>1. Len(s.words) \in Nat /\ s.inside = FALSE /\ Len(r.words) = Len(s.words) + 1
      BY <1>1, <1>3, <2>2, <2>4
    <3> QED
      BY <2>4, <3>1 DEF Settled
  <2>6. Extends(s, r)
    BY <1>1, <2>2, <2>4, <2>5 DEF Extends
  <2> QED
    BY <1>3, <2>3, <2>4, <2>6
<1>4. CASE char[2] # " " /\ s.inside = TRUE
  <2> DEFINE n == Len(s.words)
             ws == [s.words EXCEPT ![n] = Append(s.words[n], char)]
  <2>1. r = [words |-> ws, inside |-> TRUE]
    <3>1. r = [s EXCEPT !.words[Len(s.words)] = Append(@, char)]
      BY <1>4, Zenon DEF Server!Spell
    <3> QED
      BY <1>1, <1>4, <3>1
  <2>2. /\ ws \in Seq(Seq(X)) /\ Len(ws) = n
        /\ \A k \in 1 .. n - 1 : ws[k] = s.words[k]
    <3>1. n \in 1 .. Len(s.words)
      <4>1. Len(s.words) \in Nat /\ Len(s.words) >= 1
        BY <1>1, <1>4
      <4> QED
        BY <4>1
    <3>2. s.words[n] \in Seq(X)
      BY <1>1, <3>1
    <3>3. Append(s.words[n], char) \in Seq(X)
      BY <3>2, AppendProperties
    <3> HIDE DEF r
    <3> QED
      BY <1>1, <3>1, <3>3, ExceptSeq
  <2> HIDE DEF r, ws
  <2>3. r \in Spellings(X)
    BY <1>1, <1>4, <2>1, <2>2, SpellingFacts
  <2>4. r.words = ws /\ r.inside = TRUE
    BY <2>1
  <2>5. Settled(s) = n - 1 /\ Settled(r) = n - 1
    BY <1>1, <1>4, <2>2, <2>4 DEF Settled
  <2>6. Extends(s, r)
    BY <1>1, <2>2, <2>4, <2>5 DEF Extends
  <2> QED
    BY <1>4, <2>3, <2>4, <2>6
<1> QED
  BY <1>1, <1>2, <1>3, <1>4

\* The spellings of a text, character by character.
SpellingOf(f, text, bound) ==
  f = [n \in 0 .. bound |->
         IF n = 0 THEN Server!Begin ELSE Server!Spell(f[n - 1], text[n])]

LEMMA SpellingExists ==
  ASSUME NEW text, NEW bound \in Nat
  PROVE  \E f : SpellingOf(f, text, bound)
<1> DEFINE D == {l \in Nat : \E f : SpellingOf(f, text, l)}
<1>1. 0 \in D
  <2> DEFINE f == [n \in 0 .. 0 |-> Server!Begin]
  <2>1. SpellingOf(f, text, 0)
    BY DEF SpellingOf
  <2> HIDE DEF f
  <2> QED
    BY <2>1
<1>2. ASSUME NEW l \in Nat, l \in D PROVE l + 1 \in D
  <2>1. PICK f : SpellingOf(f, text, l)
    BY <1>2
  <2> DEFINE g == [n \in 0 .. l + 1 |->
                     IF n = 0 THEN Server!Begin ELSE Server!Spell(f[n - 1], text[n])]
             h == [n \in 0 .. l + 1 |->
                     IF n = 0 THEN Server!Begin ELSE Server!Spell(g[n - 1], text[n])]
  <2>2. ASSUME NEW n \in 0 .. l PROVE g[n] = f[n]
    BY <2>1 DEF SpellingOf
  <2>3. ASSUME NEW n \in 0 .. l + 1 PROVE g[n] = h[n]
    <3>1. CASE n = 0
      BY <3>1
    <3>2. CASE n # 0
      <4>1. n - 1 \in 0 .. l
        BY <3>2
      <4>2. g[n - 1] = f[n - 1]
        BY <2>2, <4>1
      <4>3. g[n] = Server!Spell(f[n - 1], text[n]) /\ h[n] = Server!Spell(g[n - 1], text[n])
        BY <3>2
      <4> HIDE DEF g, h
      <4> QED
        BY <4>2, <4>3
    <3> QED
      BY <3>1, <3>2
  <2>4. g = h
    BY <2>3, Zenon
  <2>5. SpellingOf(g, text, l + 1)
    BY <2>4, Zenon DEF SpellingOf
  <2> HIDE DEF g, h
  <2> QED
    BY <2>5
<1> HIDE DEF D
<1>3. bound \in D
  BY <1>1, <1>2, NatSetInduction
<1> QED
  BY <1>3 DEF D

LEMMA SpeltIs ==
  ASSUME NEW text, Len(text) \in Nat
  PROVE  /\ SpellingOf(Server!Spelt(text), text, Len(text))
         /\ Server!Spelt(text)[0] = Server!Begin
         /\ \A n \in 1 .. Len(text) :
              Server!Spelt(text)[n] = Server!Spell(Server!Spelt(text)[n - 1], text[n])
<1>1. SpellingOf(Server!Spelt(text), text, Len(text))
  <2> DEFINE f == CHOOSE f : SpellingOf(f, text, Len(text))
  <2>1. SpellingOf(f, text, Len(text))
    BY SpellingExists, Zenon
  <2>2. f = Server!Spelt(text)
    BY DEF SpellingOf, Server!Spelt
  <2> QED
    BY <2>1, <2>2
<1> DEFINE f == Server!Spelt(text)
<1>2. f = [n \in 0 .. Len(text) |->
             IF n = 0 THEN Server!Begin ELSE Server!Spell(f[n - 1], text[n])]
  BY <1>1, Zenon DEF SpellingOf
<1> HIDE DEF f
<1>3. f[0] = Server!Begin /\ \A n \in 1 .. Len(text) : f[n] = Server!Spell(f[n - 1], text[n])
  BY <1>2
<1> QED
  BY <1>1, <1>3 DEF f

LEMMA SpellingTypes ==
  ASSUME NEW X, NEW text \in Seq(X), NEW n \in 0 .. Len(text)
  PROVE  /\ Server!Spelt(text)[n] \in Spellings(X)
         /\ Server!Spelt(text)[n].inside = TRUE <=> n # 0 /\ text[n][2] # " "
<1> DEFINE f == Server!Spelt(text)
           D == {l \in 0 .. Len(text) : /\ f[l] \in Spellings(X)
                                        /\ f[l].inside = TRUE <=> l # 0 /\ text[l][2] # " "}
<1>0. Len(text) \in Nat /\ \A l \in 1 .. Len(text) : text[l] \in X
  OBVIOUS
<1>1. f[0] = Server!Begin /\ \A l \in 1 .. Len(text) : f[l] = Server!Spell(f[l - 1], text[l])
  BY <1>0, SpeltIs
<1> HIDE DEF f
<1>2. 0 \in D
  <2>1. Server!Begin \in Spellings(X) /\ Server!Begin.inside = FALSE
    <3>1. <<>> \in Seq(Seq(X))
      OBVIOUS
    <3> QED
      BY <3>1, SpellingFacts DEF Server!Begin
  <2> QED
    BY <1>0, <1>1, <2>1
<1>3. ASSUME NEW l \in 0 .. Len(text) - 1, l \in D PROVE l + 1 \in D
  <2>1. /\ l + 1 \in 1 .. Len(text) /\ l + 1 \in 0 .. Len(text) /\ l + 1 # 0
        /\ (l + 1) - 1 = l /\ f[l] \in Spellings(X)
    <3>1. f[l] \in Spellings(X)
      BY <1>3
    <3>2. Len(text) \in Nat
      BY <1>0
    <3> QED
      BY <3>1, <3>2
  <2>3. text[l + 1] \in X
    BY <1>0, <2>1
  <2>2. f[l + 1] = Server!Spell(f[l], text[l + 1])
    BY <1>1, <2>1
  <2>4. /\ f[l + 1] \in Spellings(X)
        /\ f[l + 1].inside = TRUE <=> text[l + 1][2] # " "
    BY <2>1, <2>2, <2>3, OneMoreCharacter, Zenon
  <2> QED
    BY <2>1, <2>4
<1> HIDE DEF D
<1>4. n \in D
  BY <1>0, <1>2, <1>3, SetInduction
<1> QED
  BY <1>4 DEF D, f

\* Texts that begin alike are spelt alike as far.
LEMMA SameBeginning ==
  ASSUME NEW X, NEW a \in Seq(X), NEW b \in Seq(X), NEW bound \in Nat,
         bound <= Len(a), bound <= Len(b), \A k \in 1 .. bound : a[k] = b[k]
  PROVE  Server!Spelt(a)[bound] = Server!Spelt(b)[bound]
<1> DEFINE f == Server!Spelt(a)
           g == Server!Spelt(b)
           D == {l \in 0 .. bound : f[l] = g[l]}
<1>0. Len(a) \in Nat /\ Len(b) \in Nat
  OBVIOUS
<1>1. /\ f[0] = Server!Begin /\ \A l \in 1 .. Len(a) : f[l] = Server!Spell(f[l - 1], a[l])
      /\ g[0] = Server!Begin /\ \A l \in 1 .. Len(b) : g[l] = Server!Spell(g[l - 1], b[l])
  BY <1>0, SpeltIs
<1> HIDE DEF f, g
<1>2. 0 \in D
  BY <1>1
<1>3. ASSUME NEW l \in 0 .. bound - 1, l \in D PROVE l + 1 \in D
  <2>1. l + 1 \in 1 .. Len(a) /\ l + 1 \in 1 .. Len(b) /\ (l + 1) - 1 = l /\ a[l + 1] = b[l + 1]
    BY <1>0
  <2>2. f[l + 1] = Server!Spell(f[l], a[l + 1]) /\ g[l + 1] = Server!Spell(g[l], b[l + 1])
    BY <1>1, <2>1
  <2> QED
    BY <1>3, <2>1, <2>2
<1> HIDE DEF D
<1>4. bound \in D
  <2>1. \A l \in 0 .. bound : l \in D
    BY <1>2, <1>3, SetInduction
  <2> QED
    BY <2>1
<1> QED
  BY <1>4 DEF D, f, g

\* What is settled after some characters stays so to the end of the text.
LEMMA SettledStays ==
  ASSUME NEW X, NEW text \in Seq(X), NEW n \in 0 .. Len(text)
  PROVE  Extends(Server!Spelt(text)[n], Server!Spelt(text)[Len(text)])
<1> DEFINE f == Server!Spelt(text)
           bound == Len(text) - n
           D == {l \in 0 .. bound : Extends(f[n], f[n + l])}
<1>0. Len(text) \in Nat /\ bound \in Nat /\ \A l \in 1 .. Len(text) : text[l] \in X
  OBVIOUS
<1>1. /\ \A l \in 1 .. Len(text) : f[l] = Server!Spell(f[l - 1], text[l])
      /\ \A l \in 0 .. Len(text) : f[l] \in Spellings(X)
  BY <1>0, SpeltIs, SpellingTypes
<1>2. \A s \in Spellings(X) : Settled(s) \in Nat
  BY SpellingFacts
<1> HIDE DEF f
<1>3. 0 \in D
  <2>1. Settled(f[n]) \in Nat /\ n + 0 = n
    BY <1>1, <1>2
  <2> QED
    BY <1>0, <2>1 DEF Extends
<1>4. ASSUME NEW l \in 0 .. bound - 1, l \in D PROVE l + 1 \in D
  <2>1. /\ n + l \in 0 .. Len(text) /\ n + l + 1 \in 1 .. Len(text) /\ (n + l + 1) - 1 = n + l
        /\ n + (l + 1) = n + l + 1 /\ l + 1 \in 0 .. bound /\ text[n + l + 1] \in X
    BY <1>0
  <2>2. f[n + l + 1] = Server!Spell(f[n + l], text[n + l + 1])
    BY <1>1, <2>1
  <2>3. Extends(f[n + l], f[n + l + 1]) /\ Extends(f[n], f[n + l])
    BY <1>1, <1>4, <2>1, <2>2, OneMoreCharacter
  <2>4. /\ Settled(f[n]) \in Nat /\ Settled(f[n + l]) \in Nat /\ Settled(f[n + l + 1]) \in Nat
    BY <1>1, <1>2, <2>1
  <2>5. Extends(f[n], f[n + l + 1])
    BY <2>3, <2>4 DEF Extends
  <2> QED
    BY <2>1, <2>5
<1> HIDE DEF D
<1>5. bound \in D
  <2> HIDE DEF bound
  <2>1. \A l \in 0 .. bound : l \in D
    BY <1>0, <1>3, <1>4, SetInduction
  <2> QED
    BY <1>0, <2>1
<1>6. n + bound = Len(text)
  BY <1>0
<1> QED
  BY <1>5, <1>6 DEF D, f

\* The words of a text that came whole are those settled at its end.
LEMMA WholeIsSettled ==
  ASSUME NEW X, NEW text \in Seq(X)
  PROVE  /\ Len(Server!Whole(text)) = Settled(Server!Spelt(text)[Len(text)])
         /\ \A k \in 1 .. Len(Server!Whole(text)) :
              Server!Whole(text)[k] = Server!Spelt(text)[Len(text)].words[k]
<1> DEFINE s == Server!Spelt(text)[Len(text)]
<1>0. Len(text) \in Nat /\ Len(text) \in 0 .. Len(text)
  OBVIOUS
<1>1. s \in Spellings(X) /\ (s.inside = TRUE <=> Len(text) # 0 /\ text[Len(text)][2] # " ")
  BY <1>0, SpellingTypes
<1>2. Server!Whole(text) = IF s.inside = TRUE THEN SubSeq(s.words, 1, Len(s.words) - 1) ELSE s.words
  <2>1. text # <<>> <=> Len(text) # 0
    OBVIOUS
  <2>2. Server!Last(text) = text[Len(text)]
    BY DEF Server!Last
  <2>3. Server!Words(text) = s.words
    BY DEF Server!Words
  <2> HIDE DEF s
  <2> QED
    BY <1>1, <2>1, <2>2, <2>3 DEF Server!Whole
<1> HIDE DEF s
<1>3. s.words \in Seq(Seq(X)) /\ Len(s.words) \in Nat /\ (s.inside = TRUE => Len(s.words) >= 1)
  BY <1>1, SpellingFacts
<1>4. CASE s.inside = TRUE
  <2>1. /\ Len(SubSeq(s.words, 1, Len(s.words) - 1)) = Len(s.words) - 1
        /\ \A k \in 1 .. Len(s.words) - 1 : SubSeq(s.words, 1, Len(s.words) - 1)[k] = s.words[k]
    BY <1>3, <1>4, SubSeqProperties
  <2> QED
    BY <1>2, <1>3, <1>4, <2>1 DEF Settled, s
<1>5. CASE s.inside # TRUE
  BY <1>2, <1>3, <1>5 DEF Settled, s
<1> QED
  BY <1>4, <1>5

LEMMA TextFacts ==
  ASSUME NEW X, NEW text \in Seq(X)
  PROVE  /\ Len(text) \in Nat /\ DOMAIN text = 1 .. Len(text)
         /\ \A k \in 1 .. Len(text) : text[k] \in X
  OBVIOUS

\* A client's text, of which each character remembers whose it is.
Letters == {"c", " "}
Characters == Nat \X Letters

LEMMA ByFacts ==
  ASSUME NEW text \in Seq(Letters), NEW client \in Nat
  PROVE  /\ Server!By(client, text) \in Seq(Characters)
         /\ Len(Server!By(client, text)) = Len(text)
         /\ \A k \in 1 .. Len(text) : Server!By(client, text)[k] = <<client, text[k]>>
<1>1. /\ Len(text) \in Nat /\ DOMAIN text = 1 .. Len(text)
      /\ \A k \in 1 .. Len(text) : text[k] \in Letters
  BY TextFacts
<1>2. Server!By(client, text) = [k \in 1 .. Len(text) |-> <<client, text[k]>>]
  BY <1>1, Zenon DEF Server!By
<1>3. \A k \in 1 .. Len(text) : <<client, text[k]>> \in Characters
  BY <1>1 DEF Characters
<1> DEFINE own == Server!By(client, text)
<1> HIDE DEF own
<1>4. own \in Seq(Characters) /\ Len(own) = Len(text)
      /\ \A k \in 1 .. Len(text) : own[k] = <<client, text[k]>>
  BY <1>1, <1>2, <1>3 DEF own
<1> QED
  BY <1>4 DEF own

\* The buffer begins with what was read last, from the client being served, and the
\* words are the first three of the whole buffer.
WordsInv ==
  /\ BUFFER \in Seq(Characters)
  /\ pc \in {"sscanf", "write"} =>
       /\ read_text \in Seq(Letters)
       /\ Len(read_text) <= Len(BUFFER)
       /\ \A k \in 1 .. Len(read_text) : BUFFER[k] = <<i, read_text[k]>>
  /\ pc = "write" =>
       words = LET found == Server!Words(BUFFER)
               IN  SubSeq(found, 1, IF Len(found) < 3 THEN Len(found) ELSE 3)

LEMMA WordsInvInit == Server!Init => WordsInv
<1> SUFFICES ASSUME Server!Init PROVE WordsInv
  OBVIOUS
<1>1. BUFFER = <<>> /\ pc = "socket"
  BY DEF Server!Init
<1> QED
  BY <1>1 DEF WordsInv

LEMMA ReadWordsInv ==
  ASSUME FilesInv, WordsInv, Server!Read, pc' = "sscanf"
  PROVE  WordsInv'
<1>1. /\ i' = i /\ i \in Nat
      /\ read_text' \in Requests
      /\ BUFFER' = Server!ReadInto(Server!By(i, read_text'), BUFFER)
  BY DEF FilesInv, Server!Read, Server!GiveUp, Server!NextRound
<1>2. PICK text : text = read_text' /\ text \in Seq(Letters)
  BY <1>1, RequestsAssumption DEF Letters
<1> DEFINE own == Server!By(i, text)
           rest == SubSeq(BUFFER, Len(own) + 1, Len(BUFFER))
<1>3. /\ own \in Seq(Characters) /\ Len(own) = Len(text) /\ Len(own) \in Nat
      /\ \A k \in 1 .. Len(text) : own[k] = <<i, text[k]>>
  BY <1>1, <1>2, ByFacts, TextFacts
<1>4. BUFFER \in Seq(Characters) /\ Len(BUFFER) \in Nat
  <2>1. BUFFER \in Seq(Characters)
    BY DEF WordsInv
  <2> QED
    BY <2>1, TextFacts
<1>5. rest \in Seq(Characters) /\ Len(rest) \in Nat
  <2>1. \A k \in Len(own) + 1 .. Len(BUFFER) : BUFFER[k] \in Characters
    BY <1>3, <1>4, TextFacts
  <2> HIDE DEF own
  <2>2. rest \in Seq(Characters)
    BY <1>3, <1>4, <2>1, SubSeqProperties
  <2> QED
    BY <2>2
<1>6. BUFFER' = own \o rest
  BY <1>1, <1>2 DEF Server!ReadInto
<1>7. /\ BUFFER' \in Seq(Characters) /\ Len(BUFFER') = Len(own) + Len(rest)
      /\ \A k \in 1 .. Len(own) : BUFFER'[k] = own[k]
  <2> HIDE DEF own, rest
  <2>1. /\ own \o rest \in Seq(Characters)
        /\ Len(own \o rest) = Len(own) + Len(rest)
        /\ \A k \in 1 .. Len(own) + Len(rest) :
             (own \o rest)[k] = IF k <= Len(own) THEN own[k] ELSE rest[k - Len(own)]
    BY <1>3, <1>5, ConcatProperties
  <2>2. \A k \in 1 .. Len(own) : k \in 1 .. Len(own) + Len(rest) /\ k <= Len(own)
    BY <1>3, <1>5
  <2> QED
    BY <1>6, <2>1, <2>2
<1>8. Len(text) <= Len(BUFFER') /\ \A k \in 1 .. Len(text) : BUFFER'[k] = <<i, text[k]>>
  <2> HIDE DEF own, rest
  <2> QED
    BY <1>3, <1>5, <1>7
<1> QED
  BY <1>1, <1>2, <1>7, <1>8 DEF WordsInv

LEMMA WordsInvStep == FilesInv /\ WordsInv /\ [Server!Next]_server_vars => WordsInv'
<1> SUFFICES ASSUME FilesInv, WordsInv, [Server!Next]_server_vars PROVE WordsInv'
  OBVIOUS
<1>1. ASSUME UNCHANGED BUFFER, pc' \notin {"sscanf", "write"} PROVE WordsInv'
  BY <1>1 DEF WordsInv
<1>2. ASSUME Server!NextRound, UNCHANGED BUFFER PROVE WordsInv'
  <2>1. pc' \in {"close host", "accept"}
    BY <1>2, Zenon DEF Server!NextRound
  <2> QED
    BY <1>1, <1>2, <2>1
<1>3. CASE Server!Socket \/ Server!Prepare \/ Server!CloseHost
  BY <1>1, <1>3 DEF Server!Socket, Server!Prepare, Server!CloseHost, Server!unread
<1>4. CASE Server!Accept \/ Server!Close
  BY <1>1, <1>2, <1>4 DEF Server!Accept, Server!Close, Server!unread
<1>5. CASE Server!Read
  <2>1. CASE Server!GiveUp /\ UNCHANGED BUFFER
    BY <1>2, <2>1 DEF Server!GiveUp
  <2>2. CASE pc' = "sscanf"
    BY <1>5, <2>2, ReadWordsInv
  <2> QED
    BY <1>5, <2>1, <2>2 DEF Server!Read, Server!unread
<1>6. CASE Server!Scan
  BY <1>6 DEF WordsInv, Server!Scan
<1>7. CASE Server!Write
  <2>1. UNCHANGED BUFFER
    BY <1>7 DEF Server!Write, Server!unread
  <2>2. CASE Server!GiveUp
    BY <1>2, <2>1, <2>2 DEF Server!GiveUp
  <2>3. CASE pc' \in {"close", "killed"}
    BY <1>1, <2>1, <2>3
  <2> QED
    BY <1>7, <2>2, <2>3 DEF Server!Write
<1>8. CASE UNCHANGED server_vars
  BY <1>8 DEF WordsInv, server_vars
<1> QED
  BY <1>3, <1>4, <1>5, <1>6, <1>7, <1>8 DEF Server!Next

\* The settled words of a request are settled in the buffer it begins, too.
LEMMA WordsAreOwn == FilesInv /\ WordsInv => OwnWords
<1> SUFFICES ASSUME FilesInv, WordsInv, pc = "write"
             PROVE  /\ \A k \in DOMAIN words :
                         k <= Len(Server!Whole(Server!By(i, read_text)))
                           => words[k] = Server!Whole(Server!By(i, read_text))[k]
                    /\ Len(Server!Whole(Server!By(i, read_text))) >= 3 => Len(words) = 3
  BY DEF OwnWords, Server!OwnWords
<1> DEFINE X == Characters
           text == Server!By(i, read_text)
           own == Server!Whole(text)
           found == Server!Words(BUFFER)
           n == Len(text)
<1>1. text \in Seq(X) /\ n \in Nat /\ n <= Len(BUFFER) /\ \A k \in 1 .. n : BUFFER[k] = text[k]
  <2>1. /\ read_text \in Seq(Letters) /\ i \in Nat
        /\ Len(read_text) <= Len(BUFFER)
        /\ \A k \in 1 .. Len(read_text) : BUFFER[k] = <<i, read_text[k]>>
    BY DEF FilesInv, WordsInv
  <2>2. Len(read_text) \in Nat
    BY <2>1, TextFacts
  <2>3. /\ text \in Seq(X) /\ n = Len(read_text)
        /\ \A k \in 1 .. Len(read_text) : text[k] = <<i, read_text[k]>>
    BY <2>1, ByFacts
  <2> HIDE DEF text, n, X
  <2> QED
    BY <2>1, <2>2, <2>3
<1>2. BUFFER \in Seq(X) /\ Len(BUFFER) \in Nat
  <2>1. BUFFER \in Seq(X)
    BY DEF WordsInv
  <2> QED
    BY <2>1, TextFacts
<1> HIDE DEF X, text
<1> DEFINE s == Server!Spelt(BUFFER)[n]
           r == Server!Spelt(BUFFER)[Len(BUFFER)]
<1>3. Server!Spelt(text)[n] = s
  <2>1. \A k \in 1 .. n : text[k] = BUFFER[k]
    BY <1>1
  <2> QED
    BY <1>1, <1>2, <2>1, SameBeginning
<1>4. n \in 0 .. Len(BUFFER) /\ Len(BUFFER) \in 0 .. Len(BUFFER)
  BY <1>1, <1>2
<1>5. s \in Spellings(X) /\ r \in Spellings(X)
  BY <1>2, <1>4, SpellingTypes
<1>6. Extends(s, r)
  BY <1>2, <1>4, SettledStays
<1>7. Len(own) = Settled(s) /\ \A k \in 1 .. Len(own) : own[k] = s.words[k]
  <2>1. /\ Len(own) = Settled(Server!Spelt(text)[n])
        /\ \A k \in 1 .. Len(own) : own[k] = Server!Spelt(text)[n].words[k]
    BY <1>1, WholeIsSettled
  <2> HIDE DEF own, n, s
  <2> QED
    BY <1>3, <2>1
<1>8. found = r.words /\ words = SubSeq(found, 1, IF Len(found) < 3 THEN Len(found) ELSE 3)
  BY DEF WordsInv, Server!Words
<1> HIDE DEF s, r, own, found, n
<1>9. /\ r.words \in Seq(Seq(X)) /\ Len(r.words) \in Nat
      /\ Settled(s) \in Nat /\ Settled(r) \in Nat /\ Settled(r) <= Len(r.words)
  <2>1. /\ r.words \in Seq(Seq(X)) /\ Len(r.words) \in Nat
        /\ Settled(s) \in Nat /\ Settled(r) \in Nat
    BY <1>5, SpellingFacts
  <2> QED
    BY <2>1 DEF Settled
<1>10. PICK last : /\ last = IF Len(r.words) < 3 THEN Len(r.words) ELSE 3
                   /\ last \in Nat /\ last <= Len(r.words) /\ last <= 3
                   /\ Len(r.words) >= 3 => last = 3
  BY <1>9
<1>11. /\ DOMAIN words = 1 .. last /\ Len(words) = last
       /\ \A k \in 1 .. last : words[k] = r.words[k]
  <2>1. words = SubSeq(r.words, 1, last)
    BY <1>8, <1>10
  <2>2. \A k \in 1 .. last : r.words[k] \in Seq(X)
    BY <1>9, <1>10
  <2>3. /\ SubSeq(r.words, 1, last) \in Seq(Seq(X))
        /\ Len(SubSeq(r.words, 1, last)) = IF 1 <= last THEN last - 1 + 1 ELSE 0
        /\ \A k \in 1 .. last - 1 + 1 : SubSeq(r.words, 1, last)[k] = r.words[1 + k - 1]
    BY <1>10, <2>2, SubSeqProperties
  <2>4. words \in Seq(Seq(X)) /\ Len(words) = last
    BY <1>10, <2>1, <2>3
  <2>5. DOMAIN words = 1 .. last
    BY <2>4
  <2>6. ASSUME NEW k \in 1 .. last PROVE words[k] = r.words[k]
    <3>1. k \in 1 .. last - 1 + 1 /\ 1 + k - 1 = k
      BY <1>10
    <3> QED
      BY <2>1, <2>3, <3>1
  <2> QED
    BY <2>4, <2>5, <2>6
<1>12. /\ Settled(s) <= Settled(r)
       /\ \A k \in 1 .. Settled(s) : r.words[k] = s.words[k]
  BY <1>6 DEF Extends
<1>13. ASSUME NEW k \in DOMAIN words, k <= Len(own) PROVE words[k] = own[k]
  <2>1. k \in 1 .. last /\ k \in 1 .. Settled(s) /\ k \in 1 .. Len(own)
    BY <1>7, <1>9, <1>10, <1>11, <1>13
  <2> QED
    BY <1>7, <1>11, <1>12, <2>1
<1>14. ASSUME Len(own) >= 3 PROVE Len(words) = 3
  BY <1>7, <1>9, <1>10, <1>11, <1>12, <1>14
<1> QED
  BY <1>13, <1>14 DEF own, text

-----------------------------------------------------------------------------
(* Both programs.                                                          *)

\* A round of either program keeps the invariant of the other.
LEMMA BothInvStep == ThreadInv /\ FilesInv /\ [MCNext]_MCvars => ThreadInv' /\ FilesInv'
<1> SUFFICES ASSUME ThreadInv, FilesInv, [MCNext]_MCvars PROVE ThreadInv' /\ FilesInv'
  OBVIOUS
<1>1. [Next]_vars /\ [Server!Next]_server_vars
  BY DEF MCNext, MCvars, Threads
<1> QED
  BY <1>1, ThreadInvStep, FilesInvStep

\* Every descriptor is accounted for (http_server.c:93-139): whatever calls fail, and
\* however many rounds and descriptors there are, open are the host's descriptor, that
\* of the client being served and exactly one for each client whose read or write failed.
THEOREM EveryDescriptorIsAccounted == MCSpec => []DescriptorsAccounted
<1>1. MCInit => ThreadInv /\ FilesInv
  BY ThreadInvInit, FilesInvInit DEF MCInit
<1> QED
  BY <1>1, BothInvStep, FilesAreAccounted, PTL DEF MCSpec

\* The words logged for a client that came whole are its own (http_server.c:101-115),
\* whatever earlier clients left in the buffer and wherever the kernel cuts a request
\* off: for every number of rounds and of descriptors and every set of requests.
THEOREM LoggedWordsAreOwn == MCSpec => []OwnWords
<1>1. MCInit => ThreadInv /\ FilesInv /\ WordsInv
  BY ThreadInvInit, FilesInvInit, WordsInvInit DEF MCInit
<1>2. [MCNext]_MCvars => [Server!Next]_server_vars
  BY DEF MCNext, MCvars, Threads
<1>3. ThreadInv /\ FilesInv /\ WordsInv /\ [MCNext]_MCvars => (ThreadInv /\ FilesInv /\ WordsInv)'
  BY <1>2, BothInvStep, WordsInvStep
<1> QED
  BY <1>1, <1>3, WordsAreOwn, PTL DEF MCSpec

\* http_server.c alone, without the other program.
THEOREM ServerAccounts == Server!Spec => []Server!Accounted
<1>1. [Server!Next]_Server!vars => [Server!Next]_server_vars
  BY DEF Server!vars, server_vars, Server!unread
<1>2. FilesInv => Server!Accounted
  BY FilesAreAccounted DEF DescriptorsAccounted
<1> QED
  BY <1>1, <1>2, FilesInvInit, FilesInvStep, PTL DEF Server!Spec
=============================================================================
