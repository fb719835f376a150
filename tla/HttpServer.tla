----------------------------- MODULE HttpServer -----------------------------
(***************************************************************************)
(* src/http_server.c: one process answers one client after another.  A     *)
(* call of the kernel is a step; it may fail, and a read or a write may do *)
(* only a part.  A round of the loop serves one client, so a client is     *)
(* named by its round; its request is a text of letters and white space, of*)
(* which each character remembers whose it is.  The words of a request fit *)
(* their arrays and a request is shorter than the buffer.                  *)
(***************************************************************************)
EXTENDS Naturals, SequencesExt

CONSTANTS
  ROUNDS,     \* 100 in the code
  OPEN_MAX,   \* the descriptors the process may have; it starts with 0, 1 and 2
  Requests    \* what a read may return: texts over {"c", " "}

VARIABLES
  pc,             \* the call that comes next, "return", "exit" or "killed"
  i,              \* the round
  client_socket,
  files,          \* whose each open descriptor is: the host's or a client's
  BUFFER,         \* its characters up to the first that is 0: <<client, letter>>
  read_text,      \* what the last read returned
  words,          \* method, uri and version, as far as sscanf found them
  broken          \* the clients for which read or write failed

vars == <<pc, i, client_socket, files, BUFFER, read_text, words, broken>>
unread == <<BUFFER, read_text, words>>

Host == 0       \* clients are numbered from 1
Free(fs) == (3 .. OPEN_MAX - 1) \ DOMAIN fs
Lowest(S) == CHOOSE fd \in S : \A other \in S : fd <= other

Opened(fd, whose) == [d \in DOMAIN files \cup {fd} |-> IF d = fd THEN whose ELSE files[d]]
Closed(fd) == [d \in DOMAIN files \ {fd} |-> files[d]]

Init ==
  /\ pc = "socket" /\ i = 1
  /\ client_socket = 0
  /\ files = <<>>
  /\ BUFFER = <<>> /\ read_text = <<>> /\ words = <<>>
  /\ broken = {}

-----------------------------------------------------------------------------
\* Every call before the loop must succeed, or the process exits.
Socket ==
  /\ pc = "socket"
  /\ \/ /\ Free(files) # {}
        /\ files' = Opened(Lowest(Free(files)), Host)
        /\ pc' = "setsockopt"
     \/ pc' = "exit" /\ UNCHANGED files
  /\ UNCHANGED <<i, client_socket, unread, broken>>

Prepare ==
  /\ \/ pc = "setsockopt" /\ pc' \in {"bind", "exit"}
     \/ pc = "bind" /\ pc' \in {"listen", "exit"}
     \/ pc = "listen" /\ pc' \in {"accept", "exit"}
  /\ UNCHANGED <<i, client_socket, files, unread, broken>>

NextRound == i' = i + 1 /\ pc' = IF i = ROUNDS THEN "close host" ELSE "accept"

\* accept fails when there is no descriptor left, or when the client has gone.
Accept ==
  /\ pc = "accept"
  /\ \/ /\ Free(files) # {}
        /\ client_socket' = Lowest(Free(files))
        /\ files' = Opened(client_socket', i)
        /\ pc' = "read" /\ UNCHANGED i
     \/ NextRound /\ UNCHANGED <<client_socket, files>>
  /\ UNCHANGED <<unread, broken>>

\* continue after an error: the client's descriptor stays open.
GiveUp == broken' = broken \cup {i} /\ NextRound

By(client, text) == [k \in DOMAIN text |-> <<client, text[k]>>]

\* Fault: what is read is put one character too far.
ReadIntoShifted(text, buffer) ==
  IF buffer = <<>> THEN text ELSE <<Head(buffer)>> \o text \o SubSeq(buffer, Len(text) + 2, Len(buffer))

\* read into BUFFER: what is read takes the place of the first characters, and no 0 is
\* put after it.
ReadInto(text, buffer) == text \o SubSeq(buffer, Len(text) + 1, Len(buffer))

\* read returns an error, a part of the request, or 0 if the client has closed.
Read ==
  /\ pc = "read"
  /\ \/ GiveUp /\ UNCHANGED unread
     \/ /\ read_text' \in Requests
        /\ BUFFER' = ReadInto(By(i, read_text'), BUFFER)
        /\ pc' = "sscanf"
        /\ UNCHANGED <<i, words, broken>>
  /\ UNCHANGED <<client_socket, files>>

\* One more character of a text; its words so far are in m.
Spell(m, char) ==
  CASE char[2] = " "            -> [m EXCEPT !.inside = FALSE]
    [] ~m.inside /\ char[2] # " " -> [words |-> Append(m.words, <<char>>), inside |-> TRUE]
    [] m.inside /\ char[2] # " "  ->
         [m EXCEPT !.words[Len(m.words)] = Append(@, char)]
Begin == [words |-> <<>>, inside |-> FALSE]
Spelt(text) ==
  LET after[n \in 0 .. Len(text)] == IF n = 0 THEN Begin ELSE Spell(after[n - 1], text[n])
  IN  after
Words(text) == Spelt(text)[Len(text)].words

\* The variables without a word are not initialised.
Scan ==
  /\ pc = "sscanf"
  /\ words' = LET found == Words(BUFFER) IN SubSeq(found, 1, IF Len(found) < 3 THEN Len(found) ELSE 3)
  /\ pc' = "write"
  /\ UNCHANGED <<i, client_socket, files, BUFFER, read_text, broken>>

\* A short write counts as a whole one.  When the client has reset the
\* connection write fails, or SIGPIPE ends the process.
Write ==
  /\ pc = "write"
  /\ \/ pc' = "close" /\ UNCHANGED <<i, broken>>
     \/ GiveUp
     \/ pc' = "killed" /\ UNCHANGED <<i, broken>>
  /\ UNCHANGED <<client_socket, files, unread>>

\* Fault: the client's descriptor is closed only if the read was not empty.
CloseIfRead ==
  /\ pc = "close"
  /\ files' = IF read_text = <<>> THEN files ELSE Closed(client_socket)
  /\ NextRound
  /\ UNCHANGED <<client_socket, unread, broken>>

Close ==
  /\ pc = "close"
  /\ files' = Closed(client_socket)
  /\ NextRound
  /\ UNCHANGED <<client_socket, unread, broken>>

CloseHost ==
  /\ pc = "close host"
  /\ files' = [d \in {fd \in DOMAIN files : files[fd] # Host} |-> files[d]]
  /\ pc' = "return"
  /\ UNCHANGED <<i, client_socket, unread, broken>>

Next == Socket \/ Prepare \/ Accept \/ Read \/ Scan \/ Write \/ Close \/ CloseHost

Spec == Init /\ [][Next]_vars

-----------------------------------------------------------------------------
(* Properties.                                                             *)

Serving == pc \in {"read", "sscanf", "write", "close", "killed"}

\* Every descriptor is accounted for (lines 93-139): besides the host's, open are
\* that of the client being served and exactly one for every client whose read or
\* write failed; what is read and written for a client goes through its own.
Accounted ==
  LET clients == broken \cup (IF Serving THEN {i} ELSE {})
      theirs == {fd \in DOMAIN files : files[fd] # Host}
  IN  /\ {files[fd] : fd \in theirs} = clients
      /\ \A fd, other \in theirs : files[fd] = files[other] => fd = other
      /\ Serving => files[client_socket] = i

\* The words of a text that are followed by white space.
Whole(text) ==
  LET ws == Words(text)
  IN  IF text # <<>> /\ Last(text)[2] # " " THEN SubSeq(ws, 1, Len(ws) - 1) ELSE ws

\* The words logged for a client that came whole are its own, whatever earlier
\* clients left in the buffer (lines 101-115), and three of them are all that is
\* logged; only where its text ends do the words of earlier clients show.
OwnWords ==
  LET own == Whole(By(i, read_text))
  IN  pc = "write" =>
        /\ \A k \in DOMAIN words : k <= Len(own) => words[k] = own[k]
        /\ Len(own) >= 3 => Len(words) = 3
=============================================================================
