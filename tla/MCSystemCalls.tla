--------------------------- MODULE MCSystemCalls ---------------------------
(* The two programs whose steps are calls of the kernel.  They do not        *)
(* interact, so each behaviour runs one of them: the two threads of          *)
(* pthread_conditions.c, with nothing to bound, or four rounds of            *)
(* http_server.c with room for two descriptors that are never closed, so     *)
(* that the third client may find none.                                      *)
EXTENDS PthreadConditions

CONSTANTS ROUNDS, OPEN_MAX, Requests       \* of HttpServer

ASSUME OpenMaxAssumption == OPEN_MAX \in Nat
ASSUME RequestsAssumption == Requests \subseteq Seq({"c", " "})

VARIABLES
  program,                                 \* the one that runs
  pc, i, client_socket, files, BUFFER, read_text, words, broken   \* those of HttpServer

server_vars == <<pc, i, client_socket, files, BUFFER, read_text, words, broken>>

Server == INSTANCE HttpServer

FewRequests ==
  {<<>>, <<"c">>, <<"c", "c", " ">>, <<"c", " ", "c", " ", "c", " ">>,
   <<"c", "c", " ", "c", " ", "c", "c", " ", "c">>}

MCInit ==
  /\ program \in {"pthread_conditions", "http_server"}
  /\ Init /\ Server!Init

Threads(step) == program = "pthread_conditions" /\ step /\ UNCHANGED <<program, server_vars>>

MCNext ==
  \/ Threads(Next)
  \/ program = "http_server" /\ Server!Next /\ UNCHANGED <<program, vars>>

MCvars == <<program, vars, server_vars>>

\* The fairness of PthreadConditions; a server may wait for a client for ever.
MCSpec ==
  /\ MCInit /\ [][MCNext]_MCvars
  /\ WF_MCvars(Threads(MainNext)) /\ WF_MCvars(Threads(ChildNext))

-----------------------------------------------------------------------------
(* The properties of HttpServer under names of their own.                    *)

\* Descriptors that stay open are those of clients that failed: see HttpServer.
DescriptorsAccounted == Server!Accounted

\* A client's request is logged, not an earlier one's: see HttpServer.
OwnWords == Server!OwnWords
=============================================================================
