--------------------------- MODULE ServerHandshake ---------------------------
(***************************************************************************)
(* The upgrade request as WebSocketsServer reads it, line by line, into    *)
(* the fields of a slot that serves one connection after another.  The     *)
(* server may ask for header lines of its own: a validator judges them,    *)
(* and some are mandatory (onValidateHttpHeader).  Authorization, which    *)
(* the firmware does not use, is left out.                                 *)
(***************************************************************************)
EXTENDS Integers, FiniteSets

CONSTANTS
    Mandatory,         \* the mandatory headers
    Rejected,          \* headers that the validator refuses
    MaxCount           \* bound on cMandatoryHeadersCount

HeadersAssumption ==
    /\ IsFiniteSet(Mandatory)
    /\ MaxCount \in Nat /\ MaxCount > Cardinality(Mandatory)

VARIABLES
    stage,             \* "not", "header", "connected"
    client,            \* the fields of the request
    \* history, of this connection
    lines,             \* the lines it has sent
    headers,           \* of them, the mandatory and rejected ones since its last GET
    twice,             \* it sent GET or one of these twice, or before GET
    answer             \* the last answer: "none", "101" or "400"

shakeVars == <<stage, client, lines, headers, twice, answer>>

Upgrade == {"GET", "upgrade", "websocket", "key", "version"}
Line == Upgrade \cup Mandatory \cup Rejected

\* The fields of the request, and the state of the validation, of which only
\* GET makes a new start.
ShakeInit ==
    /\ stage = "not" /\ answer = "none"
    /\ client = [fields |-> {}, valid |-> TRUE, count |-> 0]
    /\ lines = {} /\ headers = {} /\ twice = FALSE

handleNewClient ==
    /\ stage = "not"
    /\ stage' = "header"
    /\ lines' = {} /\ headers' = {} /\ twice' = FALSE /\ answer' = "none"
    /\ UNCHANGED client

\* Mutant: the next connection finds the fields of this one.
keepFields ==
    stage' = "not" /\ client' = client

\* clientDisconnect() clears the fields of the request.
clearFields ==
    stage' = "not" /\ client' = [client EXCEPT !.fields = {}]

\* "GET url" starts the validation anew.
handleRequestLine ==
    client' = [fields |-> client.fields \cup {"GET"}, valid |-> TRUE, count |-> 0]

\* A header the validator is asked about.
validateHeader(line) ==
    /\ line \in Mandatory => client.count < MaxCount
    /\ client' = [client EXCEPT !.valid = @ /\ line \notin Rejected,
                                !.count = IF line \in Mandatory THEN @ + 1 ELSE @]

handleLine(line) ==
    /\ stage = "header"
    /\ CASE line = "GET" -> handleRequestLine
         [] line \in Upgrade \ {"GET"} ->
              client' = [client EXCEPT !.fields = @ \cup {line}]
         [] OTHER -> validateHeader(line)
    /\ lines' = lines \cup {line}
    /\ headers' = IF line = "GET" THEN {}
                  ELSE IF line \in Upgrade THEN headers ELSE headers \cup {line}
    /\ twice' = (twice \/ (line \notin Upgrade \ {"GET"} /\ line \in lines)
                       \/ (line \notin Upgrade /\ "GET" \notin lines))
    /\ UNCHANGED <<stage, answer>>

\* The mandatory headers are counted, not told apart.
Accepted ==
    /\ client.fields = Upgrade
    /\ client.valid
    /\ client.count = Cardinality(Mandatory)

\* The empty line: the upgrade, or 400 and the end of the connection.
handleHeaderEnd ==
    /\ stage = "header"
    /\ IF Accepted
         THEN stage' = "connected" /\ answer' = "101" /\ UNCHANGED client
         ELSE clearFields /\ answer' = "400"
    /\ UNCHANGED <<lines, headers, twice>>

\* The connection is closed by either side, or lost, at any moment.
Closed ==
    /\ stage # "not"
    /\ clearFields
    /\ answer' = "none"
    /\ UNCHANGED <<lines, headers, twice>>

ShakeNext ==
    \/ handleNewClient
    \/ \E line \in Line : handleLine(line)
    \/ handleHeaderEnd
    \/ Closed

ShakeSpec == ShakeInit /\ [][ShakeNext]_shakeVars
-----------------------------------------------------------------------------
\* Whatever the connections before it have left in the slot, an upgraded connection
\* has sent every line of the upgrade itself, and without repetitions every
\* mandatory header and none that was refused; one that sent GET first, each header
\* once and every mandatory one is refused only for a header it sent itself, or an
\* upgrade that is not whole (WebSocketsServer::handleHeader, clientDisconnect).
HandshakeAgrees ==
    /\ stage = "connected" => /\ Upgrade \subseteq lines
                              /\ ~ twice => headers = Mandatory
    /\ answer = "400" /\ ~ twice /\ Mandatory \subseteq headers =>
           headers \cap Rejected # {} \/ ~ Upgrade \subseteq lines
=============================================================================
