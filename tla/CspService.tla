------------------------------ MODULE CspService ------------------------------
(* csp_service_handler.c and its clients in csp_services.c: what is asked, what  *)
(* is answered, and with packets of which length.  Lengths are names; lengths of *)
(* the same name are the same.  What CSP_CMP_ROUTE_SET does is in CspForward.    *)
EXTENDS Naturals, Sequences

\* Codes of the management protocol.  The handler sets the length for some.
CmpSized == {"ident", "route_set_v1", "route_set_v2", "if_stats"}
CmpEchoed == {"peek", "poke", "clock"}
Cmp == CmpSized \cup CmpEchoed

\* Services whose answer is one number.
Numbers == {"memfree", "buf_free", "uptime"}

Services == Cmp \cup Numbers \cup {"ping", "ps", "reboot"}

Port(service) == IF service \in Cmp THEN "cmp" ELSE service

Lengths == Cmp \cup {"ping", "nothing", "byte", "number", "list"}

\* The length of the request: CMP_SIZE of the message, a number, or nothing.
AskLen(service) == CASE service \in Cmp \cup {"ping"} -> service
                     [] service \in Numbers           -> "nothing"
                     [] service = "ps"                -> "byte"
                     [] service = "reboot"            -> "number"

\* Mutant: the length of the request is left as it is.
AnswerLenAsked(service) == AskLen(service)

\* packet->length after the handler; "list" is what csp_ps_hook returns.
AnswerLen(service) == CASE service \in CmpSized -> service
                        [] service \in Numbers  -> "number"
                        [] service = "ps"       -> "list"
                        [] OTHER                -> AskLen(service)

\* inlen of the client; csp_ping and csp_ps do not look at the length.
Expects(service, len) == CASE service \in Cmp     -> len = AskLen(service)
                           [] service \in Numbers -> len = "number"
                           [] OTHER               -> TRUE

\* What is wrong with a request for which do_cmp_* or csp_cmp_handler fails: it is not
\* a request, names no interface, is too long, or the clock cannot be set to it.
Flaws(service) ==
    {"reply"} \cup CASE service \in {"route_set_v1", "route_set_v2", "if_stats"} -> {"unnamed"}
                     [] service \in {"peek", "poke"} -> {"long"}
                     [] service = "clock" -> {"unset"}
                     [] OTHER -> {}

\* Mutant: an answer is sent only if the management protocol was asked.
AnswersCmp(service, flaw) == service \in Cmp /\ flaw \notin Flaws(service)

\* Whether csp_service_handler answers; otherwise it frees the packet.  A process list
\* of length 0 is left out here: the handler frees its packet and then answers with it.
Answers(service, flaw) == \/ service \in Cmp /\ flaw \notin Flaws(service)
                          \/ service \in Numbers \cup {"ping", "ps"}
==============================================================================
