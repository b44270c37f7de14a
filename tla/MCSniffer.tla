----------------------------- MODULE MCSniffer -------------------------------
(* Sniffer with headers of few bytes: frames that end inside each header,    *)
(* that just hold all headers, and that do not fit into the buffer.          *)
EXTENDS Sniffer

MCTransport == [p \in {"TCP", "UDP", "Other"} |->
                  IF p = "TCP" THEN 2 ELSE IF p = "UDP" THEN 1 ELSE 0]
=============================================================================
