---------------------------- MODULE ContextParse ----------------------------
(***************************************************************************)
(* ContextParse, Request and Response of the web server: from the lines of *)
(* a connection's input buffer to requests and from requests to responses. *)
(* A line is the sequence of its words; the query of a target, the text of *)
(* pages and the time a request came at are left out.                      *)
(***************************************************************************)
EXTENDS Naturals, Sequences, TLC

Methods == {"GET", "POST", "HEAD", "PUT", "DELETE"}
Versions == ("HTTP/1.1" :> "Http11") @@ ("HTTP/1.0" :> "Http10")
Fields == ("Connection:" :> "Connection") @@ ("Host:" :> "Host")
Pages == {"/", "/image.jpg", "/hello"}

NewRequest ==
    [method |-> "Invalid", version |-> "Unknow", path |-> "", headers |-> [f \in {} |-> ""]]

NewContext == [state |-> "ExceptRequestLine", request |-> NewRequest]

gotAll(ctx) == ctx.state = "GotAll"

-----------------------------------------------------------------------------
(* Request.                                                                *)

setMethod(req, word) ==
    [req EXCEPT !.method = IF word \in Methods THEN word ELSE "Invalid"]

(* A line with a colon; spaces around its value are cut off.               *)
IsHeader(line) == Len(line) > 0 /\ line[1] \in DOMAIN Fields

addHeader(req, line) ==
    [req EXCEPT !.headers = (Fields[line[1]] :> SubSeq(line, 2, Len(line))) @@ @]

getHeader(req, field) == IF field \in DOMAIN req.headers THEN req.headers[field] ELSE <<>>

-----------------------------------------------------------------------------
(* ContextParse.                                                           *)

(* What is set before a line is refused stays set.                         *)
processRequestLine(req, line) ==
    LET named == setMethod(req, line[1])
        placed == [named EXCEPT !.path = line[2]]
        Refused(r) == [ok |-> FALSE, request |-> r]
    IN IF Len(line) < 2 THEN Refused(req)
       ELSE IF named.method = "Invalid" \/ Len(line) = 2 THEN Refused(named)
       ELSE IF Len(line) = 3 /\ line[3] \in DOMAIN Versions
       THEN [ok |-> TRUE, request |-> [placed EXCEPT !.version = Versions[line[3]]]]
       ELSE Refused(placed)

(* The lines are the complete ones of the buffer: findCRLF finds no other. *)
(* A line without a colon ends the headers, and left is what stays in the  *)
(* buffer.  Nothing sets the state ExceptBody.                             *)
RECURSIVE parseRequest(_, _)
parseRequest(ctx, lines) ==
    IF lines = <<>> THEN [ok |-> TRUE, ctx |-> ctx, left |-> lines]
    ELSE IF ctx.state = "ExceptRequestLine"
    THEN LET p == processRequestLine(ctx.request, Head(lines))
         IN IF p.ok
            THEN parseRequest([state |-> "ExceptHeader", request |-> p.request], Tail(lines))
            ELSE [ok |-> FALSE, ctx |-> [ctx EXCEPT !.request = p.request], left |-> lines]
    ELSE IF IsHeader(Head(lines))
    THEN parseRequest([ctx EXCEPT !.request = addHeader(@, Head(lines))], Tail(lines))
    ELSE [ok |-> TRUE, ctx |-> [ctx EXCEPT !.state = "GotAll"], left |-> Tail(lines)]

reset_State(ctx) == [ctx EXCEPT !.state = "ExceptRequestLine"]

reset(ctx) == NewContext

-----------------------------------------------------------------------------
(* Server::onRequest and Response.                                         *)

IsShortLink(req) ==
    LET connection == getHeader(req, "Connection")
    IN \/ connection = <<"close">>
       \/ req.version = "Http10" /\ connection # <<"Keep-Alive">>

(* Status, and whether the connection is closed after the response; the    *)
(* header lines are those of appendToBuffer.                               *)
HttpRequest(req) ==
    IF req.path \in Pages
    THEN [status |-> 200, close |-> IsShortLink(req), fields |-> {"Content-Type", "Server"}]
    ELSE [status |-> 404, close |-> TRUE, fields |-> {}]

appendToBuffer(resp) ==
    [status |-> resp.status, close |-> resp.close,
     fields |-> resp.fields \cup {"Connection"}
                \cup (IF resp.close THEN {} ELSE {"Content-Lenght"})]

BadRequest == [status |-> 400, close |-> TRUE, fields |-> {}]
=============================================================================
