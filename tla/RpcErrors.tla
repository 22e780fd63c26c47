------------------------------ MODULE RpcErrors ------------------------------
(***************************************************************************)
(* The error contract every service of the system shares: what a handler   *)
(* may throw, and the status its caller sees.  Messages are left out: they *)
(* are for people, and no code branches on them.                           *)
(***************************************************************************)
EXTENDS Integers

OK == 200
BadRequest == 400
Unauthorized == 401
Forbidden == 403
NotFound == 404
Conflict == 409
ServerError == 500
BadGateway == 502
Unavailable == 503
GatewayTimeout == 504

Statuses == {OK, BadRequest, Unauthorized, Forbidden, NotFound, Conflict,
             ServerError, BadGateway, Unavailable, GatewayTimeout}

(* A failed query is no HTTP exception.  A broken UNIQUE constraint or     *)
(* primary key is SQLSTATE 23505; the other ways a statement fails (a NULL *)
(* in a NOT NULL column, an integer out of range, an exhausted sequence, a *)
(* lost connection) carry other codes, or none.                            *)
QueryFailures == {"UniqueViolation", "OtherQueryFailure"}

(* What an HttpException answers to getStatus(). *)
HttpStatus ==
    [BadRequestException |-> BadRequest, UnauthorizedException |-> Unauthorized,
     NotFoundException |-> NotFound,     ConflictException |-> Conflict]

(* Mutant: the driver's code is taken for a status. *)
StatusOrCode(exception) ==
    IF exception \in DOMAIN HttpStatus THEN HttpStatus[exception] ELSE 23505

(* toRpcErrorPayload: an HttpException keeps its own status, a unique      *)
(* violation (the race was lost) is a conflict, all the rest is a 500.     *)
(* (An RpcException may bring a status of its own; no handler throws one.) *)
StatusOf(exception) ==
    IF exception \in DOMAIN HttpStatus THEN HttpStatus[exception]
    ELSE IF exception = "UniqueViolation" THEN Conflict
    ELSE ServerError
=============================================================================
