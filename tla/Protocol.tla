------------------------------ MODULE Protocol ------------------------------
(***************************************************************************)
(* What Google's answers mean to the engine (internal/gphotos).  An answer *)
(* is what a request met with; what the client makes of it is one of the   *)
(* errors the engine tells apart:                                          *)
(*   auth       the session is rejected                                    *)
(*   drift      the answer has not the expected shape                      *)
(*   elsewhere  Google names a host the client does not know               *)
(*   transient  another attempt may succeed                                *)
(*   error      anything else                                              *)
(***************************************************************************)

RpcAnswers == {
    "payload",      \* the frame asked for, holding what is expected
    "declined",     \* all of VrseUb's answer but the URL
    "misshapen",    \* a frame that holds something else
    "frameless",    \* no frame for the rpc, or one that is not JSON
    "unguarded",    \* a body without the guard or without frames in it
    "page",         \* the signed-out shell, served with a 200
    "signin",       \* a redirect to the sign-in page
    "denied",       \* 401, 403
    "busy",         \* 429, 5xx
    "refused",      \* any other status
    "unreachable",  \* no response, or one that breaks off
    "late"}         \* the client's own deadline passes

ContentAnswers == {
    "body",         \* all the bytes asked for
    "elsewhere",    \* a URL on a host the client does not know
    "stale",        \* 401, 403, 410: the signature has expired
    "busy", "refused", "unreachable", "late",
    "cut"}          \* fewer bytes than the server announced

(* A deadline of the client's own is a context.DeadlineExceeded as well. *)
HTTPStatus(answer) ==
    CASE answer = "busy" -> "transient"
      [] answer \in {"refused", "late"} -> "error"
      [] answer = "unreachable" -> "transient"
      [] OTHER -> "none"

Post(answer) == IF answer \in {"signin", "denied"} THEN "auth" ELSE HTTPStatus(answer)

(* A document in place of frames is a session that died, not drift. *)
DecodeFrames(answer) ==
    CASE answer = "page" -> "auth"
      [] answer = "unguarded" -> "drift"
      [] OTHER -> "none"

PayloadFor(answer) == IF answer = "frameless" THEN "drift" ELSE "none"

(* The first of the three steps that objects. *)
Call(answer) ==
    CASE Post(answer) # "none" -> Post(answer)
      [] Post(answer) = "none" /\ DecodeFrames(answer) # "none" -> DecodeFrames(answer)
      [] OTHER -> PayloadFor(answer)

(* One entry without its id fails the page. *)
DecodeListing(answer) ==
    IF Call(answer) = "none" /\ answer # "payload" THEN "drift" ELSE Call(answer)

(* VrseUb is asked first; only the one shape that is all there but for the
   URL sends the download to pLFTfd. *)
DownloadURL(first, second) ==
    CASE Call(first) # "none" -> Call(first)
      [] first = "declined" -> DecodeListing(second)
      [] first = "misshapen" -> "drift"
      [] OTHER -> "none"

Fetch(answer) ==
    CASE answer = "elsewhere" -> "elsewhere"
      [] answer \in {"stale", "cut"} -> "transient"
      [] OTHER -> HTTPStatus(answer)

(* What an attempt at an item can end in, a URL being minted for each. *)
DownloadOriginal(first, second, content) ==
    IF DownloadURL(first, second) # "none" THEN DownloadURL(first, second) ELSE Fetch(content)

Retryable(err) == err = "transient"
=============================================================================
