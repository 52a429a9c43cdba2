-------------------------- MODULE MessageValidation --------------------------
(***************************************************************************)
(* The validation chain of SendMessage: ContentValidator then              *)
(* RateLimitValidator(1s), the first failure ending the chain.  Only the   *)
(* length of a content matters here.                                       *)
(***************************************************************************)
EXTENDS ClientRegistry, Integers

CONSTANTS
    MinLength,    \* ContentValidator::Config::minLength
    MaxLength     \* ContentValidator::Config::maxLength

VARIABLE lastMessageTime  \* lastMessageTime_: no entry is ever erased

Never == -1

\* 1s, the interval the chain is built with.
MinInterval == TicksPerSecond

ValidationTypeOK == lastMessageTime \in [Peers -> Time \cup {Never}]

ValidationInit == lastMessageTime = [p \in Peers |-> Never]

contentAccepted(length) == length >= MinLength /\ length <= MaxLength

\* A mutant: every message passes.
rateAccepted_Unlimited(p, timestamp) == TRUE

rateAccepted(p, timestamp) ==
    lastMessageTime[p] # Never => timestamp - lastMessageTime[p] >= MinInterval

\* A message that passes leaves its timestamp; a refused one leaves no trace.
RecordMessageTime(p, timestamp) ==
    lastMessageTime' = [lastMessageTime EXCEPT ![p] = timestamp]
=============================================================================
