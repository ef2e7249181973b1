------------------------------- MODULE OpenAI -------------------------------
(***************************************************************************)
(* dx_openai_functions.c: the conversation that is kept in the JSON        *)
(* document of a context and posted as a whole with each request.          *)
(*                                                                         *)
(* A message is its role and the request it was written for (0: it was in  *)
(* the file).  dx_openai_function_post_request blocks until the answer is  *)
(* there and calls the handler before it returns: a handler that posts     *)
(* again nests.                                                            *)
(***************************************************************************)
EXTENDS Integers, Sequences, FiniteSets, SequencesExt

CONSTANTS
    Files,          \* files: the roles of their messages, or NULL if there is
                    \* no "messages" array
    MaxPosts,       \* bound on the requests
    MaxDepth,       \* bound on the requests in progress
    NULL

Roles == {"system", "user", "assistant"}

ASSUME OpenAIAssumption ==
    /\ Files \subseteq Seq(Roles) \cup {NULL}
    /\ MaxPosts \in Nat /\ MaxDepth \in Nat
    /\ NULL \notin Seq([role : Roles, post : Nat])

Message == [role : Roles, post : 0 .. MaxPosts]

VARIABLES
    json_root,      \* is it set?
    file,           \* the file it was parsed from
    message_array,  \* of json_root, NULL if it has none
    headers,        \* is it set?
    posts,          \* the number of requests
    stack,          \* the requests whose handler is running, innermost first
    sent            \* the messages of the context's last request

conversation == <<json_root, file, message_array, headers, posts, stack, sent>>

-----------------------------------------------------------------------------
FromFile(f) == IF f = NULL THEN NULL
               ELSE [k \in DOMAIN f |-> [role |-> f[k], post |-> 0]]

\* The first message with the role is removed, and only that one.
del_existing_msgs(array, key) ==
    LET matches == {k \in DOMAIN array : array[k].role = key} IN
    IF matches = {} THEN array
    ELSE RemoveAt(array, CHOOSE k \in matches : \A j \in matches : k <= j)

\* Mutant: the assistant's messages are kept.
BugCleared(array) == del_existing_msgs(array, "user")

Cleared(array) == del_existing_msgs(del_existing_msgs(array, "user"), "assistant")

\* The messages of a request, in the order they are appended.
New(user, assistant) ==
    (IF user THEN <<[role |-> "user", post |-> posts + 1]>> ELSE <<>>) \o
    (IF assistant THEN <<[role |-> "assistant", post |-> posts + 1]>> ELSE <<>>)

\* Application code runs between requests or in a handler.
Calls == Len(stack) < MaxDepth

-----------------------------------------------------------------------------
\* json_root is parsed from the file, unless it is set.
dx_openai_function_init(f, key) ==
    /\ Calls
    /\ ~json_root \/ (~headers /\ key)
    /\ json_root' = TRUE
    /\ IF json_root THEN UNCHANGED <<file, message_array>>
                    ELSE file' = f /\ message_array' = FromFile(f)
    /\ headers' = (headers \/ key)
    /\ UNCHANGED <<posts, stack, sent>>

\* json_parse_file fails: json_root stays NULL.
InitFails(key) ==
    /\ Calls /\ ~json_root
    /\ headers' = (headers \/ key)
    /\ UNCHANGED <<json_root, file, message_array, posts, stack, sent>>

\* Up to the call of the handler in parse_response, which comes whether or not
\* there was an answer.  Without an array the messages are made and dropped.
dx_openai_function_post_request(user, assistant) ==
    /\ Calls /\ posts < MaxPosts
    /\ json_root /\ headers
    /\ posts' = posts + 1
    /\ message_array' = IF message_array = NULL THEN NULL
                        ELSE Cleared(message_array) \o New(user, assistant)
    /\ sent' = IF message_array = NULL THEN <<>> ELSE message_array'
    /\ stack' = <<posts + 1>> \o stack
    /\ UNCHANGED <<json_root, file, headers>>

HandlerReturns ==
    /\ stack # <<>>
    /\ stack' = Tail(stack)
    /\ UNCHANGED <<json_root, file, message_array, headers, posts, sent>>

dx_openai_function_free ==
    /\ Calls /\ (json_root \/ headers)
    /\ json_root' = FALSE /\ message_array' = NULL
    /\ headers' = FALSE
    /\ sent' = <<>>
    /\ UNCHANGED <<file, posts, stack>>

ConversationInit ==
    /\ json_root = FALSE /\ file = NULL /\ message_array = NULL /\ headers = FALSE
    /\ posts = 0 /\ stack = <<>> /\ sent = <<>>

ConversationNext ==
    \/ \E f \in Files, key \in BOOLEAN : dx_openai_function_init(f, key)
    \/ \E key \in BOOLEAN : InitFails(key)
    \/ \E user, assistant \in BOOLEAN : dx_openai_function_post_request(user, assistant)
    \/ HandlerReturns
    \/ dx_openai_function_free

ConversationSpec == ConversationInit /\ [][ConversationNext]_conversation

-----------------------------------------------------------------------------
Count(array, role) == Cardinality({k \in DOMAIN array : array[k].role = role})
CountInFile(role)  == Cardinality({k \in DOMAIN file : file[k] = role})
AtLeastOne(n)      == IF n = 0 THEN 1 ELSE n

\* The conversation does not grow with the number of requests, whatever the
\* order of requests with and without a message of the user or the assistant:
\* of each role there are never more messages than in the file, or one.
ConversationIsBounded ==
    message_array # NULL =>
        \A role \in {"user", "assistant"} :
            Count(message_array, role) <= AtLeastOne(CountInFile(role))

\* A request has no message of a role but its own, the existing ones have been
\* found and deleted, if the file has at most one message of that role:
\* del_existing_msgs stops at the first.
OnlyItsOwn ==
    \A k \in DOMAIN sent :
        sent[k].role # "system" /\ CountInFile(sent[k].role) <= 1 => sent[k].post = posts
=============================================================================
