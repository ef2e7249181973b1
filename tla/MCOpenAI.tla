------------------------------ MODULE MCOpenAI ------------------------------
EXTENDS OpenAI

\* Files with no messages, with instructions, with one message of each role,
\* and with an example conversation.
Instructions == <<"system", "system">>
OneOfEach == <<"user", "system", "assistant">>
Example == <<"system", "user", "assistant", "system", "user", "assistant">>

AllFiles == {NULL, Instructions, OneOfEach, Example}
=============================================================================
