---------------------------- MODULE MCChatFraming ----------------------------
EXTENDS ChatFraming

\* Nothing, one byte, and texts that fill MAX_PAYLOAD or are longer; the length
\* of the longer ones needs both bytes.
MCPayloads == {<< >>, <<1>>, <<1, 0>>, <<0, 1, 1>>}

=============================================================================
