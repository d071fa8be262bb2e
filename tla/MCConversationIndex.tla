------------------------- MODULE MCConversationIndex ------------------------
EXTENDS ConversationIndex
=============================================================================
