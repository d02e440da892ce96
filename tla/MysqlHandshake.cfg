SPECIFICATION FairHandshakeSpec
INVARIANTS SeqInStep LoginFirst EofStripped
PROPERTY SessionStarts
