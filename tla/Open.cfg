SPECIFICATION FairSpec
CONSTANTS
    Procs <- MCProcs
    Signers <- MCSigners
    Signer <- MCSigner
INVARIANTS TypeOK OneWriterKey KeyNeverDisappears
PROPERTIES WriterKeyKept OpensEnd
