SPECIFICATION Spec
CONSTANTS
    Procs <- MCTwo
    Signers <- MCTwoSigners
    Signer <- MCTwoSigner
PROPERTY NeverWidened
