SPECIFICATION Spec
CONSTANTS
    c1 = c1
    c2 = c2
    pk1 = pk1
    pk2 = pk2
    sk1 = sk1
    sk2 = sk2
    alice = alice
    bob = bob
    right = right
    wrong = wrong
    None = None
    Zeroes = Zeroes
    Second = Second
    Calls = {c1}
    PublicKeys = {pk1, pk2}
    SecretKeys = {sk1, sk2}
    Passwords = {right, wrong}
    Addresses = {alice, bob}
    AddressOf <- MCAddressOf
    KeyPairs <- MCKeyPairs
    Files <- MixedFiles
INVARIANTS
    PublicKeyMatches
CHECK_DEADLOCK FALSE
