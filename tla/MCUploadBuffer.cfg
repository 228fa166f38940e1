SPECIFICATION FairUploadSpec
CONSTANTS
  ann = ann
  bob = bob
  u1 = u1
  u2 = u2
  u3 = u3
  Uploads = {u1, u2, u3}
  Owners = {ann, bob}
  OwnerOf <- MCOwnerOf
  FileLength <- MCFileLength
  MAX_BUFFER_SIZE = 2
  NoUpload = NoUpload
CHECK_DEADLOCK FALSE
INVARIANTS UploadsInv GrantIsBacked FileIdFirst
 
